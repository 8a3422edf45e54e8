------------------------------ MODULE Uthread -------------------------------
(***************************************************************************)
(* The user-level threads package, uthread.c: creation, the two scheduling *)
(* policies, yield, exit and priorities.  A process runs one thread at a    *)
(* time, so every library call is one step.                                *)
(*                                                                         *)
(* A slot of ut_table.threads is a null pointer, a pointer to a live        *)
(* uthread_t, or a dangling pointer to a freed one.  The tid of a live      *)
(* thread is its slot.  ctx[i] is what ss_esp and ss_ebp of thread i point  *)
(* to: the top of an empty stack ("fresh"), the frame of its last           *)
(* uthread_yield ("saved"), or nothing current, as it is running            *)
(* ("active").                                                             *)
(***************************************************************************)
EXTENDS Integers, FiniteSets

CONSTANTS
  MAX_UTHREADS,
  Priority      \* priorities the program uses

ASSUME UthreadAssumption ==
  /\ MAX_UTHREADS \in Nat \ {0}
  /\ Priority \subseteq 0..9

Tid == 0..MAX_UTHREADS - 1
NoTid == -1

(* What an uninitialised priority may hold; 10 is any value above 9.       *)
Garbage == 0..10

VARIABLES
  SCHED_PB,     \* compiled with the priority policy
  StackFails,   \* malloc may fail on a stack after granting a uthread_t
  SetPr,        \* the program calls uthread_setpr
  first_uthread,
  cur_threads, highest_p, running_tid, threads,  \* ut_table
  priority, virgin, ctx,                         \* in each uthread_t
  mode,      \* "main" up to uthread_start_all, "thread", "exited"
  fault      \* "none", or how the library has lost control: "oob" past the
             \* end of the table, "spin" in next_thread, "dangling" pointer

options == <<SCHED_PB, StackFails, SetPr>>   \* fixed from the start
vars == <<options, first_uthread, cur_threads, highest_p, running_tid, threads,
          priority, virgin, ctx, mode, fault>>

(* Static memory is zero: running_tid is not -1 before uthread_create.     *)
Init ==
  /\ SCHED_PB \in BOOLEAN /\ StackFails \in BOOLEAN /\ SetPr \in BOOLEAN
  /\ first_uthread = TRUE
  /\ cur_threads = 0 /\ highest_p = 0 /\ running_tid = 0
  /\ threads = [i \in Tid |-> "null"]
  /\ priority = [i \in Tid |-> 0]
  /\ virgin = [i \in Tid |-> FALSE]
  /\ ctx = [i \in Tid |-> "fresh"]
  /\ mode = "main" /\ fault = "none"

-----------------------------------------------------------------------------
(* uthread_create, called by main or by a thread.  The first call          *)
(* initialises the table.                                                  *)
Cur == IF first_uthread THEN 0 ELSE cur_threads

M_Highest_NotInit == highest_p
Highest == IF first_uthread THEN 9 ELSE highest_p

M_NewHighest_NotRaised(pr) == Highest
NewHighest(pr) == IF Highest > pr THEN pr ELSE Highest

InitTable ==
  /\ mode # "exited" /\ fault = "none"
  /\ first_uthread' = FALSE
  /\ running_tid' = IF first_uthread THEN NoTid ELSE running_tid

CreateFull ==
  /\ InitTable
  /\ Cur = MAX_UTHREADS
  /\ UNCHANGED <<cur_threads, highest_p, threads, priority, virgin, ctx, mode, fault>>

(* The slot the search stops at.                                           *)
FreeSlot(i) ==
  /\ Cur # MAX_UTHREADS
  /\ threads[i] = "null" /\ \A j \in Tid : j < i => threads[j] # "null"

CreateOk(i, pr) ==
  /\ InitTable /\ FreeSlot(i)
  /\ threads' = [threads EXCEPT ![i] = "live"]
  /\ cur_threads' = Cur + 1
  /\ highest_p' = NewHighest(pr)
  /\ priority' = [priority EXCEPT ![i] = pr]
  /\ virgin' = [virgin EXCEPT ![i] = TRUE]
  /\ ctx' = [ctx EXCEPT ![i] = "fresh"]
  /\ UNCHANGED <<mode, fault>>

(* No room for the uthread_t: the slot is null again.                      *)
CreateNoRoom(i) ==
  /\ InitTable /\ FreeSlot(i)
  /\ cur_threads' = Cur /\ highest_p' = Highest
  /\ UNCHANGED <<threads, priority, virgin, ctx, mode, fault>>

(* No room for the stack: the uthread_t is freed with its fields never     *)
(* written, and the slot still points to it.                               *)
CreateNoStack(i, pr) ==
  /\ StackFails
  /\ InitTable /\ FreeSlot(i)
  /\ threads' = [threads EXCEPT ![i] = "freed"]
  /\ priority' = [priority EXCEPT ![i] = pr]
  /\ cur_threads' = Cur /\ highest_p' = Highest
  /\ UNCHANGED <<virgin, ctx, mode, fault>>

(* No slot is null: the search ends at MAX_UTHREADS, and the pointer goes  *)
(* to threads[MAX_UTHREADS], that is, over running_tid.                    *)
CreatePastEnd ==
  /\ InitTable
  /\ Cur # MAX_UTHREADS /\ \A i \in Tid : threads[i] # "null"
  /\ fault' = "oob"
  /\ UNCHANGED <<cur_threads, highest_p, threads, priority, virgin, ctx, mode>>

-----------------------------------------------------------------------------
(* next_thread: the first eligible slot in circular order from start.      *)
Eligible(thr, hp) ==
  {i \in Tid : thr[i] # "null" /\ (SCHED_PB => priority[i] = hp)}

M_Distance_FromZero(start, i) == i
Distance(start, i) == IF i >= start THEN i - start ELSE i - start + MAX_UTHREADS

After(i) == (i + 1) % MAX_UTHREADS

(* The end of yield, exit and start_all: s_next = next_thread(start) gets  *)
(* the processor, on a table thr with top priority hp and contexts c.  With *)
(* nothing eligible next_thread loops forever.                             *)
SwitchTo(start, thr, hp, c) ==
  \/ /\ Eligible(thr, hp) = {}
     /\ fault' = "spin"
     /\ ctx' = c
     /\ UNCHANGED <<running_tid, virgin>>
  \/ \E i \in Eligible(thr, hp) :
       /\ \A j \in Eligible(thr, hp) : Distance(start, i) <= Distance(start, j)
       /\ running_tid' = i
       /\ virgin' = [virgin EXCEPT ![i] = FALSE]
       /\ ctx' = [c EXCEPT ![i] = "active"]
       /\ fault' = IF thr[i] = "freed" THEN "dangling" ELSE fault

uthread_start_all ==
  /\ mode = "main" /\ fault = "none"
  /\ ~first_uthread /\ cur_threads # 0 /\ running_tid = NoTid
  /\ SwitchTo(0, threads, highest_p, ctx)
  /\ mode' = "thread"
  /\ UNCHANGED <<first_uthread, cur_threads, highest_p, threads, priority>>

Running == mode = "thread" /\ fault = "none"

SaveContext(i) == [ctx EXCEPT ![i] = "saved"]

uthread_yield ==
  /\ Running
  /\ SwitchTo(After(running_tid), threads, highest_p, SaveContext(running_tid))
  /\ UNCHANGED <<first_uthread, cur_threads, highest_p, threads, priority, mode>>

(* hp = get_highest_p() on a table thr.                                    *)
IsHighest(thr, hp) ==
  LET P == {9} \cup {priority[i] : i \in {j \in Tid : thr[j] # "null"}}
  IN hp \in P /\ \A q \in P : hp <= q

M_ExitHighest_Kept(thr, hp) == hp = highest_p
ExitHighest(thr, hp) == IsHighest(thr, hp)

ExitCount == cur_threads - 1

(* uthread_exit, called by the thread or by wrap_function when its entry    *)
(* function returns.  The last thread ends the process.                    *)
uthread_exit ==
  /\ Running
  /\ threads' = [threads EXCEPT ![running_tid] = "null"]
  /\ cur_threads' = ExitCount
  /\ highest_p' \in 0..9 /\ ExitHighest(threads', highest_p')
  /\ \/ /\ cur_threads' = 0
        /\ mode' = "exited"
        /\ UNCHANGED <<running_tid, virgin, ctx, fault>>
     \/ /\ cur_threads' # 0
        /\ SwitchTo(After(running_tid), threads', highest_p', ctx)
        /\ UNCHANGED mode
  /\ UNCHANGED <<first_uthread, priority>>

uthread_setpr(pr) ==
  /\ SetPr /\ Running
  /\ priority' = [priority EXCEPT ![running_tid] = pr]
  /\ UNCHANGED <<first_uthread, cur_threads, highest_p, running_tid, threads,
                 virgin, ctx, mode, fault>>

Create ==
  \/ CreateFull \/ CreatePastEnd
  \/ \E i \in Tid :
       \/ CreateNoRoom(i)
       \/ \E pr \in Priority : CreateOk(i, pr)
       \/ \E pr \in Garbage : CreateNoStack(i, pr)

Call ==
  \/ Create
  \/ uthread_start_all \/ uthread_yield \/ uthread_exit
  \/ \E pr \in Priority : uthread_setpr(pr)

Next == Call /\ UNCHANGED options

Spec == Init /\ [][Next]_vars

(* Threads are cooperative: the running one yields or exits eventually.    *)
FairSpec == Spec /\ WF_vars((uthread_yield \/ uthread_exit) /\ UNCHANGED options)

-----------------------------------------------------------------------------
Live == {i \in Tid : threads[i] = "live"}

TypeOK ==
  /\ SCHED_PB \in BOOLEAN /\ StackFails \in BOOLEAN /\ SetPr \in BOOLEAN
  /\ first_uthread \in BOOLEAN
  /\ cur_threads \in 0..MAX_UTHREADS
  /\ highest_p \in 0..9
  /\ running_tid \in Tid \cup {NoTid}
  /\ threads \in [Tid -> {"null", "live", "freed"}]
  /\ priority \in [Tid -> Garbage]
  /\ virgin \in [Tid -> BOOLEAN]
  /\ ctx \in [Tid -> {"fresh", "saved", "active"}]
  /\ mode \in {"main", "thread", "exited"}
  /\ fault \in {"none", "oob", "spin", "dangling"}

(* cur_threads, which alone decides that the table is full and that the    *)
(* process ends, counts the threads of the table, across every create,      *)
(* failed create and exit.                                                 *)
CountRight == cur_threads = Cardinality(Live)

(* The context a switch loads is the right one: a virgin thread has an      *)
(* empty stack for wrap_function, any other that is not running has the     *)
(* frame of its last yield, and the running one, a virgin no more, has neither.     *)
(* Also when its slot was that of a thread that exited.  uthread_start_all  *)
(* does not look at virgin: all threads still are.                         *)
ContextRight ==
  fault = "none" =>
    \A i \in Live :
      /\ ctx[i] = IF mode = "thread" /\ i = running_tid THEN "active"
                  ELSE IF virgin[i] THEN "fresh" ELSE "saved"
      /\ mode = "main" => virgin[i]
      /\ mode = "thread" /\ i = running_tid => ~virgin[i]

(* The library never loses control: uthread_create finds a null slot when   *)
(* the count says there is one, next_thread terminates, and a switch is to  *)
(* a live thread.  As long as no malloc of a stack fails, and uthread_setpr *)
(* is not used under the priority policy.                                  *)
Controlled == ~StackFails /\ ~(SCHED_PB /\ SetPr)
NoFault == Controlled => fault = "none"

(* uthread_create and uthread_exit keep highest_p the best priority in the  *)
(* table ("new top priority thread", "who is highest?").                   *)
HighestRight ==
  ~StackFails /\ ~first_uthread /\ mode # "exited" => IsHighest(threads, highest_p)

(* So they do in a program that does not call uthread_setpr.               *)
HighestKept == ~SetPr => HighestRight

(* Which thread runs in each mode, and what the table holds before the     *)
(* first uthread_create.                                                   *)
ModeRight ==
  /\ first_uthread => mode = "main" /\ \A i \in Tid : threads[i] = "null"
  /\ fault = "none" /\ mode = "main" /\ ~first_uthread => running_tid = NoTid
  /\ fault = "none" /\ mode = "thread" => running_tid \in Live

(* Without a failed malloc of a stack no slot dangles, and priorities are   *)
(* those the program gave.                                                 *)
NoDangling ==
  ~StackFails => \A i \in Tid : threads[i] # "freed" /\ priority[i] <= 9

(* The inductive invariant of uthread.c: count, contexts, running thread,   *)
(* table and highest_p stay right through every library call.              *)
UInv ==
  /\ TypeOK /\ CountRight /\ ContextRight /\ ModeRight
  /\ NoDangling /\ HighestKept /\ NoFault

(* Under the priority policy, without uthread_setpr, the processor goes to  *)
(* a thread no live thread has priority over.                              *)
TopPriorityNext ==
  [][SCHED_PB /\ ~SetPr /\ ~StackFails /\ running_tid' \notin {running_tid, NoTid} =>
       \A i \in Live' : priority'[running_tid'] <= priority'[i]]_vars

(* The scheduler starves no thread its policy entitles: under round robin   *)
(* every live thread gets to run, under the priority policy every thread    *)
(* of the top priority, or it stops being of the top priority.             *)
EligibleRuns ==
  \A i \in Tid :
    (Controlled /\ mode = "thread" /\ i \in Eligible(threads, highest_p)) ~>
      \/ running_tid = i
      \/ i \notin Eligible(threads, highest_p)

(* The search loop of uthread_create: "if we've got to the end of the       *)
(* array, that means the last place is free".                              *)
SlotFound == fault # "oob"
=============================================================================
