--------------------------- MODULE UthreadProofs ----------------------------
(***************************************************************************)
(* The threads package never loses control, for every size of the table     *)
(* and every set of priorities.                                            *)
(***************************************************************************)
EXTENDS Uthread, FiniteSetTheorems, TLAPS

(* The threads that a set of slots of the table holds are finitely many,   *)
(* and a full table holds MAX_UTHREADS.                                    *)
LEMMA LiveFinite ==
  /\ IsFiniteSet(Live) /\ Cardinality(Live) \in 0..MAX_UTHREADS
  /\ Cardinality(Live) = MAX_UTHREADS <=> Live = Tid
PROOF
<1> USE UthreadAssumption
<1>1. IsFiniteSet(Tid) /\ Cardinality(Tid) = MAX_UTHREADS
  <2>1. 0 \in Int /\ MAX_UTHREADS - 1 \in Int /\ 0 <= MAX_UTHREADS - 1
    OBVIOUS
  <2>2. IsFiniteSet(Tid) /\ Cardinality(Tid) = (MAX_UTHREADS - 1) - 0 + 1
    BY <2>1, FS_Interval DEF Tid
  <2> QED BY <2>2
<1>2. Live \subseteq Tid
  BY DEF Live
<1>3. IsFiniteSet(Live) /\ Cardinality(Live) <= Cardinality(Tid)
      /\ (Cardinality(Live) = Cardinality(Tid) => Live = Tid)
  BY <1>1, <1>2, FS_Subset
<1>4. Cardinality(Live) \in Nat
  BY <1>3, FS_CardinalityType
<1> QED BY <1>1, <1>3, <1>4

(* Filling a slot that holds no thread adds one thread.                    *)
LEMMA LiveAdd ==
  ASSUME TypeOK, NEW i \in Tid, threads[i] # "live",
         threads' = [threads EXCEPT ![i] = "live"]
  PROVE  Cardinality(Live') = Cardinality(Live) + 1
PROOF
<1>1. Live' = Live \cup {i} /\ i \notin Live
  BY DEF Live, TypeOK
<1> QED BY <1>1, LiveFinite, FS_AddElement

(* Clearing the slot of a thread removes one.                              *)
LEMMA LiveDrop ==
  ASSUME TypeOK, NEW i \in Live, threads' = [threads EXCEPT ![i] = "null"]
  PROVE  Cardinality(Live') = Cardinality(Live) - 1
PROOF
<1>1. Live' = Live \ {i}
  BY DEF Live, TypeOK
<1> QED BY <1>1, LiveFinite, FS_RemoveElement

(* next_thread finds a thread when the table holds one and, under the      *)
(* priority policy, highest_p is its best priority.                        *)
LEMMA NextFound ==
  ASSUME TypeOK, NEW thr, NEW hp \in 0..9, NEW k \in Tid, thr[k] # "null",
         \A i \in Tid : priority[i] <= 9,
         SCHED_PB => IsHighest(thr, hp)
  PROVE  Eligible(thr, hp) # {}
PROOF
<1>1. CASE ~SCHED_PB
  BY <1>1 DEF Eligible
<1>2. CASE SCHED_PB
  <2>1. priority[k] \in 0..9 /\ hp <= priority[k]
    BY <1>2, UthreadAssumption DEF IsHighest, TypeOK, Garbage
  <2>2. CASE hp = 9
    BY <2>1, <2>2 DEF Eligible
  <2>3. CASE hp # 9
    <3>1. \E i \in Tid : thr[i] # "null" /\ priority[i] = hp
      BY <1>2, <2>3 DEF IsHighest
    <3> QED BY <3>1 DEF Eligible
  <2> QED BY <2>2, <2>3
<1> QED BY <1>1, <1>2, UthreadAssumption

(* What a switch does, when there is a thread to switch to and when not.   *)
LEMMA Switched ==
  ASSUME NEW start, NEW thr, NEW hp, NEW c, SwitchTo(start, thr, hp, c)
  PROVE  \/ /\ Eligible(thr, hp) = {} /\ fault' = "spin"
            /\ ctx' = c /\ UNCHANGED <<running_tid, virgin>>
         \/ \E i \in Tid :
              /\ thr[i] # "null" /\ running_tid' = i
              /\ virgin' = [virgin EXCEPT ![i] = FALSE]
              /\ ctx' = [c EXCEPT ![i] = "active"]
              /\ fault' = IF thr[i] = "freed" THEN "dangling" ELSE fault
PROOF
  BY DEF SwitchTo, Eligible

(* The initial state satisfies the invariant.                              *)
LEMMA UInit == Init => UInv
PROOF
<1> SUFFICES ASSUME Init PROVE UInv
  OBVIOUS
<1> USE UthreadAssumption
<1>1. TypeOK
  BY DEF Init, TypeOK, Tid, NoTid, Garbage
<1>2. Live = {}
  BY DEF Init, Live
<1>3. CountRight
  BY <1>2, FS_EmptySet DEF CountRight, Init
<1>4. ContextRight /\ ModeRight
  BY <1>2 DEF ContextRight, ModeRight, Init
<1>5. NoDangling /\ HighestKept /\ NoFault
  BY DEF NoDangling, HighestKept, HighestRight, NoFault, Init
<1> QED BY <1>1, <1>3, <1>4, <1>5 DEF UInv

(* At a uthread_create, first or not, the count and the best priority it   *)
(* starts from are those of the table.                                     *)
LEMMA CreateStart ==
  ASSUME UInv, InitTable
  PROVE  /\ Cur = Cardinality(Live) /\ Cur = cur_threads /\ Highest \in 0..9
         /\ ~StackFails /\ ~SetPr => IsHighest(threads, Highest)
         /\ first_uthread' = FALSE /\ mode # "exited" /\ fault = "none"
         /\ mode = "main" => running_tid' = NoTid
         /\ mode = "thread" => running_tid' = running_tid /\ running_tid \in Live
         /\ running_tid' \in Tid \cup {NoTid}
PROOF
<1>1. first_uthread => Live = {}
  BY DEF UInv, ModeRight, Live
<1>2. Cur = Cardinality(Live) /\ Cur = cur_threads
  BY <1>1, FS_EmptySet DEF UInv, CountRight, Cur
<1>3. first_uthread => IsHighest(threads, 9)
  BY DEF UInv, ModeRight, IsHighest
<1>4. Highest \in 0..9 /\ (~StackFails /\ ~SetPr => IsHighest(threads, Highest))
  BY <1>3 DEF UInv, TypeOK, HighestKept, HighestRight, Highest, InitTable
<1> QED BY <1>2, <1>4 DEF InitTable, UInv, TypeOK, ModeRight

(* A uthread_create that leaves the table alone, or fails, keeps the       *)
(* invariant.                                                              *)
LEMMA CreateFailStep ==
  ASSUME UInv, UNCHANGED options,
         \/ CreateFull \/ CreatePastEnd
         \/ \E i \in Tid : CreateNoRoom(i)
  PROVE  UInv'
PROOF
<1>1. InitTable
  BY DEF CreateFull, CreatePastEnd, CreateNoRoom
<1> USE UthreadAssumption, CreateStart, <1>1 DEF options
<1>2. /\ UNCHANGED <<threads, priority, virgin, ctx, mode>>
      /\ cur_threads' = Cur
      /\ highest_p' = Highest
      /\ \/ fault' = fault
         \/ fault' = "oob" /\ Cur # MAX_UTHREADS /\ \A i \in Tid : threads[i] # "null"
  <2>1. CASE CreateFull
    <3>1. Cur = MAX_UTHREADS /\ ~first_uthread
      BY <2>1 DEF CreateFull, Cur
    <3> QED BY <2>1, <3>1 DEF CreateFull, Highest
  <2>2. CASE CreatePastEnd
    <3>1. ~first_uthread
      <4>1. 0 \in Tid
        BY DEF Tid
      <4> QED BY <2>2, <4>1 DEF CreatePastEnd, UInv, ModeRight
    <3> QED BY <2>2, <3>1 DEF CreatePastEnd, Highest
  <2>3. CASE \E i \in Tid : CreateNoRoom(i)
    BY <2>3 DEF CreateNoRoom
  <2> QED BY <2>1, <2>2, <2>3
<1>3. Live' = Live
  BY <1>2 DEF Live
<1>4. TypeOK'
  BY <1>2, Zenon DEF UInv, TypeOK
<1>5. CountRight'
  BY <1>2, <1>3 DEF CountRight
<1>6. ContextRight' /\ ModeRight'
  BY <1>2, <1>3, Zenon DEF UInv, TypeOK, ContextRight, ModeRight, Live, NoTid, Tid
<1>7. NoDangling' /\ HighestKept'
  BY <1>2, Zenon DEF UInv, NoDangling, HighestKept, HighestRight, IsHighest
<1>8. NoFault'
  <2> SUFFICES ASSUME ~StackFails, \A i \in Tid : threads[i] # "null",
                      Cur # MAX_UTHREADS
               PROVE  FALSE
    BY <1>2 DEF NoFault, Controlled
  <2>1. Live = Tid
    BY DEF Live, UInv, TypeOK, NoDangling
  <2> QED BY <2>1, LiveFinite
<1> QED BY <1>4, <1>5, <1>6, <1>7, <1>8 DEF UInv

(* So does one whose malloc of the stack fails.                            *)
LEMMA CreateNoStackStep ==
  ASSUME UInv, UNCHANGED options, NEW i \in Tid, NEW pr \in Garbage, CreateNoStack(i, pr)
  PROVE  UInv'
PROOF
<1>1. InitTable /\ FreeSlot(i) /\ StackFails
  BY DEF CreateNoStack
<1> USE UthreadAssumption, CreateStart, <1>1 DEF options
<1>2. /\ threads' = [threads EXCEPT ![i] = "freed"]
      /\ priority' = [priority EXCEPT ![i] = pr]
      /\ cur_threads' = Cur /\ highest_p' = Highest
      /\ UNCHANGED <<virgin, ctx, mode, fault>>
  BY DEF CreateNoStack
<1>3. Live' = Live
  BY <1>2 DEF Live, FreeSlot, UInv, TypeOK
<1>4. TypeOK'
  BY <1>2 DEF UInv, TypeOK
<1>5. CountRight'
  BY <1>2, <1>3 DEF CountRight
<1>6. ContextRight' /\ ModeRight'
  BY <1>2, <1>3, Zenon DEF UInv, TypeOK, ContextRight, ModeRight, Live, NoTid, Tid
<1>7. NoDangling' /\ HighestKept' /\ NoFault'
  BY DEF NoDangling, HighestKept, HighestRight, NoFault, Controlled
<1> QED BY <1>4, <1>5, <1>6, <1>7 DEF UInv

(* So does a successful one.                                               *)
LEMMA CreateOkStep ==
  ASSUME UInv, UNCHANGED options, NEW i \in Tid, NEW pr \in Priority, CreateOk(i, pr)
  PROVE  UInv'
PROOF
<1>1. InitTable /\ FreeSlot(i) /\ pr \in 0..9
  BY UthreadAssumption DEF CreateOk
<1> USE UthreadAssumption, CreateStart, <1>1 DEF options
<1>2. /\ threads' = [threads EXCEPT ![i] = "live"]
      /\ priority' = [priority EXCEPT ![i] = pr]
      /\ virgin' = [virgin EXCEPT ![i] = TRUE]
      /\ ctx' = [ctx EXCEPT ![i] = "fresh"]
      /\ cur_threads' = Cur + 1 /\ highest_p' = NewHighest(pr)
      /\ UNCHANGED <<mode, fault>>
  BY DEF CreateOk
<1>3. Live' = Live \cup {i} /\ i \notin Live
  BY <1>2, Zenon DEF Live, FreeSlot, UInv, TypeOK
<1>4. Cardinality(Live') = Cardinality(Live) + 1
  BY <1>2, <1>3, LiveAdd, Zenon DEF UInv, FreeSlot
<1>5. Cur + 1 \in 0..MAX_UTHREADS
  BY LiveFinite DEF FreeSlot
<1>6. TypeOK'
  <2>1. NewHighest(pr) \in 0..9 /\ pr \in Garbage
    BY DEF NewHighest, Garbage
  <2>2. priority' \in [Tid -> Garbage]
    BY <1>2, <2>1, Zenon DEF UInv, TypeOK
  <2> QED BY <1>2, <1>5, <2>1, <2>2 DEF UInv, TypeOK
<1>7. CountRight'
  BY <1>2, <1>4 DEF CountRight
<1>8. ContextRight' /\ ModeRight'
  <2>1. ContextRight'
    BY <1>2, <1>3, Zenon DEF UInv, TypeOK, ContextRight, ModeRight, Live, NoTid, Tid
  <2>2. ModeRight'
    BY <1>2, <1>3, Zenon DEF UInv, TypeOK, ModeRight, Live, NoTid, Tid
  <2> QED
    BY <2>1, <2>2
<1>9. HighestKept'
  <2>1. ASSUME IsHighest(threads, Highest)
        PROVE  HighestRight'
    <3> DEFINE P == {9} \cup {priority[j] : j \in {k \in Tid : threads[k] # "null"}}
               Q == {9} \cup {priority'[j] : j \in {k \in Tid : threads'[k] # "null"}}
    <3>1. Q = P \cup {pr}
      BY <1>2 DEF FreeSlot, UInv, TypeOK
    <3>2. P \subseteq 0..10
      BY DEF UInv, TypeOK, Garbage
    <3>3. Highest \in P /\ \A q \in P : Highest <= q
      BY <2>1, Zenon DEF IsHighest
    <3>4. NewHighest(pr) \in Q /\ \A q \in Q : NewHighest(pr) <= q
      BY <3>1, <3>2, <3>3 DEF NewHighest
    <3> QED BY <1>2, <3>4 DEF HighestRight, IsHighest
  <2> QED BY <2>1 DEF HighestKept, HighestRight
<1>10. NoDangling'
  <2> SUFFICES ASSUME ~StackFails, NEW j \in Tid
               PROVE  threads'[j] # "freed" /\ priority'[j] <= 9
    BY Zenon DEF NoDangling
  <2>1. threads[j] # "freed" /\ priority[j] <= 9
    BY DEF UInv, NoDangling
  <2> QED BY <1>2, <2>1 DEF UInv, TypeOK
<1>11. NoFault'
  BY <1>2 DEF NoFault
<1> QED BY <1>6, <1>7, <1>8, <1>9, <1>10, <1>11 DEF UInv

(* A switch from a state with a live thread, over a table and contexts     *)
(* that are right except for the thread that gives up the processor, keeps  *)
(* the invariant.  It is the end of yield and start_all, which leave the    *)
(* table alone.                                                            *)
LEMMA SwitchStep ==
  ASSUME UInv, UNCHANGED options, NEW start, NEW k \in Live, NEW c \in [Tid -> {"fresh", "saved", "active"}],
         SwitchTo(start, threads, highest_p, c),
         fault = "none", mode # "exited", ~first_uthread,
         \A i \in Live : c[i] = IF virgin[i] THEN "fresh" ELSE "saved",
         mode' = "thread",
         UNCHANGED <<first_uthread, cur_threads, highest_p, threads, priority>>
  PROVE  UInv'
PROOF
<1> USE UthreadAssumption
<1>1. Live' = Live
  BY DEF Live
<1>2. CountRight'
  BY <1>1, Zenon DEF UInv, CountRight
<1>3. NoDangling' /\ HighestKept'
  BY DEF options, UInv, NoDangling, HighestKept, HighestRight, IsHighest
<1>4. ~StackFails /\ ~SetPr => IsHighest(threads, highest_p)
  BY DEF UInv, HighestKept, HighestRight
<1>5. CASE /\ Eligible(threads, highest_p) = {} /\ fault' = "spin"
           /\ ctx' = c /\ UNCHANGED <<running_tid, virgin>>
  <2>1. TypeOK'
    BY <1>5, Zenon DEF UInv, TypeOK, options
  <2>2. ContextRight' /\ ModeRight'
    BY <1>5 DEF ContextRight, ModeRight
  <2>3. NoFault'
    <3> SUFFICES ASSUME ~StackFails, ~(SCHED_PB /\ SetPr) PROVE FALSE
      BY DEF NoFault, Controlled, options
    <3>1. /\ \A i \in Tid : priority[i] <= 9
          /\ SCHED_PB => IsHighest(threads, highest_p)
      BY <1>4 DEF UInv, NoDangling
    <3>2. highest_p \in 0..9 /\ k \in Tid /\ threads[k] # "null" /\ TypeOK
      BY DEF UInv, TypeOK, Live
    <3> QED BY <1>5, <3>1, <3>2, NextFound
  <2> QED BY <1>2, <1>3, <2>1, <2>2, <2>3 DEF UInv
<1>6. ASSUME NEW i \in Tid,
             threads[i] # "null", running_tid' = i,
             virgin' = [virgin EXCEPT ![i] = FALSE],
             ctx' = [c EXCEPT ![i] = "active"],
             fault' = IF threads[i] = "freed" THEN "dangling" ELSE fault
      PROVE  UInv'
  <2>1. TypeOK'
    BY <1>6, Zenon DEF UInv, TypeOK, options
  <2>2. fault' = "none" => i \in Live
    BY <1>6, Zenon DEF UInv, TypeOK, Live
  <2>3. ContextRight'
    BY <1>1, <1>6 DEF UInv, TypeOK, ContextRight, Live
  <2>4. ModeRight'
    BY <1>1, <1>6, <2>2 DEF ModeRight
  <2>5. NoFault'
    BY <1>6, Zenon DEF UInv, NoDangling, NoFault, Controlled, options
  <2> QED BY <1>2, <1>3, <2>1, <2>3, <2>4, <2>5 DEF UInv
<1> QED BY <1>5, <1>6, Switched

(* uthread_start_all and uthread_yield keep the invariant.                 *)
LEMMA StartYieldStep ==
  ASSUME UInv, UNCHANGED options, uthread_start_all \/ uthread_yield
  PROVE  UInv'
PROOF
<1> USE UthreadAssumption
<1>1. CASE uthread_start_all
  <2>1. PICK k : k \in Live
    <3>1. Cardinality(Live) # 0
      BY <1>1, Zenon DEF uthread_start_all, UInv, CountRight
    <3> QED BY <3>1, FS_EmptySet
  <2>2. /\ ctx \in [Tid -> {"fresh", "saved", "active"}]
        /\ \A i \in Live : ctx[i] = IF virgin[i] THEN "fresh" ELSE "saved"
    BY <1>1 DEF uthread_start_all, UInv, TypeOK, ContextRight
  <2> QED BY <1>1, <2>1, <2>2, SwitchStep DEF uthread_start_all
<1>2. CASE uthread_yield
  <2> DEFINE c == SaveContext(running_tid)
  <2>1. running_tid \in Live /\ running_tid \in Tid /\ ~first_uthread
    BY <1>2 DEF uthread_yield, Running, UInv, ModeRight, Live
  <2>2. ~virgin[running_tid]
    BY <1>2, <2>1, Zenon DEF uthread_yield, Running, UInv, ContextRight
  <2>3. /\ c \in [Tid -> {"fresh", "saved", "active"}]
        /\ \A i \in Live : c[i] = IF virgin[i] THEN "fresh" ELSE "saved"
    BY <1>2, <2>1, <2>2
    DEF uthread_yield, Running, SaveContext, UInv, TypeOK, ContextRight, Live
  <2>4. /\ SwitchTo(After(running_tid), threads, highest_p, c)
        /\ fault = "none" /\ mode # "exited" /\ mode' = "thread"
        /\ UNCHANGED <<first_uthread, cur_threads, highest_p, threads, priority>>
    BY <1>2 DEF uthread_yield, Running
  <2> HIDE DEF c
  <2> QED BY <2>1, <2>3, <2>4, SwitchStep
<1> QED BY <1>1, <1>2

(* So does uthread_exit: the last thread ends the process, any other       *)
(* leaves one to switch to.                                                *)
LEMMA ExitStep ==
  ASSUME UInv, UNCHANGED options, uthread_exit
  PROVE  UInv'
PROOF
<1> USE UthreadAssumption
<1>1. /\ running_tid \in Live /\ running_tid \in Tid /\ ~first_uthread
      /\ mode = "thread" /\ fault = "none"
  BY DEF uthread_exit, Running, UInv, ModeRight, Live
<1>2. /\ threads' = [threads EXCEPT ![running_tid] = "null"]
      /\ cur_threads' = cur_threads - 1
      /\ highest_p' \in 0..9 /\ IsHighest(threads', highest_p')
      /\ UNCHANGED <<first_uthread, priority>>
  BY DEF uthread_exit, ExitCount, ExitHighest
<1>3. Live' = Live \ {running_tid}
  BY <1>1, <1>2 DEF UInv, TypeOK, Live
<1>4. Cardinality(Live') = cur_threads' /\ cur_threads' \in 0..MAX_UTHREADS
  <2>1. Cardinality(Live') = Cardinality(Live) - 1
    BY <1>1, <1>2, LiveDrop, Zenon DEF UInv
  <2>2. IsFiniteSet(Live) /\ Cardinality(Live) \in 0..MAX_UTHREADS
    BY LiveFinite
  <2>3. Cardinality(Live) # 0
    BY <1>1, <2>2, FS_EmptySet
  <2> QED BY <1>2, <2>1, <2>2, <2>3 DEF UInv, CountRight
<1>5. threads' \in [Tid -> {"null", "live", "freed"}]
  BY <1>1, <1>2, Zenon DEF UInv, TypeOK
<1>6. HighestKept'
  BY <1>2 DEF HighestKept, HighestRight, IsHighest
<1>7. NoDangling'
  BY <1>1, <1>2 DEF UInv, TypeOK, NoDangling, options
<1>8. CountRight'
  BY <1>4 DEF CountRight
<1>9. CASE mode' = "exited" /\ UNCHANGED <<running_tid, virgin, ctx, fault>>
  <2>1. TypeOK'
    BY <1>2, <1>4, <1>5, <1>9, Zenon DEF UInv, TypeOK, options
  <2>2. ContextRight'
    BY <1>1, <1>3, <1>9 DEF UInv, ContextRight
  <2>3. ModeRight' /\ NoFault'
    BY <1>1, <1>2, <1>9 DEF ModeRight, NoFault
  <2> QED BY <1>6, <1>7, <1>8, <2>1, <2>2, <2>3 DEF UInv
<1>10. CASE /\ cur_threads' # 0 /\ UNCHANGED mode
            /\ SwitchTo(After(running_tid), threads', highest_p', ctx)
  <2>1. CASE /\ Eligible(threads', highest_p') = {} /\ fault' = "spin"
             /\ ctx' = ctx /\ UNCHANGED <<running_tid, virgin>>
    <3>1. TypeOK'
      BY <1>2, <1>4, <1>5, <1>10, <2>1 DEF UInv, TypeOK, options
    <3>2. ContextRight' /\ ModeRight'
      BY <1>1, <1>2, <2>1 DEF ContextRight, ModeRight
    <3>3. NoFault'
      <4> SUFFICES ASSUME ~StackFails PROVE FALSE
        BY DEF NoFault, Controlled, options
      <4>1. PICK k : k \in Live'
        BY <1>4, <1>10, FS_EmptySet
      <4>2. k \in Tid /\ threads'[k] # "null" /\ TypeOK
        BY <4>1 DEF Live, UInv
      <4>3. \A i \in Tid : priority[i] <= 9
        BY DEF UInv, NoDangling
      <4> QED BY <1>2, <2>1, <4>2, <4>3, NextFound
    <3> QED BY <1>6, <1>7, <1>8, <3>1, <3>2, <3>3 DEF UInv
  <2>2. ASSUME NEW i \in Tid,
               threads'[i] # "null", running_tid' = i,
               virgin' = [virgin EXCEPT ![i] = FALSE],
               ctx' = [ctx EXCEPT ![i] = "active"],
               fault' = IF threads'[i] = "freed" THEN "dangling" ELSE fault
        PROVE  UInv'
    <3>1. TypeOK'
      BY <1>2, <1>4, <1>5, <1>10, <2>2 DEF UInv, TypeOK, options
    <3>2. fault' = "none" => i \in Live'
      BY ONLY <1>5, <2>2 DEF Live
    <3>3. ContextRight'
      BY <1>1, <1>3, <1>10, <2>2 DEF UInv, TypeOK, ContextRight, Live
    <3>4. ModeRight'
      BY <1>1, <1>2, <1>10, <2>2, <3>2, Zenon DEF ModeRight
    <3>5. NoFault'
      BY <1>1, <1>7, <2>2 DEF NoDangling, NoFault, Controlled, options
    <3> QED BY <1>6, <1>7, <1>8, <3>1, <3>3, <3>4, <3>5 DEF UInv
  <2> QED BY <1>10, <2>1, <2>2, Switched
<1> QED BY <1>9, <1>10 DEF uthread_exit

(* So does uthread_setpr, which leaves highest_p stale.                    *)
LEMMA SetprStep ==
  ASSUME UInv, UNCHANGED options, NEW pr \in Priority, uthread_setpr(pr)
  PROVE  UInv'
PROOF
<1> USE UthreadAssumption DEF options
<1>1. /\ running_tid \in Tid /\ SetPr /\ pr \in 0..9
      /\ priority' = [priority EXCEPT ![running_tid] = pr]
      /\ UNCHANGED <<first_uthread, cur_threads, highest_p, running_tid, threads,
                     virgin, ctx, mode, fault>>
  BY DEF uthread_setpr, Running, UInv, ModeRight, Live
<1>2. priority' \in [Tid -> Garbage]
  BY <1>1 DEF UInv, TypeOK, Garbage
<1>3. TypeOK'
  BY <1>1, <1>2, Zenon DEF UInv, TypeOK
<1>4. CountRight' /\ ContextRight' /\ ModeRight'
  BY <1>1 DEF UInv, CountRight, ContextRight, ModeRight, Live
<1>5. NoDangling'
  BY <1>1 DEF UInv, TypeOK, NoDangling
<1>6. HighestKept' /\ NoFault'
  BY <1>1 DEF UInv, HighestKept, NoFault, Controlled
<1> QED BY <1>3, <1>4, <1>5, <1>6 DEF UInv

(* The invariant of the threads package: the count, the contexts, the      *)
(* running thread and highest_p stay right through every sequence of calls, *)
(* for every table size.                                                   *)
THEOREM UthreadInvariance == Spec => []UInv
PROOF
<1>1. UInv /\ [Next]_vars => UInv'
  <2> SUFFICES ASSUME UInv, [Next]_vars PROVE UInv'
    OBVIOUS
  <2>1. CASE Create /\ UNCHANGED options
    BY <2>1, CreateFailStep, CreateOkStep, CreateNoStackStep DEF Create
  <2>2. CASE (uthread_start_all \/ uthread_yield \/ uthread_exit) /\ UNCHANGED options
    BY <2>2, StartYieldStep, ExitStep
  <2>3. CASE (\E pr \in Priority : uthread_setpr(pr)) /\ UNCHANGED options
    BY <2>3, SetprStep, Zenon
  <2>4. CASE UNCHANGED vars
    <3> USE <2>4 DEF vars, options, UInv
    <3>1. TypeOK'
      BY DEF TypeOK
    <3>2. Live' = Live /\ CountRight' /\ ModeRight'
      BY Zenon DEF CountRight, ModeRight, Live
    <3>3. ContextRight'
      BY <3>2, Zenon DEF ContextRight
    <3>4. NoDangling' /\ NoFault'
      BY Zenon DEF NoDangling, NoFault, Controlled
    <3>5. HighestKept'
      BY DEF HighestKept, HighestRight, IsHighest
    <3> QED
      BY ONLY <3>1, <3>2, <3>3, <3>4, <3>5
  <2> QED BY <2>1, <2>2, <2>3, <2>4 DEF Next, Call
<1> QED BY <1>1, UInit, PTL DEF Spec

(* uthread_create never runs past the table, next_thread always finds a    *)
(* thread and no switch is to a freed one, as long as no malloc of a stack  *)
(* fails and uthread_setpr is not used with the priority policy.           *)
THEOREM UthreadNoFault == Spec => []NoFault
PROOF
<1>1. UInv => NoFault
  BY DEF UInv
<1> QED BY <1>1, UthreadInvariance, PTL

(* Under the priority policy, without uthread_setpr, every switch is to a  *)
(* thread of the best priority in the table: what next_thread compares      *)
(* against is never stale.                                                 *)
THEOREM UthreadTopPriority == Spec => TopPriorityNext
PROOF
<1> DEFINE Top == /\ SCHED_PB /\ ~SetPr /\ ~StackFails
                  /\ running_tid' \notin {running_tid, NoTid}
                  => \A i \in Live' : priority'[running_tid'] <= priority'[i]
<1>1. UInv /\ UInv' /\ [Next]_vars => Top
  <2> SUFFICES ASSUME UInv, UInv', [Next]_vars,
                      SCHED_PB, ~SetPr, ~StackFails,
                      running_tid' # running_tid, running_tid' # NoTid,
                      NEW i \in Live'
               PROVE  priority'[running_tid'] <= priority'[i]
    OBVIOUS
  <2>1. uthread_start_all \/ uthread_yield \/ uthread_exit
    BY DEF Next, Call, vars, Create, CreateFull, CreatePastEnd, CreateNoRoom,
       CreateOk, CreateNoStack, InitTable, uthread_setpr
  <2>2. priority'[running_tid'] = highest_p'
    <3>1. CASE uthread_start_all \/ uthread_yield
      BY <3>1, Zenon DEF uthread_start_all, uthread_yield, SwitchTo, Eligible
    <3>2. CASE uthread_exit
      BY <3>2 DEF uthread_exit, SwitchTo, Eligible
    <3> QED BY <2>1, <3>1, <3>2
  <2>3. mode' # "exited" /\ ~first_uthread'
    <3>1. CASE uthread_start_all
      BY ONLY <3>1 DEF uthread_start_all
    <3>2. CASE uthread_yield \/ uthread_exit
      BY <3>2 DEF uthread_yield, uthread_exit, Running, UInv, ModeRight
    <3> QED BY <2>1, <3>1, <3>2
  <2>4. SetPr' = SetPr /\ StackFails' = StackFails
    BY Zenon DEF Next, vars, options
  <2>5. HighestRight'
    BY <2>4 DEF UInv, HighestKept
  <2> QED BY <2>2, <2>3, <2>4, <2>5 DEF HighestRight, IsHighest, Live
<1>2. Spec => []UInv
  BY UthreadInvariance
<1> QED BY <1>1, <1>2, PTL DEF Spec, TopPriorityNext
=============================================================================
