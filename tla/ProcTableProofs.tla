-------------------------- MODULE ProcTableProofs ---------------------------
(***************************************************************************)
(* TableInv is an inductive invariant of Proc: families of processes stay   *)
(* whole and nobody sleeps through an exit, a kill or a tick, for any number *)
(* of slots and CPUs.  A step either leaves families and sleepers alone, in  *)
(* the sense of FamilyQuiet and SleepQuiet, or has a lemma of its own.       *)
(***************************************************************************)
EXTENDS ProcProofs

Alive == {"RUNNABLE", "RUNNING", "SLEEPING"}

FamilyQuiet ==
  /\ UNCHANGED <<pid, parent, nextpid>>
  /\ \A q \in Slot :
       /\ \/ state'[q] = state[q]
          \/ state[q] \in Alive /\ state'[q] \in Alive
          \/ state[q] = "EMBRYO" /\ state'[q] = "UNUSED"
       /\ Pos(q)' = "fork_run" => Pos(q) = "fork_run" /\ np'[q] = np[q]

TickPending == \E d \in CPU : tickslock = d /\ intr[d] = "wakeup"

SleepQuiet ==
  /\ \A q \in Slot :
       /\ state'[q] = "SLEEPING" =>
            /\ state[q] = "SLEEPING" /\ chan'[q] = chan[q] /\ due'[q] = due[q]
            /\ killed'[q] => killed[q]
       /\ state'[q] = "ZOMBIE" => state[q] = "ZOMBIE" /\ parent'[q] = parent[q]
       /\ pc'[q] = "sleep_enter" => pc[q] = "sleep_enter" /\ due'[q] = due[q]
  /\ TickPending => TickPending'

(* A step that keeps pids and parents, and in which processes only run,     *)
(* sleep and wake, or fork gives up an embryo, keeps the families whole.    *)
LEMMA FamilyKept ==
  ASSUME TableInv, FamilyQuiet
  PROVE  Kin' /\ FamilyRight'
<1> USE DEF TableInv, FamilyQuiet, Alive
<1>1. InitProc \in Slot /\ NoProc \notin Slot /\ parent \in [Slot -> Slot \cup {NoProc}]
  BY SlotFacts DEF ProcInv, TypeOK
<1>2. Kin'
  BY <1>1 DEF Kin
<1>3. ParentAlive'
  BY <1>1 DEF FamilyRight, ParentAlive
<1>4. UniquePid'
  BY <1>1 DEF FamilyRight, UniquePid
<1> QED
  BY <1>2, <1>3, <1>4 DEF FamilyRight

(* A step that puts nobody to sleep, makes no zombie, marks no sleeper      *)
(* killed and leaves a pending wakeup of the clock pending, keeps Asleep.   *)
LEMMA SleepKept ==
  ASSUME TableInv, SleepQuiet
  PROVE  Asleep'
<1> SUFFICES ASSUME NEW p \in Slot
             PROVE  /\ state'[p] = "SLEEPING" /\ chan'[p] = p =>
                         ~killed'[p] /\ \A q \in Slot : parent'[q] = p => state'[q] # "ZOMBIE"
                    /\ pc'[p] = "sleep_enter" => due'[p] > 0
                    /\ state'[p] = "SLEEPING" /\ chan'[p] = TicksChan => due'[p] > 0 \/ TickPending'
  BY DEF Asleep, TickPending
<1>1. /\ state[p] = "SLEEPING" /\ chan[p] = p =>
           ~killed[p] /\ \A q \in Slot : parent[q] = p => state[q] # "ZOMBIE"
      /\ pc[p] = "sleep_enter" => due[p] > 0
      /\ state[p] = "SLEEPING" /\ chan[p] = TicksChan => due[p] > 0 \/ TickPending
  BY Zenon DEF TableInv, Asleep, TickPending
<1> QED
  BY <1>1 DEF SleepQuiet

(* What the invariant says of the process that a CPU executes.             *)
LEMMA Executing ==
  ASSUME TableInv, NEW c \in CPU, NEW p \in Slot, proc[c] = p, pc[p] # "sched"
  PROVE  /\ state[p] = "RUNNING" /\ \A q \in Slot : np[q] # p
         /\ pc \in [Slot -> Label] /\ ret \in [Slot -> Resume] /\ state \in [Slot -> ProcState]
         /\ intr[c] = "none" => ~(tickslock = c /\ intr[c] = "wakeup")
  BY OnThisCpu DEF TableInv, ProcInv, TypeOK

(* The scheduler, the start of the timer interrupt, and sched.             *)
LEMMA SchedulerQuiet ==
  ASSUME TableInv, NEW c \in CPU,
         \/ SchedAcquire(c) \/ SchedRelease(c) \/ Timer(c)
         \/ \E p \in Slot : SchedSwitch(c, p) \/ sched(c, p)
  PROVE  FamilyQuiet /\ SleepQuiet
<1>1. CASE SchedAcquire(c) \/ SchedRelease(c) \/ Timer(c)
  <2>1. UNCHANGED <<state, pid, parent, chan, killed, pc, ret, np, due, nextpid, tickslock>>
    BY <1>1 DEF SchedAcquire, SchedRelease, Timer, table, thread
  <2>2. intr \in [CPU -> {"none", "tick", "wakeup", "tail"}]
    BY DEF TableInv, ProcInv, TypeOK
  <2>3. TickPending => TickPending'
    BY <1>1, <2>1, <2>2, Zenon DEF SchedAcquire, SchedRelease, Timer, Interruptible,
       TickPending
  <2> QED
    BY <2>1, <2>3, Zenon DEF FamilyQuiet, SleepQuiet, Pos
<1>2. ASSUME NEW p \in Slot, SchedSwitch(c, p)
      PROVE  FamilyQuiet /\ SleepQuiet
  <2>1. /\ state[p] = "RUNNABLE" /\ state' = [state EXCEPT ![p] = "RUNNING"]
        /\ UNCHANGED <<pid, parent, chan, killed, pc, ret, np, due, nextpid, tickslock, intr>>
        /\ state \in [Slot -> ProcState]
    BY <1>2, Zenon DEF SchedSwitch, thread, TableInv, ProcInv, TypeOK
  <2> QED
    BY ONLY <2>1 DEF FamilyQuiet, SleepQuiet, Pos, Alive, TickPending
<1>3. ASSUME NEW p \in Slot, sched(c, p)
      PROVE  FamilyQuiet /\ SleepQuiet
  <2>1. /\ pc[p] = "sched" /\ pc' = [pc EXCEPT ![p] = "resume"] /\ pc \in [Slot -> Label]
        /\ UNCHANGED <<state, pid, parent, chan, killed, ret, np, due, nextpid, tickslock, intr>>
    BY <1>3 DEF sched, At, Goto, table, TableInv, ProcInv, TypeOK
  <2>2. \A q \in Slot : Pos(q)' = Pos(q)
    BY <2>1 DEF Pos
  <2> QED
    BY <2>1, <2>2 DEF FamilyQuiet, SleepQuiet, TickPending
<1> QED
  BY <1>1, <1>2, <1>3

(* A process p on CPU c goes on to label l without leaving the CPU; others   *)
(* may be woken and marked killed.                                         *)
Moves(c, p, l) ==
  /\ proc[c] = p /\ intr[c] = "none" /\ pc[p] # "sched"
  /\ pc' = [pc EXCEPT ![p] = l] /\ l \notin {"sched", "resume", "sleep_enter"}
  /\ l = "fork_run" => Pos(p) = "fork_run"
  /\ UNCHANGED <<pid, parent, nextpid, np, intr>>
  /\ state'[p] = state[p]
  /\ \A q \in Slot \ {p} :
       /\ ret'[q] = ret[q] /\ chan'[q] = chan[q] /\ due'[q] = due[q]
       /\ state'[q] = state[q] \/ (state[q] = "SLEEPING" /\ state'[q] = "RUNNABLE")
       /\ killed'[q] => killed[q] \/ state'[q] # "SLEEPING"
  /\ tickslock' = tickslock \/ tickslock = NoCpu \/ tickslock = c

(* A process that only moves on in the kernel leaves families and sleepers  *)
(* as they are.                                                             *)
LEMMA MovesQuiet ==
  ASSUME TableInv, NEW c \in CPU, NEW p \in Slot, NEW l, Moves(c, p, l)
  PROVE  FamilyQuiet /\ SleepQuiet
<1> USE DEF Moves
<1>1. state[p] = "RUNNING" /\ pc \in [Slot -> Label]
  BY Executing
<1>2. TickPending => TickPending'
  BY ProcAssumption DEF TickPending
<1>3. pc'[p] = l /\ \A q \in Slot \ {p} : pc'[q] = pc[q]
  BY <1>1, Zenon
<1>4. \A q \in Slot \ {p} : Pos(q)' = Pos(q)
  BY ONLY <1>3, TableInv, Moves(c, p, l) DEF Pos
<1>5. Pos(p)' = l
  BY <1>3 DEF Pos
<1>6. FamilyQuiet
  BY <1>1, <1>4, <1>5 DEF FamilyQuiet, Alive
<1>7. SleepQuiet
  BY <1>1, <1>2, <1>3 DEF SleepQuiet
<1> QED
  BY <1>6, <1>7, Zenon

(* System calls, their return and faults; the return from swtch.           *)
LEMMA TrapQuiet ==
  ASSUME TableInv, NEW c \in CPU, NEW p \in Slot,
         Syscall(c, p) \/ Sysret(c, p) \/ Fault(c, p) \/ Resumed(c, p)
  PROVE  FamilyQuiet /\ SleepQuiet
<1>1. CASE Syscall(c, p) \/ Sysret(c, p) \/ Fault(c, p)
  <2>1. PICK l \in {"fork", "exit", "wait", "kill", "sleep", "user"} : Goto(p, l)
    BY <1>1, ProcAssumption DEF Syscall, Sysret, Fault
  <2>2. /\ proc[c] = p /\ intr[c] = "none" /\ pc[p] \in {"user", "sysret"}
        /\ UNCHANGED <<state, pid, parent, chan, ret, np, due, nextpid, tickslock, intr>>
    BY <1>1, Zenon DEF Syscall, Sysret, Fault, At, table, cpus
  <2>3. \A q \in Slot \ {p} : killed'[q] = killed[q]
    BY <1>1, Zenon DEF Syscall, Sysret, Fault, table, TableInv, ProcInv, TypeOK
  <2>4. Moves(c, p, l)
    BY <2>1, <2>2, <2>3 DEF Moves, Goto
  <2> QED
    BY <2>4, MovesQuiet, Zenon
<1>2. CASE Resumed(c, p)
  <2>1. /\ proc[c] = p /\ intr[c] = "none" /\ pc[p] = "resume"
        /\ UNCHANGED <<state, pid, parent, killed, np, due, nextpid, tickslock, intr>>
        /\ chan' = chan \/ chan' = [chan EXCEPT ![p] = NoProc]
        /\ ret' = [ret EXCEPT ![p] = "none"]
    BY ONLY <1>2 DEF Resumed, At, cpus
  <2>2. PICK l : /\ (l = ret[p] /\ ret[p] \in Preemptible) \/ l \in {"user", "exit", "wait_scan", "sleep_again"}
                 /\ Goto(p, l)
    BY <1>2, Zenon DEF Resumed
  <2>3. l \notin {"sched", "resume", "sleep_enter"} /\ (l = "fork_run" => Pos(p) = "fork_run")
    BY <2>1, <2>2 DEF Preemptible, Pos
  <2>4. \A q \in Slot \ {p} : ret'[q] = ret[q] /\ chan'[q] = chan[q]
    BY <2>1, Zenon DEF TableInv, ProcInv, TypeOK
  <2>5. Moves(c, p, l)
    BY <2>1, <2>2, <2>3, <2>4 DEF Moves, Goto
  <2> QED
    BY <2>5, MovesQuiet
<1> QED
  BY <1>1, <1>2

(* The end of the timer interrupt: exit, or yield.                         *)
LEMMA YieldQuiet ==
  ASSUME TableInv, NEW c \in CPU, TrapTail(c) \/ \E p \in Slot : yield(c, p)
  PROVE  FamilyQuiet /\ SleepQuiet
<1>1. pc \in [Slot -> Label] /\ intr \in [CPU -> {"none", "tick", "wakeup", "tail"}]
  BY DEF TableInv, ProcInv, TypeOK
<1>2. CASE TrapTail(c)
  <2>1. /\ intr[c] = "tail" /\ intr' = [intr EXCEPT ![c] = "none"]
        /\ pc' = [p \in Slot |-> IF p = proc[c] THEN "exit" ELSE pc[p]]
        /\ UNCHANGED <<state, pid, parent, chan, killed, ret, np, due, nextpid, tickslock>>
    BY <1>2, Zenon DEF TrapTail, table
  <2>2. TickPending => TickPending'
    BY <1>1, <2>1 DEF TickPending
  <2>3. \A q \in Slot : Pos(q)' = Pos(q) \/ Pos(q)' = "exit"
    BY ONLY <1>1, <2>1 DEF Pos
  <2> QED
    BY <2>1, <2>2, <2>3, Zenon DEF FamilyQuiet, SleepQuiet
<1>3. ASSUME NEW p \in Slot, yield(c, p)
      PROVE  FamilyQuiet /\ SleepQuiet
  <2>1. /\ intr[c] = "tail" /\ intr' = [intr EXCEPT ![c] = "none"] /\ proc[c] = p
        /\ state' = [state EXCEPT ![p] = "RUNNABLE"]
        /\ ret' = [ret EXCEPT ![p] = pc[p]] /\ pc' = [pc EXCEPT ![p] = "sched"]
        /\ UNCHANGED <<pid, parent, chan, killed, np, due, nextpid, tickslock>>
    BY <1>3, Zenon DEF yield, Goto
  <2>2. pc[p] \in Preemptible
    BY <2>1, SlotFacts, Zenon DEF TableInv, ProcInv, LockOwner
  <2>3. state[p] = "RUNNING" /\ ret \in [Slot -> Resume] /\ state \in [Slot -> ProcState]
    BY <2>1, <2>2, Executing DEF Preemptible
  <2>4. TickPending => TickPending'
    BY <1>1, <2>1 DEF TickPending
  <2>5. \A q \in Slot : Pos(q)' = Pos(q)
    BY ONLY <1>1, <2>1, <2>2, <2>3 DEF Pos, Preemptible
  <2> QED
    BY <1>1, <2>1, <2>3, <2>4, <2>5, Zenon DEF FamilyQuiet, SleepQuiet, Alive
<1> QED
  BY <1>2, <1>3

(* The beginning and the end of wait, kill, and sys_sleep up to its test.   *)
LEMMA CallQuiet ==
  ASSUME TableInv, NEW c \in CPU, NEW p \in Slot,
         \/ WaitAcquire(c, p) \/ WaitNone(c, p) \/ kill(c, p)
         \/ sys_sleep(c, p) \/ SleepAgain(c, p) \/ (SleepLoop(c, p) /\ ~Goto(p, "sleep_enter"))
  PROVE  FamilyQuiet /\ SleepQuiet
<1>1. PICK l \in {"wait_scan", "sysret", "sleep_loop"} : Goto(p, l)
  BY DEF WaitAcquire, WaitNone, kill, sys_sleep, SleepAgain, SleepLoop
<1>2. /\ proc[c] = p /\ intr[c] = "none" /\ pc[p] # "sched"
      /\ UNCHANGED <<pid, parent, chan, ret, np, nextpid, intr>>
      /\ tickslock' = tickslock \/ tickslock = NoCpu \/ tickslock = c
  BY Zenon DEF WaitAcquire, WaitNone, kill, sys_sleep, SleepAgain, SleepLoop, At, table,
     cpus, acquire, release
<1>3. \A q \in Slot \ {p} : due'[q] = due[q]
  BY Zenon DEF WaitAcquire, WaitNone, kill, sys_sleep, SleepAgain, SleepLoop, TableInv,
     ProcInv, TypeOK
<1>4. /\ state'[p] = state[p]
      /\ \A q \in Slot \ {p} :
           /\ state'[q] = state[q] \/ (state[q] = "SLEEPING" /\ state'[q] = "RUNNABLE")
           /\ killed'[q] => killed[q] \/ state'[q] # "SLEEPING"
  <2>1. CASE kill(c, p)
    <3>1. state[p] = "RUNNING" /\ state \in [Slot -> ProcState] /\ killed \in [Slot -> BOOLEAN]
      BY <1>2, Executing, Zenon DEF TableInv, ProcInv, TypeOK
    <3>2. \/ UNCHANGED <<state, killed>>
          \/ \E q \in Slot : killed' = [killed EXCEPT ![q] = TRUE] /\ state' = KillState(q)
      BY <2>1 DEF kill
    <3> QED
      BY <3>1, <3>2 DEF KillState
  <2>2. CASE ~kill(c, p)
    BY <2>2, Zenon DEF WaitAcquire, WaitNone, sys_sleep, SleepAgain, SleepLoop, table
  <2> QED
    BY ONLY <2>1, <2>2
<1>5. Moves(c, p, l)
  BY <1>1, <1>2, <1>3, <1>4, Zenon DEF Moves, Goto
<1> QED
  BY <1>5, MovesQuiet, Zenon

(* fork: its embryo, which nobody else sees, its pid and its parent.        *)
LEMMA AllocTable ==
  ASSUME TableInv, NEW c \in CPU, NEW p \in Slot, allocproc(c, p)
  PROVE  Kin' /\ FamilyRight' /\ SleepQuiet
<1>1. /\ proc[c] = p /\ pc[p] = "fork"
      /\ UNCHANGED <<parent, chan, killed, ret, due, tickslock, intr>>
  BY DEF allocproc, At, cpus
<1>2. /\ state[p] = "RUNNING" /\ pc \in [Slot -> Label] /\ state \in [Slot -> ProcState]
      /\ pid \in [Slot -> Nat] /\ nextpid \in Nat /\ np \in [Slot -> Slot \cup {NoProc}]
      /\ parent \in [Slot -> Slot \cup {NoProc}] /\ InitProc \in Slot
  BY <1>1, Executing, SlotFacts, Zenon DEF TableInv, ProcInv, TypeOK
<1>3. PICK l \in {"fork_kalloc", "sysret"} : pc' = [pc EXCEPT ![p] = l]
  BY DEF allocproc, Goto
<1>4. \A r \in Slot : (r # p => Pos(r)' = Pos(r)) /\ (r = p => Pos(r)' = l)
  BY ONLY <1>1, <1>2, <1>3 DEF Pos
<1>5. CASE UNCHANGED <<state, pid, np, nextpid>>
  <2>1. FamilyQuiet
    BY <1>1, <1>4, <1>5, Zenon DEF FamilyQuiet
  <2>2. SleepQuiet
    BY ONLY <1>1, <1>2, <1>3, <1>5 DEF SleepQuiet, TickPending
  <2> QED
    BY <2>1, <2>2, FamilyKept
<1>6. ASSUME NEW q \in Slot, state[q] = "UNUSED", state' = [state EXCEPT ![q] = "EMBRYO"],
             TakePid(q), np' = [np EXCEPT ![p] = q]
      PROVE  Kin' /\ FamilyRight' /\ SleepQuiet
  <2>1. /\ pid'[q] = nextpid /\ nextpid' = nextpid + 1
        /\ state'[q] = "EMBRYO" /\ np'[p] = q
        /\ \A r \in Slot \ {q} : pid'[r] = pid[r] /\ state'[r] = state[r]
        /\ \A r \in Slot \ {p} : np'[r] = np[r]
    BY <1>2, <1>6, Zenon DEF TakePid
  <2>2. /\ state[InitProc] \in Alive /\ parent[InitProc] = NoProc
        /\ \A r \in Slot : /\ parent[r] # r /\ pid[r] < nextpid
                           /\ Pos(r) = "fork_run" => parent[np[r]] = r
    BY DEF TableInv, Kin, Alive
  <2>3. Kin'
    <3>1. \A r \in Slot : pid'[r] < nextpid'
      BY <1>2, <2>1, <2>2
    <3>2. ASSUME NEW r \in Slot, Pos(r)' = "fork_run"
          PROVE  parent'[np'[r]] = r
      <4>1. r # p /\ Pos(r) = "fork_run"
        BY <1>4, <3>2, Zenon
      <4>2. parent[np[r]] = r
        BY <2>2, <4>1
      <4> QED
        BY <1>1, <2>1, <4>1, <4>2, Zenon
    <3>3. state'[InitProc] = state[InitProc]
      BY <1>2, <1>6, <2>1, <2>2 DEF Alive
    <3> QED
      BY <1>1, <2>2, <3>1, <3>2, <3>3, Zenon DEF Kin, Alive
  <2>4. ParentAlive'
    BY ONLY <1>1, <1>2, <1>6, <2>1, TableInv DEF TableInv, FamilyRight, ParentAlive
  <2>5. UniquePid'
    BY ONLY <1>2, <2>1, <2>2, TableInv, allocproc(c, p) DEF TableInv, FamilyRight,
       UniquePid
  <2>6. SleepQuiet
    BY <1>1, <1>2, <1>3, <2>1, Zenon DEF SleepQuiet, TickPending
  <2> QED
    BY <2>3, <2>4, <2>5, <2>6 DEF FamilyRight
<1> QED
  BY <1>5, <1>6 DEF allocproc

(* The steps of fork keep the families; its child appears with a live       *)
(* parent.                                                                  *)
LEMMA ForkTable ==
  ASSUME TableInv, NEW c \in CPU, NEW p \in Slot,
         ForkKalloc(c, p) \/ ForkCopy(c, p) \/ ForkRun(c, p)
  PROVE  Kin' /\ FamilyRight' /\ SleepQuiet
<1>1. /\ proc[c] = p /\ pc[p] \in ForkLabel
      /\ UNCHANGED <<pid, chan, killed, due, nextpid, tickslock, intr>>
  BY Zenon DEF ForkKalloc, ForkCopy, ForkRun, At, cpus, ForkLabel
<1>2. /\ pc \in [Slot -> Label] /\ state \in [Slot -> ProcState]
      /\ np \in [Slot -> Slot \cup {NoProc}] /\ ret \in [Slot -> Resume]
      /\ parent \in [Slot -> Slot \cup {NoProc}] /\ InitProc \in Slot /\ NoProc \notin Slot
  BY SlotFacts DEF TableInv, ProcInv, TypeOK
<1>3. PICK q \in Slot \ {p} :
        /\ q = np[p] /\ state[q] = "EMBRYO" /\ state[p] = "RUNNING"
        /\ \A r \in Slot \ {p} : np[r] # q
        /\ IF pc[p] = "fork_kalloc" THEN pc[q] = "none" ELSE pc[q] = "resume" /\ ret[q] = "forkret"
  <2>1. ProcInv /\ proc[c] = p /\ pc[p] \in ForkLabel
    BY <1>1, Zenon DEF TableInv
  <2>2. /\ np[p] \in Slot \ {p} /\ state[np[p]] = "EMBRYO" /\ state[p] = "RUNNING"
        /\ \A r \in Slot \ {p} : np[r] # np[p]
        /\ IF pc[p] = "fork_kalloc" THEN pc[np[p]] = "none"
           ELSE pc[np[p]] = "resume" /\ ret[np[p]] = "forkret"
    BY <2>1, MyEmbryo
  <2> QED
    BY <2>2, Zenon
<1>4. /\ Kin /\ ParentAlive /\ UniquePid /\ q # InitProc /\ Pos(p) = pc[p]
  BY <1>1, <1>3, Zenon DEF TableInv, FamilyRight, Kin, Pos, ForkLabel
<1>5. ASSUME FamilyQuiet,
             \A r \in Slot : state'[r] = state[r] \/ state'[r] = "UNUSED",
             \A r \in Slot : pc'[r] = pc[r] \/ pc'[r] # "sleep_enter"
      PROVE  Kin' /\ FamilyRight' /\ SleepQuiet
  <2>1. SleepQuiet
    BY <1>1, <1>5, Zenon DEF SleepQuiet, FamilyQuiet, TickPending
  <2> QED
    BY <1>5, <2>1, FamilyKept, Zenon
<1>6. CASE ForkKalloc(c, p) /\ UNCHANGED state
  <2>1. /\ pc' = [pc EXCEPT ![q] = "resume", ![p] = "fork_copy"]
        /\ ret' = [ret EXCEPT ![q] = "forkret"] /\ UNCHANGED <<parent, np>>
    BY <1>2, <1>3, <1>6, Zenon DEF ForkKalloc
  <2>2. \A r \in Slot : Pos(r)' = Pos(r) \/ Pos(r)' \in {"forkret", "fork_copy"}
    BY <1>2, <1>3, <2>1 DEF Pos
  <2>3. FamilyQuiet
    BY <1>1, <1>6, <2>1, <2>2, Zenon DEF FamilyQuiet
  <2> QED
    BY <1>2, <1>3, <1>5, <1>6, <2>1, <2>3, Zenon
<1>7. CASE /\ state' = [state EXCEPT ![q] = "UNUSED"] /\ np' = [np EXCEPT ![p] = NoProc]
           /\ ForkKalloc(c, p) \/ ForkCopy(c, p)
  <2>1. /\ pc' = [pc EXCEPT ![q] = "none", ![p] = "sysret"] /\ UNCHANGED parent
        /\ \A r \in Slot \ {q} : ret'[r] = ret[r]
    BY ONLY <1>2, <1>3, <1>7, TableInv, ForkKalloc(c, p) \/ ForkCopy(c, p) \/ ForkRun(c,
       p) DEF ForkKalloc, ForkCopy, Goto, At
  <2>2. \A r \in Slot : (Pos(r)' = Pos(r) /\ np'[r] = np[r]) \/ Pos(r)' \in {"none", "sysret"}
    BY <1>2, <1>3, <1>7, <2>1, Zenon DEF Pos
  <2>3. FamilyQuiet
    BY <1>1, <1>2, <1>3, <1>7, <2>1, <2>2 DEF FamilyQuiet
  <2> QED
    BY ONLY <1>2, <1>3, <1>5, <1>7, <2>1, <2>3
<1>8. CASE /\ parent' = [parent EXCEPT ![q] = p] /\ Goto(p, "fork_run")
           /\ UNCHANGED <<state, ret, np>>
  <2>1. /\ parent'[q] = p /\ \A r \in Slot \ {q} : parent'[r] = parent[r]
        /\ pc'[p] = "fork_run" /\ \A r \in Slot \ {p} : pc'[r] = pc[r]
    BY <1>2, <1>3, <1>8 DEF Goto
  <2>2. \A r \in Slot \ {p} : Pos(r)' = Pos(r)
    BY <1>8, <2>1, Zenon DEF Pos
  <2>3. Kin'
    <3>1. state'[InitProc] \in Alive /\ parent'[InitProc] = NoProc
      BY <1>2, <1>4, <1>8, <2>1, Zenon DEF Kin, Alive
    <3>2. \A r \in Slot : parent'[r] # r /\ pid'[r] < nextpid'
      <4>1. \A r \in Slot : parent[r] # r /\ pid[r] < nextpid
        BY <1>4 DEF Kin
      <4>2. \A r \in Slot : pid'[r] < nextpid'
        BY <1>1, <4>1, Zenon
      <4> QED
        BY <1>3, <2>1, <4>1, <4>2, Zenon
    <3>3. ASSUME NEW r \in Slot, Pos(r)' = "fork_run"
          PROVE  parent'[np'[r]] = r
      <4>1. CASE r = p
        BY <1>3, <1>8, <2>1, <4>1, Zenon
      <4>2. CASE r # p
        <5>1. Pos(r) = "fork_run" /\ parent[np[r]] = r
          BY <1>4, <2>2, <3>3, <4>2, Zenon DEF Kin
        <5>2. np[r] \in Slot \ {q}
          BY <1>2, <1>3, <4>2, <5>1 DEF TableInv, ProcInv, Forking, ForkLabel
        <5> QED
          BY <1>8, <2>1, <5>1, <5>2, Zenon
      <4> QED
        BY <4>1, <4>2
    <3> QED
      BY <3>1, <3>2, <3>3, Zenon DEF Kin, Alive
  <2>4. ParentAlive' /\ UniquePid'
    BY <1>1, <1>2, <1>3, <1>4, <1>8, <2>1 DEF ParentAlive, UniquePid
  <2>5. SleepQuiet
    BY <1>1, <1>3, <1>8, <2>1, Zenon DEF SleepQuiet, TickPending
  <2> QED
    BY <2>3, <2>4, <2>5, Zenon DEF FamilyRight
<1>9. CASE ForkRun(c, p)
  <2>1. /\ state' = [state EXCEPT ![q] = "RUNNABLE"] /\ np' = [np EXCEPT ![p] = NoProc]
        /\ pc' = [pc EXCEPT ![p] = "sysret"] /\ UNCHANGED <<parent, ret>> /\ pc[p] = "fork_run"
    BY <1>3, <1>9, Zenon DEF ForkRun, Goto, At
  <2>2. /\ state'[q] = "RUNNABLE" /\ \A r \in Slot \ {q} : state'[r] = state[r]
        /\ pc'[p] = "sysret" /\ \A r \in Slot \ {p} : pc'[r] = pc[r] /\ np'[r] = np[r]
    BY ONLY <1>2, <2>1
  <2>3. /\ Pos(p)' = "sysret" /\ \A r \in Slot \ {p} : Pos(r)' = Pos(r)
    BY <2>1, <2>2, Zenon DEF Pos
  <2>4. parent[q] = p
    BY <1>3, <1>4, <2>1, Zenon DEF Kin
  <2>5. Kin'
    <3>1. state'[InitProc] \in Alive /\ parent'[InitProc] = NoProc
      BY <1>2, <1>4, <2>1, <2>2 DEF Kin, Alive
    <3>2. \A r \in Slot : parent'[r] # r /\ pid'[r] < nextpid'
      BY <1>1, <1>4, <2>1, Zenon DEF Kin
    <3>3. ASSUME NEW r \in Slot, Pos(r)' = "fork_run"
          PROVE  parent'[np'[r]] = r
      <4>1. r # p /\ Pos(r) = "fork_run"
        BY <2>3, <3>3
      <4>2. parent[np[r]] = r
        BY ONLY <1>4, <4>1 DEF Kin
      <4> QED
        BY <2>1, <2>2, <4>1, <4>2
    <3> QED
      BY <3>1, <3>2, <3>3, Zenon DEF Kin, Alive
  <2>6. ParentAlive'
    BY ONLY <1>2, <1>3, <1>4, <2>1, <2>2, <2>4, TableInv DEF ParentAlive
  <2>7. UniquePid'
    <3>1. \A r \in Slot : pid'[r] = pid[r] /\ (state'[r] # "UNUSED" => state[r] # "UNUSED")
      BY <1>1, <1>3, <2>2, Zenon
    <3> QED
      BY <1>4, <3>1 DEF UniquePid
  <2>8. SleepQuiet
    BY <1>1, <2>1, <2>2, Zenon DEF SleepQuiet, TickPending
  <2> QED
    BY <2>5, <2>6, <2>7, <2>8 DEF FamilyRight
<1> QED
  <2>1. CASE ForkKalloc(c, p)
    BY <1>3, <1>6, <1>7, <2>1, Zenon DEF ForkKalloc
  <2>2. CASE ForkCopy(c, p)
    BY <1>3, <1>7, <1>8, <2>2, Zenon DEF ForkCopy
  <2> QED
    BY <1>9, <2>1, <2>2

(* What exit does to the state column: p is a zombie, its parent is not      *)
(* asleep in wait any more, nor is init if it inherits a zombie, and nobody  *)
(* else changes but to wake up.                                            *)
LEMMA ExitColumn ==
  ASSUME state \in [Slot -> ProcState], NEW p \in Slot, NEW s, s = ExitState(p)
  PROVE  /\ s[p] = "ZOMBIE"
         /\ \A q \in Slot \ {p} :
              /\ s[q] = state[q] \/ (state[q] = "SLEEPING" /\ s[q] = "RUNNABLE")
              /\ s[q] = "SLEEPING" => chan[q] # parent[p]
              /\ s[q] = "SLEEPING" /\ chan[q] = InitProc =>
                   \A r \in Slot : parent[r] = p => state[r] # "ZOMBIE"
<1> DEFINE woken == wakeup1(state, parent[p])
           full == IF \E q \in Slot : parent[q] = p /\ state[q] = "ZOMBIE"
                   THEN wakeup1(woken, InitProc) ELSE woken
<1>1. s = [full EXCEPT ![p] = "ZOMBIE"]
  BY Zenon DEF ExitState
<1>2. /\ woken \in [Slot -> ProcState]
      /\ \A q \in Slot : /\ woken[q] = state[q] \/ (state[q] = "SLEEPING" /\ woken[q] = "RUNNABLE")
                         /\ woken[q] = "SLEEPING" => chan[q] # parent[p]
  BY DEF wakeup1, ProcState
<1> HIDE DEF woken
<1>3. /\ full \in [Slot -> ProcState]
      /\ \A q \in Slot : /\ full[q] = woken[q] \/ (woken[q] = "SLEEPING" /\ full[q] = "RUNNABLE")
                         /\ full[q] = "SLEEPING" /\ chan[q] = InitProc =>
                              \A r \in Slot : parent[r] = p => state[r] # "ZOMBIE"
  BY <1>2, Zenon DEF wakeup1, ProcState
<1> HIDE DEF full
<1> QED
  BY <1>1, <1>2, <1>3

(* exit gives its children to init and wakes their new parent and its own.  *)
LEMMA ExitTable ==
  ASSUME TableInv, NEW c \in CPU, NEW p \in Slot, exit(c, p)
  PROVE  Kin' /\ FamilyRight' /\ Asleep'
<1>1. /\ proc[c] = p /\ pc[p] = "exit" /\ p # InitProc
      /\ state' = ExitState(p) /\ parent' = Abandon(p)
      /\ ret' = [ret EXCEPT ![p] = "zombie"] /\ pc' = [pc EXCEPT ![p] = "sched"]
      /\ UNCHANGED <<pid, chan, killed, np, due, nextpid, tickslock, intr>>
  BY Zenon DEF exit, At, Goto, cpus
<1>2. /\ state[p] = "RUNNING" /\ pc \in [Slot -> Label] /\ ret \in [Slot -> Resume]
      /\ state \in [Slot -> ProcState] /\ np \in [Slot -> Slot \cup {NoProc}]
      /\ parent \in [Slot -> Slot \cup {NoProc}] /\ InitProc \in Slot /\ NoProc \notin Slot
  BY <1>1, Executing, SlotFacts, Zenon DEF TableInv, ProcInv, TypeOK
<1>3. /\ state'[p] = "ZOMBIE"
      /\ \A q \in Slot \ {p} :
           /\ state'[q] = state[q] \/ (state[q] = "SLEEPING" /\ state'[q] = "RUNNABLE")
           /\ state'[q] = "SLEEPING" => chan[q] # parent[p]
           /\ state'[q] = "SLEEPING" /\ chan[q] = InitProc =>
                \A r \in Slot : parent[r] = p => state[r] # "ZOMBIE"
  <2>1. state' = ExitState(p) /\ state \in [Slot -> ProcState]
    BY <1>1, <1>2
  <2> QED
    BY ONLY <2>1, ExitColumn
<1>4. \A q \in Slot : parent'[q] = IF parent[q] = p THEN InitProc ELSE parent[q]
  BY <1>1, Zenon DEF Abandon
<1>5. /\ pc'[p] = "sched" /\ Pos(p)' = "zombie"
      /\ \A q \in Slot \ {p} : pc'[q] = pc[q] /\ Pos(q)' = Pos(q)
  BY <1>1, <1>2, Zenon DEF Pos
<1>6. /\ state[InitProc] \in Alive /\ parent[InitProc] = NoProc
      /\ \A q \in Slot : /\ parent[q] # q /\ pid[q] < nextpid
                         /\ Pos(q) = "fork_run" => parent[np[q]] = q
  BY Zenon DEF TableInv, Kin, Alive
<1>7. Kin'
  <2>1. state'[InitProc] \in Alive /\ parent'[InitProc] = NoProc
    BY <1>1, <1>2, <1>3, <1>4, <1>6, Zenon DEF Alive
  <2>2. \A q \in Slot : parent'[q] # q /\ pid'[q] < nextpid'
    BY ONLY <1>1, <1>2, <1>4, <1>6
  <2>3. ASSUME NEW q \in Slot, Pos(q)' = "fork_run"
        PROVE  parent'[np'[q]] = q
    <3>1. q # p /\ Pos(q) = "fork_run" /\ parent[np[q]] = q
      BY <1>5, <1>6, <2>3, Zenon
    <3>2. np[q] \in Slot
      BY <1>2, <3>1, Zenon DEF TableInv, ProcInv, Forking, ForkLabel
    <3> QED
      BY <1>1, <1>4, <3>1, <3>2, Zenon
  <2> QED
    BY <2>1, <2>2, <2>3 DEF Kin, Alive
<1>8. ParentAlive'
  <2> SUFFICES ASSUME NEW q \in Slot \ {InitProc}, state'[q] \notin {"UNUSED", "EMBRYO"}
               PROVE  parent'[q] # NoProc /\ state'[parent'[q]] \in Alive
    BY Zenon DEF ParentAlive, Alive
  <2>1. parent[q] # NoProc /\ state[parent[q]] \in Alive
    <3>1. state[q] \notin {"UNUSED", "EMBRYO"}
      BY <1>2, <1>3, Zenon
    <3> QED
      BY <3>1 DEF TableInv, FamilyRight, ParentAlive, Alive
  <2>2. CASE parent[q] = p
    <3>1. parent'[q] = InitProc
      BY ONLY <1>4, <2>2
    <3>2. state'[InitProc] \in Alive
      BY <1>1, <1>2, <1>3, <1>6, Zenon DEF Alive
    <3> QED
      BY <1>2, <3>1, <3>2, Zenon
  <2>3. CASE parent[q] # p
    <3>1. parent'[q] = parent[q] /\ parent[q] \in Slot \ {p}
      BY ONLY <1>2, <1>4, <2>1, <2>3, TableInv
    <3> QED
      BY <1>3, <2>1, <3>1, Zenon DEF Alive
  <2> QED
    BY <2>2, <2>3, Zenon
<1>9. UniquePid'
  <2>1. \A q \in Slot : state'[q] # "UNUSED" => state[q] # "UNUSED"
    BY <1>2, <1>3, Zenon
  <2> QED
    BY <1>1, <2>1 DEF TableInv, FamilyRight, UniquePid
<1>10. Asleep'
  <2> SUFFICES ASSUME NEW s \in Slot
               PROVE  /\ state'[s] = "SLEEPING" /\ chan'[s] = s =>
                           ~killed'[s] /\ \A q \in Slot : parent'[q] = s => state'[q] # "ZOMBIE"
                      /\ pc'[s] = "sleep_enter" => due'[s] > 0
                      /\ state'[s] = "SLEEPING" /\ chan'[s] = TicksChan => due'[s] > 0 \/ TickPending'
    BY Zenon DEF Asleep, TickPending
  <2>1. /\ state[s] = "SLEEPING" /\ chan[s] = s =>
             ~killed[s] /\ \A q \in Slot : parent[q] = s => state[q] # "ZOMBIE"
        /\ pc[s] = "sleep_enter" => due[s] > 0
        /\ state[s] = "SLEEPING" /\ chan[s] = TicksChan => due[s] > 0 \/ TickPending
    BY Zenon DEF TableInv, Asleep, TickPending
  <2>2. state'[s] = "SLEEPING" => s # p /\ state[s] = "SLEEPING"
    BY <1>3
  <2>3. ASSUME state'[s] = "SLEEPING", chan[s] = s, NEW q \in Slot, parent'[q] = s
        PROVE  state'[q] # "ZOMBIE"
    <3>1. q # p
      BY ONLY <1>3, <1>4, <1>6, <2>2, <2>3
    <3>2. CASE parent[q] = p
      BY <1>3, <1>4, <2>2, <2>3, <3>1, <3>2
    <3>3. CASE parent[q] # p
      BY <1>3, <1>4, <2>1, <2>2, <2>3, <3>1, <3>3, Zenon
    <3> QED
      BY <3>2, <3>3
  <2>4. TickPending' <=> TickPending
    BY <1>1, Zenon DEF TickPending
  <2> QED
    BY <1>1, <1>5, <2>1, <2>2, <2>3, <2>4, Zenon
<1> QED
  BY <1>7, <1>8, <1>9, <1>10 DEF FamilyRight

(* wait frees the slot of a zombie child.                                  *)
LEMMA ReapTable ==
  ASSUME TableInv, NEW c \in CPU, NEW p \in Slot, WaitReap(c, p)
  PROVE  Kin' /\ FamilyRight' /\ SleepQuiet
<1>1. PICK q \in Slot :
        /\ parent[q] = p /\ state[q] = "ZOMBIE"
        /\ state' = [state EXCEPT ![q] = "UNUSED"] /\ pid' = [pid EXCEPT ![q] = 0]
        /\ parent' = [parent EXCEPT ![q] = NoProc] /\ killed' = [killed EXCEPT ![q] = FALSE]
        /\ pc' = [pc EXCEPT ![q] = "none", ![p] = "sysret"] /\ ret' = [ret EXCEPT ![q] = "none"]
  BY DEF WaitReap, ZombieChild
<1>2. proc[c] = p /\ pc[p] = "wait_scan" /\ UNCHANGED <<chan, np, due, nextpid, tickslock, intr>>
  BY Zenon DEF WaitReap, At, cpus
<1>3. /\ state[p] = "RUNNING" /\ pc \in [Slot -> Label] /\ ret \in [Slot -> Resume]
      /\ state \in [Slot -> ProcState] /\ np \in [Slot -> Slot \cup {NoProc}]
      /\ pid \in [Slot -> Nat] /\ nextpid \in Nat /\ killed \in [Slot -> BOOLEAN]
      /\ parent \in [Slot -> Slot \cup {NoProc}] /\ InitProc \in Slot /\ NoProc \notin Slot
  BY <1>2, Executing, SlotFacts, Zenon DEF TableInv, ProcInv, TypeOK
<1>4. /\ state'[q] = "UNUSED" /\ pid'[q] = 0 /\ parent'[q] = NoProc /\ pc'[q] = "none"
      /\ q # p /\ pc'[p] = "sysret"
      /\ \A r \in Slot \ {q} : /\ state'[r] = state[r] /\ pid'[r] = pid[r] /\ parent'[r] = parent[r]
                              /\ killed'[r] = killed[r] /\ ret'[r] = ret[r]
      /\ \A r \in Slot \ {p, q} : pc'[r] = pc[r]
  BY <1>1, <1>3, Zenon
<1>5. /\ Pos(p)' = "sysret" /\ Pos(q)' = "none" /\ \A r \in Slot \ {p, q} : Pos(r)' = Pos(r)
  BY <1>4, Zenon DEF Pos
<1>6. Kin /\ ParentAlive /\ UniquePid
  BY DEF TableInv, FamilyRight
<1>7. Kin'
  <2>1. state'[InitProc] \in Alive /\ parent'[InitProc] = NoProc
    BY <1>1, <1>3, <1>4, <1>6, Zenon DEF Kin, Alive
  <2>2. ASSUME NEW r \in Slot
        PROVE  parent'[r] # r /\ pid'[r] < nextpid'
    <3>1. /\ parent[r] # r /\ pid[r] < nextpid /\ nextpid' = nextpid
          /\ pid[r] \in Nat /\ nextpid \in Nat
      BY <1>2, <1>3, <1>6 DEF Kin
    <3>2. CASE r = q
      <4>1. parent'[r] = NoProc /\ pid'[r] = 0 /\ NoProc # r
        BY <1>3, <1>4, <3>2, Zenon
      <4>2. 0 < nextpid
        BY <3>1
      <4>3. parent'[r] # r
        BY <4>1, Zenon
      <4>4. pid'[r] < nextpid'
        BY <3>1, <4>1, <4>2
      <4> QED
        BY ONLY <4>3, <4>4
    <3>3. CASE r # q
      BY <1>4, <3>1, <3>3, Zenon
    <3> QED
      BY <3>2, <3>3, Zenon
  <2>3. ASSUME NEW r \in Slot, Pos(r)' = "fork_run"
        PROVE  parent'[np'[r]] = r
    <3>1. Pos(r) = "fork_run" /\ parent[np[r]] = r
      BY ONLY <1>5, <1>6, <2>3 DEF Kin
    <3>2. np[r] \in Slot \ {q}
      BY ONLY <1>1, <1>3, <3>1, TableInv, WaitReap(c, p) DEF TableInv, ProcInv, Forking,
         ForkLabel
    <3> QED
      BY <1>2, <1>4, <3>1, <3>2, Zenon
  <2> QED
    BY <2>1, <2>2, <2>3, Zenon DEF Kin, Alive
<1>8. ParentAlive'
  BY ONLY <1>1, <1>3, <1>4, <1>6, TableInv DEF ParentAlive
<1>9. UniquePid'
  BY ONLY <1>4, <1>6 DEF UniquePid
<1>10. SleepQuiet
  BY <1>2, <1>4 DEF SleepQuiet, TickPending
<1> QED
  BY <1>7, <1>8, <1>9, <1>10, Zenon DEF FamilyRight

(* The clock: a tick counts down under tickslock, which no process that is   *)
(* about to sleep can hold, and the wakeup that follows reaches all sleepers. *)
LEMMA TickTable ==
  ASSUME TableInv, NEW c \in CPU, Tick(c) \/ TickWakeup(c)
  PROVE  FamilyQuiet /\ Asleep'
<1>1. UNCHANGED <<pid, parent, chan, killed, pc, ret, np, nextpid>>
  BY DEF Tick, TickWakeup, table, thread
<1>2. /\ state \in [Slot -> ProcState] /\ intr \in [CPU -> {"none", "tick", "wakeup", "tail"}]
      /\ NoProc \notin Slot
  BY SlotFacts, Zenon DEF TableInv, ProcInv, TypeOK
<1>3. \A p \in Slot :
        \/ state'[p] = state[p]
        \/ state[p] = "SLEEPING" /\ state'[p] = "RUNNABLE"
  BY <1>2, Zenon DEF Tick, TickWakeup, table, wakeup1
<1>4. FamilyQuiet
  BY <1>1, <1>3, Zenon DEF FamilyQuiet, Pos, Alive
<1>5. ASSUME NEW p \in Slot, pc[p] = "sleep_enter"
      PROVE  due'[p] = due[p]
  <2>1. PICK d \in CPU : proc[d] = p
    BY <1>5 DEF TableInv, ProcInv, Stopped, OnCpu
  <2>2. tickslock = d
    BY <1>2, <1>5, <2>1, Zenon DEF TableInv, ProcInv, LockOwner, TicksLocked
  <2>3. ~Tick(c)
    BY <2>2, ProcAssumption DEF Tick, acquire
  <2> QED
    BY <2>3, Zenon DEF TickWakeup, thread
<1>6. ASSUME NEW p \in Slot, state'[p] = "SLEEPING", chan'[p] = TicksChan
      PROVE  \E d \in CPU : tickslock' = d /\ intr'[d] = "wakeup"
  <2>1. CASE Tick(c)
    BY <1>2, <2>1, Zenon DEF Tick, acquire
  <2>2. CASE TickWakeup(c)
    BY <1>1, <1>2, <1>6, <2>2 DEF TickWakeup, wakeup1
  <2> QED
    BY <2>1, <2>2
<1>7. ASSUME NEW p \in Slot, state'[p] = "SLEEPING", chan'[p] = p
      PROVE  ~killed'[p] /\ \A q \in Slot : parent'[q] = p => state'[q] # "ZOMBIE"
  BY <1>1, <1>3, <1>7, Zenon DEF TableInv, Asleep
<1>8. \A p \in Slot : pc'[p] = "sleep_enter" => due'[p] > 0
  BY <1>1, <1>5 DEF TableInv, Asleep
<1> QED
  BY <1>4, <1>6, <1>7, <1>8, Zenon DEF Asleep

(* A process that goes to sleep, on itself in wait or on &ticks in sleep,    *)
(* and the test of sys_sleep before it.                                    *)
LEMMA SleepTable ==
  ASSUME TableInv, NEW c \in CPU, NEW p \in Slot,
         WaitSleep(c, p) \/ sleep(c, p) \/ (SleepLoop(c, p) /\ Goto(p, "sleep_enter"))
  PROVE  FamilyQuiet /\ Asleep'
<1>1. /\ proc[c] = p /\ intr[c] = "none" /\ pc[p] \in {"wait_scan", "sleep_enter", "sleep_loop"}
      /\ UNCHANGED <<pid, parent, killed, np, nextpid, intr>>
  BY Zenon DEF WaitSleep, sleep, SleepLoop, At, table, cpus
<1>2. /\ state[p] = "RUNNING" /\ pc \in [Slot -> Label] /\ ret \in [Slot -> Resume]
      /\ state \in [Slot -> ProcState] /\ chan \in [Slot -> Slot \cup {NoProc, TicksChan}]
      /\ TicksChan \notin Slot /\ due \in [Slot -> 0..MaxSleep]
  <2>1. TicksChan \notin Slot
    BY ProcAssumption DEF TicksChan, Slot
  <2>2. state[p] = "RUNNING"
    BY <1>1, Executing, Zenon
  <2> QED
    BY <2>1, <2>2, Zenon DEF TableInv, ProcInv, TypeOK
<1>3. \A q \in Slot :
        /\ state[q] = "SLEEPING" /\ chan[q] = q =>
             ~killed[q] /\ \A r \in Slot : parent[r] = q => state[r] # "ZOMBIE"
        /\ pc[q] = "sleep_enter" => due[q] > 0
        /\ state[q] = "SLEEPING" /\ chan[q] = TicksChan => due[q] > 0 \/ TickPending
  BY Zenon DEF TableInv, Asleep, TickPending
<1>4. CASE SleepLoop(c, p) /\ Goto(p, "sleep_enter")
  <2>1. /\ pc' = [pc EXCEPT ![p] = "sleep_enter"] /\ due[p] > 0
        /\ UNCHANGED <<state, chan, ret, due, tickslock>>
    BY <1>2, <1>4, Zenon DEF SleepLoop, Goto, table
  <2>2. \A q \in Slot : Pos(q)' = Pos(q) \/ Pos(q)' = "sleep_enter"
    BY ONLY <1>2, <2>1 DEF Pos
  <2>3. FamilyQuiet
    BY ONLY <1>1, <2>1, <2>2 DEF FamilyQuiet
  <2>4. Asleep'
    BY <1>1, <1>2, <1>3, <2>1, Zenon DEF Asleep, TickPending
  <2> QED
    BY <2>3, <2>4
<1>5. ASSUME NEW ch, NEW l \in {"in_wait", "in_sleep"}, GoToSleep(p, ch, l), UNCHANGED due,
             \/ ch = p /\ ~killed[p] /\ tickslock' = tickslock
                /\ \A r \in Slot : parent[r] = p => state[r] # "ZOMBIE"
             \/ ch = TicksChan /\ due[p] > 0 /\ ~TickPending
      PROVE  FamilyQuiet /\ Asleep'
  <2>1. /\ state'[p] = "SLEEPING" /\ chan'[p] = ch /\ ret'[p] = l /\ pc'[p] = "sched"
        /\ \A q \in Slot \ {p} :
             /\ state'[q] = state[q] /\ chan'[q] = chan[q]
             /\ ret'[q] = ret[q] /\ pc'[q] = pc[q]
    BY <1>2, <1>5, Zenon DEF GoToSleep, Goto
  <2>2. Pos(p)' = l /\ \A q \in Slot \ {p} : Pos(q)' = Pos(q)
    BY ONLY <2>1 DEF Pos
  <2>3. FamilyQuiet
    BY <1>1, <1>2, <2>1, <2>2, Zenon DEF FamilyQuiet, Alive
  <2>4. TickPending => TickPending'
    BY <1>1, <1>5, Zenon DEF TickPending
  <2>5. ASSUME NEW q \in Slot
        PROVE  /\ state'[q] = "SLEEPING" /\ chan'[q] = q =>
                    ~killed'[q] /\ \A r \in Slot : parent'[r] = q => state'[r] # "ZOMBIE"
               /\ pc'[q] = "sleep_enter" => due'[q] > 0
               /\ state'[q] = "SLEEPING" /\ chan'[q] = TicksChan => due'[q] > 0 \/ TickPending'
    <3>1. CASE q = p
      <4>1. /\ pc'[q] = "sched" /\ chan'[q] = ch /\ due'[q] = due[q]
            /\ \A r \in Slot : state'[r] = "ZOMBIE" => state[r] = "ZOMBIE"
        BY <1>5, <2>1, <3>1, Zenon
      <4> QED
        BY ONLY <1>1, <1>2, <1>5, <3>1, <4>1
    <3>2. CASE q # p
      BY ONLY <1>1, <1>3, <1>5, <2>1, <2>4, <3>2, TableInv
    <3> QED
      BY <3>1, <3>2, Zenon
  <2> QED
    BY <2>3, <2>5, Zenon DEF Asleep, TickPending
<1>6. CASE WaitSleep(c, p)
  BY <1>5, <1>6, Zenon DEF WaitSleep, ZombieChild
<1>7. CASE sleep(c, p)
  <2>1. ~TickPending /\ due[p] > 0
    BY <1>1, <1>3, <1>7, ProcAssumption, Zenon DEF TickPending, sleep, At, release
  <2> QED
    BY <1>5, <1>7, <2>1, Zenon DEF sleep
<1> QED
  BY <1>4, <1>6, <1>7

(* After userinit the table holds init alone.                               *)
LEMMA TableInit == Init => TableInv
<1> SUFFICES ASSUME Init PROVE TableInv
  OBVIOUS
<1>1. Kin
  BY SlotFacts DEF Init, Kin, Pos, InitPid, NoProc, InitProc
<1>2. FamilyRight
  BY Zenon DEF Init, FamilyRight, ParentAlive, UniquePid
<1>3. Asleep
  BY DEF Init, Asleep
<1> QED
  BY <1>1, <1>2, <1>3, ProcInit DEF TableInv

(* Every step keeps TableInv: one case for each action of Next.             *)
LEMMA TableNext == TableInv /\ [Next]_vars => TableInv'
<1> SUFFICES ASSUME TableInv, [Next]_vars PROVE TableInv'
  OBVIOUS
<1>1. ProcInv'
  BY ProcNext DEF TableInv
<1>2. ASSUME FamilyQuiet PROVE Kin' /\ FamilyRight'
  BY <1>2, FamilyKept
<1>3. ASSUME SleepQuiet PROVE Asleep'
  BY <1>3, SleepKept
<1>4. CASE UNCHANGED vars
  <2>1. FamilyQuiet /\ SleepQuiet
    BY <1>4, Zenon DEF vars, FamilyQuiet, SleepQuiet, TickPending, Pos
  <2> QED
    BY <1>1, <1>2, <1>3, <2>1 DEF TableInv
<1>5. ASSUME NEW c \in CPU, CpuStep(c) \/ Timer(c) \/ TrapStep(c)
      PROVE  Kin' /\ FamilyRight' /\ Asleep'
  <2>1. CASE SchedAcquire(c) \/ SchedRelease(c) \/ Timer(c)
    BY <1>2, <1>3, <2>1, SchedulerQuiet, Zenon
  <2>2. CASE Tick(c) \/ TickWakeup(c)
    BY <1>2, <2>2, TickTable
  <2>3. CASE TrapTail(c) \/ \E p \in Slot : yield(c, p)
    BY <1>2, <1>3, <2>3, YieldQuiet
  <2>4. ASSUME NEW p \in Slot, SchedSwitch(c, p) \/ sched(c, p)
        PROVE  Kin' /\ FamilyRight' /\ Asleep'
    BY <1>2, <1>3, <2>4, SchedulerQuiet
  <2>5. ASSUME NEW p \in Slot, ProcStep(c, p), ~sched(c, p)
        PROVE  Kin' /\ FamilyRight' /\ Asleep'
    <3>1. CASE Syscall(c, p) \/ Sysret(c, p) \/ Fault(c, p) \/ Resumed(c, p)
      BY <1>2, <1>3, <3>1, TrapQuiet, Zenon
    <3>2. CASE \/ WaitAcquire(c, p) \/ WaitNone(c, p) \/ kill(c, p)
               \/ sys_sleep(c, p) \/ SleepAgain(c, p)
               \/ (SleepLoop(c, p) /\ ~Goto(p, "sleep_enter"))
      BY <1>2, <1>3, <3>2, CallQuiet
    <3>3. CASE allocproc(c, p)
      BY <1>3, <3>3, AllocTable, Zenon
    <3>4. CASE ForkKalloc(c, p) \/ ForkCopy(c, p) \/ ForkRun(c, p)
      BY <1>3, <3>4, ForkTable
    <3>5. CASE exit(c, p)
      BY <3>5, ExitTable, Zenon
    <3>6. CASE WaitReap(c, p)
      BY <1>3, <3>6, ReapTable
    <3>7. CASE WaitSleep(c, p) \/ sleep(c, p) \/ (SleepLoop(c, p) /\ Goto(p, "sleep_enter"))
      BY <1>2, <3>7, SleepTable
    <3> QED
      BY <2>5, <3>1, <3>2, <3>3, <3>4, <3>5, <3>6, <3>7, Zenon DEF ProcStep
  <2> QED
    BY <1>5, <2>1, <2>2, <2>3, <2>4, <2>5, Zenon DEF CpuStep, TrapStep
<1> QED
  BY <1>1, <1>4, <1>5 DEF Next, TableInv

(* For any number of slots and CPUs: init lives, every other process has a   *)
(* live parent, pids are unique, and no process sleeps through the exit of a *)
(* child, a kill in wait, or the tick it waits for.                         *)
THEOREM TableInvariance == Spec => []TableInv
BY TableInit, TableNext, PTL DEF Spec

(* exit, which gives all children to init, leaves every process that was     *)
(* ever runnable a live parent to reap it, and allocproc a pid of its own.  *)
THEOREM TableFamily == Spec => []FamilyRight
<1>1. TableInv => FamilyRight
  BY Zenon DEF TableInv
<1> QED
  BY <1>1, TableInvariance, PTL

(* The wakeups of exit and kill are not lost to a process that goes to sleep *)
(* in wait meanwhile.                                                      *)
THEOREM TableWaiter == Spec => []WaiterWoken
<1>1. TableInv => WaiterWoken
  BY Zenon DEF TableInv, Asleep, WaiterWoken, NoZombieMissed, KilledNotInWait
<1> QED
  BY <1>1, TableInvariance, PTL

(* sys_sleep does not miss the tick that ends it.                          *)
THEOREM TableTick == Spec => []NoTickMissed
<1>1. TableInv => NoTickMissed
  BY ProcAssumption DEF TableInv, Asleep, NoTickMissed
<1> QED
  BY <1>1, TableInvariance, PTL
=============================================================================
