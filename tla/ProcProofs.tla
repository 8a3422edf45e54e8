----------------------------- MODULE ProcProofs -----------------------------
(***************************************************************************)
(* ProcInv is an inductive invariant of Proc: for any number of slots and   *)
(* CPUs a process runs on at most one CPU, no CPU runs on a freed kernel    *)
(* stack, and the panics of sched are unreachable.                         *)
(***************************************************************************)
EXTENDS Proc, TLAPS

-----------------------------------------------------------------------------
(* The scheduler, the timer interrupt and the trap paths, with the lemmas   *)
(* on which the proofs for the other steps rest.                           *)

(* The null pointer is not a slot, and init has one.                       *)
LEMMA SlotFacts == NoProc \notin Slot /\ InitProc \in Slot
BY ProcAssumption DEF NoProc, InitProc, Slot

(* What the invariant says of a process that is on a CPU and not about to  *)
(* call sched: it is on no other CPU, RUNNING, and nobody's np.             *)
LEMMA OnThisCpu ==
  ASSUME ProcInv, NEW c \in CPU, NEW p \in Slot, proc[c] = p, pc[p] # "sched"
  PROVE  /\ state[p] = "RUNNING"
         /\ \A d \in CPU : proc[d] = p => d = c
         /\ \A q \in Slot : np[q] # p
<1>1. p # NoProc
  BY SlotFacts
<1>2. state[p] = "RUNNING" /\ \A d \in CPU : proc[d] = p => d = c
  BY <1>1 DEF ProcInv, Running
<1> QED
  BY <1>1, <1>2 DEF ProcInv, Forking

(* The state column after a step that may wake sleepers.                   *)
Woken(q) == state'[q] = state[q] \/ (state[q] = "SLEEPING" /\ state'[q] = "RUNNABLE")

(* A step of the process p on the CPU c that moves it to l, in the same     *)
(* stage of fork if it is in one.  Others may be woken.                    *)
LEMMA ThreadStep ==
  ASSUME ProcInv, NEW c \in CPU, NEW p \in Slot, proc[c] = p, pc[p] # "sched",
         NEW l \in Label \ {"none", "resume"},
         pc' = [pc EXCEPT ![p] = l],
         \A q \in Slot \ {p} : Woken(q) /\ ret'[q] = ret[q],
         IF l = "sched"
         THEN \/ state'[p] = "RUNNABLE" /\ ret'[p] \notin {"none", "zombie"}
              \/ state'[p] = "SLEEPING" /\ ret'[p] \in {"in_wait", "in_sleep"}
              \/ state'[p] = "ZOMBIE" /\ ret'[p] = "zombie"
         ELSE state'[p] = "RUNNING",
         Pos(p) \in ForkLabel <=> Pos(p)' \in ForkLabel,
         Pos(p) = "fork_kalloc" <=> Pos(p)' = "fork_kalloc",
         UNCHANGED <<kstack, np, proc>>
  PROVE  Running' /\ Stopped' /\ Forking'
<1> USE DEF ProcInv
<1>1. /\ state[p] = "RUNNING" /\ p # NoProc
      /\ \A d \in CPU : proc[d] = p => d = c
      /\ \A q \in Slot : np[q] # p
  BY OnThisCpu, SlotFacts
<1>2. pc'[p] = l /\ \A q \in Slot : q # p => pc'[q] = pc[q]
  BY DEF TypeOK
<1>3. \A q \in Slot : OnCpu(q)' <=> OnCpu(q)
  BY Zenon DEF OnCpu
<1>4. Running'
  <2>1. \A d \in CPU : proc[d] # NoProc => proc[d] \in Slot
    BY DEF TypeOK
  <2>2. \A d \in CPU : proc'[d] # NoProc =>
          IF pc'[proc'[d]] = "sched"
          THEN state'[proc'[d]] \in {"RUNNABLE", "SLEEPING", "ZOMBIE"}
          ELSE state'[proc'[d]] = "RUNNING"
    <3> SUFFICES ASSUME NEW d \in CPU, proc[d] # NoProc
                 PROVE  IF pc'[proc[d]] = "sched"
                        THEN state'[proc[d]] \in {"RUNNABLE", "SLEEPING", "ZOMBIE"}
                        ELSE state'[proc[d]] = "RUNNING"
      OBVIOUS
    <3>1. CASE d = c
      BY <1>2, <3>1
    <3>2. CASE d # c
      BY <1>1, <1>2, <2>1, <3>2 DEF Running, Woken
    <3> QED
      BY <3>1, <3>2
  <2>3. \A q \in Slot : state'[q] = "RUNNING" => OnCpu(q)'
    BY <1>1, <1>3 DEF Running, Woken, OnCpu
  <2> QED
    BY <2>2, <2>3 DEF Running
<1>5. Stopped'
  <2> SUFFICES ASSUME NEW q \in Slot
               PROVE  /\ ~OnCpu(q)' => pc'[q] \in {"none", "resume"}
                      /\ state'[q] \notin {"UNUSED", "EMBRYO"} => kstack'[q] /\ pc'[q] # "none"
                      /\ state'[q] = "UNUSED" => pc'[q] = "none"
                      /\ state'[q] = "RUNNABLE" => ret'[q] \notin {"none", "zombie"}
                      /\ state'[q] = "SLEEPING" => ret'[q] \in {"in_wait", "in_sleep"}
                      /\ state'[q] = "ZOMBIE" => ret'[q] = "zombie"
    BY DEF Stopped
  <2>1. CASE q = p
    <3>1. OnCpu(p)' /\ kstack[p]
      BY <1>1, Zenon DEF OnCpu, Stopped
    <3> QED
      BY <1>2, <2>1, <3>1
  <2>2. CASE q # p
    BY <1>2, <1>3, <2>2 DEF Stopped, Woken
  <2> QED
    BY <2>1, <2>2
<1>6. Forking'
  <2>1. \A q \in Slot : np[q] # NoProc /\ state[np[q]] = "EMBRYO" =>
          /\ np[q] \in Slot /\ state'[np[q]] = "EMBRYO"
          /\ pc'[np[q]] = pc[np[q]] /\ ret'[np[q]] = ret[np[q]]
    BY <1>1, <1>2 DEF TypeOK, Woken
  <2>2. \A q \in Slot : q # p => Pos(q)' = Pos(q)
    BY <1>2 DEF Pos
  <2>3. ASSUME NEW q \in Slot
        PROVE  IF Pos(q)' \in ForkLabel
               THEN /\ np[q] # NoProc /\ state'[np[q]] = "EMBRYO"
                    /\ IF Pos(q)' = "fork_kalloc" THEN pc'[np[q]] = "none"
                       ELSE pc'[np[q]] = "resume" /\ ret'[np[q]] = "forkret" /\ kstack[np[q]]
               ELSE np[q] = NoProc
    <3>1. (Pos(q) \in ForkLabel <=> Pos(q)' \in ForkLabel)
          /\ (Pos(q) = "fork_kalloc" <=> Pos(q)' = "fork_kalloc")
      BY <2>2, Zenon
    <3> QED
      BY <2>1, <3>1 DEF Forking
  <2> QED
    BY <2>3 DEF Forking
<1> QED
  BY <1>4, <1>5, <1>6

(* The locks, when the process p on the CPU c moves to l and the CPU takes *)
(* or leaves them accordingly.                                             *)
LEMMA LockThread ==
  ASSUME ProcInv, NEW c \in CPU, NEW p \in Slot, proc[c] = p, pc[p] # "sched",
         NEW l, pc'[p] = l,
         \A q \in Slot \ {p} : OnCpu(q) => pc'[q] = pc[q],
         ptlock' = c <=> l \in Locked,
         \A d \in CPU \ {c} : ptlock' = d <=> ptlock = d,
         tickslock' = c <=> l \in TicksLocked,
         \A d \in CPU \ {c} : tickslock' = d <=> tickslock = d,
         intr'[c] = "none",
         \A d \in CPU \ {c} : intr'[d] = intr[d],
         UNCHANGED <<proc, scan>>
  PROVE  LockOwner'
<1> USE DEF ProcInv
<1>1. p # NoProc /\ \A d \in CPU : proc[d] = p => d = c
  BY OnThisCpu, SlotFacts
<1>2. \A d \in CPU \ {c} : proc[d] # NoProc =>
        proc[d] \in Slot \ {p} /\ pc'[proc[d]] = pc[proc[d]]
  BY <1>1 DEF TypeOK, OnCpu
<1> SUFFICES ASSUME NEW d \in CPU
             PROVE  /\ ptlock' = d <=> IF proc[d] = NoProc THEN scan[d] > 0
                                       ELSE pc'[proc[d]] \in Locked
                    /\ proc[d] # NoProc => scan[d] > 0
                    /\ tickslock' = d <=>
                         intr'[d] = "wakeup" \/ (proc[d] # NoProc /\ pc'[proc[d]] \in TicksLocked)
                    /\ intr'[d] # "none" => IF proc[d] = NoProc THEN scan[d] = 0
                                            ELSE pc'[proc[d]] \in Preemptible
  BY Zenon DEF LockOwner
<1>3. CASE d = c
  BY <1>1, <1>3 DEF LockOwner
<1>4. CASE d # c
  BY <1>2, <1>4 DEF LockOwner
<1> QED
  BY <1>3, <1>4

(* Steps that leave every process where it is, waking sleepers at most.    *)
LEMMA IdleStep ==
  ASSUME ProcInv, \A q \in Slot : Woken(q), UNCHANGED <<pc, ret, np, kstack, proc>>
  PROVE  Running' /\ Stopped' /\ Forking'
<1> USE DEF ProcInv
<1>1. \A q \in Slot : (OnCpu(q)' <=> OnCpu(q)) /\ Pos(q)' = Pos(q)
  BY DEF OnCpu, Pos
<1>2. Running'
  <2>1. \A d \in CPU : proc[d] # NoProc => proc[d] \in Slot
    BY DEF TypeOK
  <2> QED
    BY <1>1, <2>1 DEF Running, Woken
<1>3. Stopped'
  BY <1>1 DEF Stopped, Woken
<1>4. Forking'
  <2>1. \A q \in Slot : np[q] # NoProc /\ state[np[q]] = "EMBRYO" => state'[np[q]] = "EMBRYO"
    BY DEF TypeOK, Woken
  <2> QED
    BY <1>1, <2>1 DEF Forking
<1> QED
  BY <1>2, <1>3, <1>4

(* scheduler takes ptable.lock, and releases it at the end of the table.   *)
LEMMA SchedLockStep ==
  ASSUME ProcInv, NEW c \in CPU, SchedAcquire(c) \/ SchedRelease(c)
  PROVE  ProcInv'
<1> USE DEF ProcInv
<1>1. UNCHANGED <<table, thread, nextpid, tickslock, proc, intr>>
  BY Zenon DEF SchedAcquire, SchedRelease
<1>2. /\ proc[c] = NoProc /\ intr[c] = "none"
      /\ \/ ptlock = NoCpu /\ ptlock' = c /\ scan' = [scan EXCEPT ![c] = 1]
         \/ ptlock = c /\ ptlock' = NoCpu /\ scan' = [scan EXCEPT ![c] = 0]
  BY Zenon DEF SchedAcquire, SchedRelease, acquire, release
<1>3. TypeOK'
  BY <1>1, <1>2, ProcAssumption DEF TypeOK, table, thread
<1>4. LockOwner'
  <2>1. scan'[c] > 0 <=> ptlock' = c
    BY <1>2, ProcAssumption DEF TypeOK
  <2>2. \A d \in CPU : d # c => scan'[d] = scan[d] /\ (ptlock' = d <=> ptlock = d)
    BY <1>2, ProcAssumption DEF TypeOK
  <2> QED
    BY <1>1, <1>2, <2>1, <2>2, Zenon DEF LockOwner, thread
<1>5. Running' /\ Stopped' /\ Forking'
  BY <1>1, IdleStep DEF table, thread, Woken
<1> QED
  BY ONLY <1>3, <1>4, <1>5

(* scheduler switches to a RUNNABLE process: it is on no CPU, since one     *)
(* about to call sched would have its own CPU hold ptable.lock.            *)
LEMMA SchedSwitchStep ==
  ASSUME ProcInv, NEW c \in CPU, NEW p \in Slot, SchedSwitch(c, p)
  PROVE  ProcInv'
<1> USE DEF ProcInv
<1>1. /\ proc[c] = NoProc /\ intr[c] = "none" /\ scan[c] > 0 /\ state[p] = "RUNNABLE"
      /\ proc' = [proc EXCEPT ![c] = p]
      /\ state' = [state EXCEPT ![p] = "RUNNING"]
      /\ scan' = [scan EXCEPT ![c] = p + 1]
      /\ UNCHANGED <<pid, parent, chan, killed, kstack, thread, nextpid, ptlock,
                     tickslock, intr>>
  BY DEF SchedSwitch, NextIndex
<1>2. ptlock = c /\ p # NoProc
  BY <1>1, SlotFacts DEF LockOwner
<1>3. ~OnCpu(p)
  <2> SUFFICES ASSUME NEW d \in CPU, proc[d] = p PROVE FALSE
    BY DEF OnCpu
  <2>1. d # c /\ pc[p] = "sched"
    BY <1>1, <1>2 DEF Running
  <2> QED
    BY <1>2, <2>1 DEF LockOwner, Locked
<1>4. pc[p] = "resume"
  BY <1>1, <1>3, Zenon DEF Stopped
<1>5. TypeOK'
  <2>1. p + 1 \in 0..NPROC + 1
    BY ONLY ProcAssumption DEF Slot
  <2> QED
    BY <1>1, <2>1 DEF TypeOK, thread, ProcState
<1>6. /\ proc'[c] = p /\ \A d \in CPU : d # c => proc'[d] = proc[d] /\ proc'[d] # p
      /\ state'[p] = "RUNNING" /\ \A q \in Slot : q # p => state'[q] = state[q]
      /\ \A d \in CPU : proc[d] # NoProc => proc[d] \in Slot
      /\ pc' = pc /\ ret' = ret /\ np' = np /\ kstack' = kstack
  <2>1. proc'[c] = p /\ \A d \in CPU : d # c => proc'[d] = proc[d] /\ proc'[d] # p
    BY <1>1, <1>3 DEF TypeOK, OnCpu
  <2>2. state'[p] = "RUNNING" /\ \A q \in Slot : q # p => state'[q] = state[q]
    BY <1>1 DEF TypeOK
  <2>3. \A d \in CPU : proc[d] # NoProc => proc[d] \in Slot
    BY DEF TypeOK
  <2>4. pc' = pc /\ ret' = ret /\ np' = np /\ kstack' = kstack
    BY <1>1, Zenon DEF thread
  <2> QED
    BY ONLY <2>1, <2>2, <2>3, <2>4
<1>7. LockOwner'
  <2>1. scan'[c] > 0 /\ \A d \in CPU : d # c => scan'[d] = scan[d]
    BY <1>1, ProcAssumption DEF TypeOK, Slot
  <2> QED
    BY <1>1, <1>2, <1>4, <1>6, <2>1 DEF LockOwner, Locked, TicksLocked, Preemptible
<1>8. \A q \in Slot : OnCpu(q)' <=> q = p \/ OnCpu(q)
  BY ONLY <1>1, <1>2, <1>6, SlotFacts, ProcInv DEF OnCpu
<1>9. Running'
  BY <1>1, <1>2, <1>4, <1>6, <1>8 DEF Running
<1>10. Stopped'
  BY ONLY <1>1, <1>4, <1>6, <1>8, ProcInv DEF Stopped
<1>11. Forking'
  <2>1. \A q \in Slot : np[q] # NoProc /\ state[np[q]] = "EMBRYO" => state'[np[q]] = "EMBRYO"
    BY <1>1, <1>6 DEF TypeOK
  <2>2. \A q \in Slot : Pos(q)' = Pos(q)
    BY ONLY <1>6 DEF Pos
  <2> QED
    BY <1>6, <2>1, <2>2 DEF Forking
<1> QED
  BY <1>5, <1>7, <1>9, <1>10, <1>11

(* sched leaves the process in swtch; the CPU keeps ptable.lock.           *)
LEMMA SchedStep ==
  ASSUME ProcInv, NEW c \in CPU, NEW p \in Slot, sched(c, p)
  PROVE  ProcInv'
<1> USE DEF ProcInv
<1>1. /\ proc[c] = p /\ intr[c] = "none" /\ pc[p] = "sched" /\ p # NoProc
      /\ pc' = [pc EXCEPT ![p] = "resume"]
      /\ proc' = [proc EXCEPT ![c] = NoProc]
      /\ UNCHANGED <<table, ret, np, due, nextpid, ptlock, tickslock, scan, intr>>
  BY SlotFacts, Zenon DEF sched, At, Goto
<1>2. TypeOK'
  BY <1>1, Zenon DEF TypeOK, table, Label, Locked
<1>3. /\ pc'[p] = "resume" /\ \A q \in Slot : q # p => pc'[q] = pc[q]
      /\ proc'[c] = NoProc /\ \A d \in CPU : d # c => proc'[d] = proc[d] /\ proc[d] # p
      /\ \A d \in CPU : proc[d] # NoProc => proc[d] \in Slot
      /\ state' = state /\ kstack' = kstack
  BY <1>1 DEF TypeOK, Running, table
<1>4. ptlock = c /\ scan[c] > 0 /\ tickslock # c /\ state[p] # "RUNNING"
      /\ state[p] \notin {"UNUSED", "EMBRYO"}
  BY <1>1, Zenon DEF LockOwner, Locked, TicksLocked, Running
<1>5. LockOwner'
  BY <1>1, <1>3, <1>4 DEF LockOwner
<1>6. \A q \in Slot : q # p => (OnCpu(q)' <=> OnCpu(q))
  BY <1>1, <1>3, SlotFacts DEF OnCpu
<1>7. Running'
  <2>1. \A q \in Slot : state'[q] = "RUNNING" => OnCpu(q)'
    BY <1>3, <1>4, <1>6, Zenon DEF Running
  <2> QED
    BY <1>3, <2>1 DEF Running
<1>8. Stopped'
  BY ONLY <1>1, <1>3, <1>4, <1>6, ProcInv DEF Stopped
<1>9. Forking'
  <2>1. \A q \in Slot : Pos(q)' = Pos(q)
    BY <1>1, <1>3, Zenon DEF Pos
  <2>2. \A q \in Slot : np[q] # NoProc /\ state[np[q]] = "EMBRYO" => pc'[np[q]] = pc[np[q]]
    BY ONLY <1>3, <1>4, ProcInv DEF TypeOK
  <2> QED
    BY <1>1, <1>3, <2>1, <2>2 DEF Forking
<1> QED
  BY <1>2, <1>5, <1>7, <1>8, <1>9

(* The timer interrupt up to the wakeup of the sleepers on &ticks.         *)
LEMMA TimerStep ==
  ASSUME ProcInv, NEW c \in CPU, Timer(c) \/ Tick(c) \/ TickWakeup(c)
  PROVE  ProcInv'
<1> USE DEF ProcInv
<1>1. /\ UNCHANGED <<pid, parent, chan, killed, kstack, pc, ret, np, nextpid, ptlock, proc, scan>>
      /\ due' = due \/ due' = [p \in Slot |-> IF due[p] > 0 THEN due[p] - 1 ELSE 0]
      /\ state' = state \/ state' = wakeup1(state, TicksChan)
  BY Zenon DEF Timer, Tick, TickWakeup, table, thread
<1>2. \/ /\ Interruptible(c) /\ tickslock' = tickslock
         /\ intr' = [intr EXCEPT ![c] = IF c = BootCpu THEN "tick" ELSE "tail"]
      \/ /\ intr[c] = "tick" /\ intr' = [intr EXCEPT ![c] = "wakeup"]
         /\ tickslock = NoCpu /\ tickslock' = c
      \/ /\ intr[c] = "wakeup" /\ intr' = [intr EXCEPT ![c] = "tail"]
         /\ tickslock = c /\ tickslock' = NoCpu
  BY DEF Timer, Tick, TickWakeup, acquire, release
<1>3. state' \in [Slot -> ProcState] /\ \A q \in Slot : Woken(q)
  BY <1>1 DEF TypeOK, wakeup1, ProcState, Woken
<1>4. TypeOK'
  <2>1. due' \in [Slot -> 0..MaxSleep]
    BY <1>1, ProcAssumption DEF TypeOK
  <2>2. tickslock' \in CPU \cup {NoCpu} /\ intr' \in [CPU -> {"none", "tick", "wakeup", "tail"}]
    BY <1>2 DEF TypeOK
  <2> QED
    BY <1>1, <1>3, <2>1, <2>2, Zenon DEF TypeOK
<1>5. LockOwner'
  <2>1. \A d \in CPU : d # c => intr'[d] = intr[d] /\ (tickslock' = d <=> tickslock = d)
    BY <1>2, ProcAssumption DEF TypeOK
  <2>2. IF proc[c] = NoProc THEN scan[c] = 0 ELSE pc[proc[c]] \in Preemptible
    BY <1>2, Zenon DEF LockOwner, Interruptible
  <2>3. tickslock' = c <=> intr'[c] = "wakeup"
    BY <1>2, <2>2, ProcAssumption DEF LockOwner, TypeOK, Interruptible, TicksLocked, Preemptible
  <2>4. proc[c] # NoProc => pc[proc[c]] \notin TicksLocked
    BY <2>2, Zenon DEF TicksLocked, Preemptible
  <2> QED
    BY <1>1, <2>1, <2>2, <2>3, <2>4, Zenon DEF LockOwner
<1>6. Running' /\ Stopped' /\ Forking'
  BY <1>1, <1>3, IdleStep
<1> QED
  BY ONLY <1>4, <1>5, <1>6

(* The end of the trap: an idle CPU goes on, a killed process in user mode *)
(* is sent to exit.                                                        *)
LEMMA TrapTailStep ==
  ASSUME ProcInv, NEW c \in CPU, TrapTail(c)
  PROVE  ProcInv'
<1> USE DEF ProcInv
<1>1. /\ intr[c] = "tail" /\ intr' = [intr EXCEPT ![c] = "none"]
      /\ pc' = [p \in Slot |-> IF p = proc[c] THEN "exit" ELSE pc[p]]
      /\ UNCHANGED <<table, ret, np, due, nextpid, ptlock, tickslock, proc, scan>>
  BY DEF TrapTail
<1>2. TypeOK'
  BY <1>1, Zenon DEF TypeOK, table, Label, Preemptible
<1>3. intr'[c] = "none" /\ \A d \in CPU : d # c => intr'[d] = intr[d]
  BY <1>1 DEF TypeOK
<1>4. CASE proc[c] = NoProc
  <2>1. pc' = pc
    BY ONLY <1>1, <1>4, SlotFacts, ProcInv DEF TypeOK
  <2>2. LockOwner'
    BY <1>1, <1>3, <1>4, <2>1, SMTT(30) DEF LockOwner
  <2>3. Running' /\ Stopped' /\ Forking'
    BY <1>1, <2>1, IdleStep, Zenon DEF table, Woken
  <2> QED
    BY ONLY <1>2, <2>2, <2>3
<1>5. CASE proc[c] # NoProc
  <2> DEFINE p == proc[c]
  <2>1. p \in Slot /\ pc[p] = "user"
    BY <1>1, <1>5, Zenon DEF TrapTail, TypeOK
  <2>2. pc' = [pc EXCEPT ![p] = "exit"] /\ pc'[p] = "exit"
        /\ \A q \in Slot \ {p} : pc'[q] = pc[q]
    BY <1>1, <2>1, Zenon DEF TypeOK
  <2>3. ptlock # c /\ tickslock # c
    BY <1>1, <1>5, <2>1, Zenon DEF LockOwner, Locked, TicksLocked
  <2>4. LockOwner'
    BY <1>1, <1>3, <2>1, <2>2, <2>3, LockThread DEF Locked, TicksLocked
  <2>5. state[p] = "RUNNING"
    BY <2>1, OnThisCpu
  <2>6. Running' /\ Stopped' /\ Forking'
    BY <1>1, <2>1, <2>2, <2>5, ThreadStep, Zenon DEF table, Woken, Pos, Label,
       Preemptible, ForkLabel
  <2> QED
    BY <1>2, <2>4, <2>6
<1> QED
  BY <1>4, <1>5, Zenon

(* yield: the process stays where it was, RUNNABLE, about to call sched.   *)
LEMMA YieldStep ==
  ASSUME ProcInv, NEW c \in CPU, NEW p \in Slot, yield(c, p)
  PROVE  ProcInv'
<1> USE DEF ProcInv
<1>1. /\ intr[c] = "tail" /\ intr' = [intr EXCEPT ![c] = "none"] /\ proc[c] = p
      /\ ptlock = NoCpu /\ ptlock' = c
      /\ state' = [state EXCEPT ![p] = "RUNNABLE"]
      /\ ret' = [ret EXCEPT ![p] = pc[p]]
      /\ pc' = [pc EXCEPT ![p] = "sched"]
      /\ UNCHANGED <<pid, parent, chan, killed, kstack, np, due, nextpid, tickslock, proc, scan>>
  BY Zenon DEF yield, acquire, Goto
<1>2. pc[p] \in Preemptible
  BY <1>1, SlotFacts DEF LockOwner
<1>3. TypeOK'
  BY <1>1, <1>2, Zenon DEF TypeOK, Label, Locked, Resume, ProcState
<1>4. /\ pc'[p] = "sched" /\ \A q \in Slot \ {p} : pc'[q] = pc[q]
      /\ state'[p] = "RUNNABLE" /\ \A q \in Slot \ {p} : state'[q] = state[q]
      /\ ret'[p] = pc[p] /\ \A q \in Slot \ {p} : ret'[q] = ret[q]
      /\ intr'[c] = "none" /\ \A d \in CPU \ {c} : intr'[d] = intr[d]
  BY <1>1 DEF TypeOK
<1>5. LockOwner'
  <2>1. tickslock # c
    BY <1>1, <1>2, SlotFacts, Zenon DEF LockOwner, Preemptible, TicksLocked
  <2>2. \A d \in CPU \ {c} : ptlock' = d <=> ptlock = d
    BY <1>1, ProcAssumption
  <2>3. pc[p] # "sched" /\ "sched" \in Locked /\ "sched" \notin TicksLocked
    BY <1>2 DEF Preemptible, Locked, TicksLocked
  <2> QED
    BY <1>1, <1>4, <2>1, <2>2, <2>3, LockThread, SMTT(30)
<1>6. Running' /\ Stopped' /\ Forking'
  <2>1. pc[p] \notin {"sched", "resume", "none", "zombie"} /\ "sched" \in Label \ {"none", "resume"}
    BY <1>2 DEF Preemptible, Label, Locked
  <2>2. Pos(p) = pc[p] /\ Pos(p)' = pc[p]
    BY <1>4, <2>1, Zenon DEF Pos
  <2>3. \A q \in Slot \ {p} : Woken(q) /\ ret'[q] = ret[q]
    BY <1>4, Zenon DEF Woken
  <2>4. Pos(p) = Pos(p)' /\ state'[p] = "RUNNABLE" /\ ret'[p] \notin {"none", "zombie"}
    BY ONLY <1>4, <2>1, <2>2
  <2> QED
    BY <1>1, <2>1, <2>3, <2>4, ThreadStep, Zenon
<1> QED
  BY ONLY <1>3, <1>5, <1>6

(* Taking, keeping and leaving a lock, as the other CPUs see it.           *)
LEMMA LockOthers ==
  ASSUME NEW c \in CPU, NEW lk, NEW lk1,
         \/ lk = NoCpu /\ lk1 = c
         \/ lk = c /\ lk1 = NoCpu
         \/ lk1 = lk
  PROVE  \A d \in CPU \ {c} : lk1 = d <=> lk = d
BY ProcAssumption, Zenon

(* A step of the process p, running on the CPU c, to l.                    *)
LEMMA Move ==
  ASSUME ProcInv, NEW c \in CPU, NEW p \in Slot,
         proc[c] = p, intr[c] = "none", pc[p] # "sched",
         NEW l \in Label \ {"none", "resume", "sched"},
         pc' = [pc EXCEPT ![p] = l],
         \A q \in Slot : Woken(q),
         \A q \in Slot \ {p} : ret'[q] = ret[q],
         Pos(p) \in ForkLabel <=> l \in ForkLabel,
         Pos(p) = "fork_kalloc" <=> l = "fork_kalloc",
         UNCHANGED <<kstack, np, proc, scan, intr>>,
         \/ ptlock = NoCpu /\ ptlock' = c
         \/ ptlock = c /\ ptlock' = NoCpu
         \/ ptlock' = ptlock,
         ptlock' = c <=> l \in Locked,
         \/ tickslock = NoCpu /\ tickslock' = c
         \/ tickslock = c /\ tickslock' = NoCpu
         \/ tickslock' = tickslock,
         tickslock' = c <=> l \in TicksLocked
  PROVE  LockOwner' /\ Running' /\ Stopped' /\ Forking'
<1>1. pc'[p] = l /\ \A q \in Slot \ {p} : pc'[q] = pc[q]
  BY DEF ProcInv, TypeOK
<1>2. LockOwner'
  <2>1. \A d \in CPU \ {c} : ptlock' = d <=> ptlock = d
    BY ProcAssumption, Zenon
  <2>2. \A d \in CPU \ {c} : tickslock' = d <=> tickslock = d
    BY ProcAssumption, Zenon
  <2>3. /\ \A q \in Slot \ {p} : OnCpu(q) => pc'[q] = pc[q]
        /\ intr'[c] = "none" /\ \A d \in CPU \ {c} : intr'[d] = intr[d]
        /\ UNCHANGED <<proc, scan>>
    BY <1>1, Zenon
  <2> QED
    BY <1>1, <2>1, <2>2, <2>3, LockThread, Zenon
<1>3. Pos(p)' = l
  BY ONLY <1>1 DEF Pos
<1>4. state'[p] = "RUNNING"
  <2>1. state[p] = "RUNNING"
    BY OnThisCpu, Zenon
  <2>2. Woken(p)
    BY Zenon
  <2> QED
    BY ONLY <2>1, <2>2 DEF Woken
<1>5. Running' /\ Stopped' /\ Forking'
  BY <1>3, <1>4, ThreadStep, Zenon
<1> QED
  BY <1>2, <1>5, Zenon

(* The locks a process at l holds.                                         *)
LEMMA Holds ==
  ASSUME ProcInv, NEW c \in CPU, NEW p \in Slot, proc[c] = p, intr[c] = "none"
  PROVE  /\ ptlock = c <=> pc[p] \in Locked
         /\ tickslock = c <=> pc[p] \in TicksLocked
BY SlotFacts, Zenon DEF ProcInv, LockOwner

(* System calls, their return, and faults.                                 *)
LEMMA TrapStepInv ==
  ASSUME ProcInv, NEW c \in CPU, NEW p \in Slot,
         Syscall(c, p) \/ Sysret(c, p) \/ Fault(c, p)
  PROVE  ProcInv'
<1>1. /\ proc[c] = p /\ intr[c] = "none" /\ pc[p] \in {"user", "sysret"}
      /\ killed' = killed \/ killed' = [killed EXCEPT ![p] = TRUE]
      /\ UNCHANGED <<state, pid, parent, chan, kstack, ret, np, due, nextpid,
                     ptlock, tickslock, proc, scan, intr>>
  BY Zenon DEF Syscall, Sysret, Fault, At, table, cpus
<1>2. PICK l \in {"user", "exit", "fork", "wait", "kill", "sleep"} :
        pc' = [pc EXCEPT ![p] = l]
  BY ProcAssumption, Zenon DEF Syscall, Sysret, Fault, Goto
<1>3. /\ l \in Label \ {"none", "resume", "sched"} /\ pc[p] # "sched"
      /\ l \notin Locked /\ l \notin TicksLocked /\ l \notin ForkLabel
      /\ Pos(p) \notin ForkLabel /\ pc[p] \notin Locked /\ pc[p] \notin TicksLocked
  BY <1>1 DEF Label, Preemptible, Locked, TicksLocked, ForkLabel, Pos
<1>4. TypeOK'
  BY <1>1, <1>2, <1>3, Zenon DEF ProcInv, TypeOK
<1>5. LockOwner' /\ Running' /\ Stopped' /\ Forking'
  <2>1. ptlock # c /\ tickslock # c
    BY <1>1, <1>3, Holds, Zenon
  <2>2. l # "fork_kalloc" /\ Pos(p) # "fork_kalloc"
    BY <1>3 DEF ForkLabel
  <2> QED
    BY <1>1, <1>2, <1>3, <2>1, <2>2, Move, Zenon DEF Woken
<1> QED
  BY <1>4, <1>5 DEF ProcInv

(* A process the scheduler has switched to goes on where it was.           *)
LEMMA ResumedStep ==
  ASSUME ProcInv, NEW c \in CPU, NEW p \in Slot, Resumed(c, p)
  PROVE  ProcInv'
<1>1. /\ proc[c] = p /\ intr[c] = "none" /\ pc[p] = "resume"
      /\ chan' = chan \/ chan' = [chan EXCEPT ![p] = NoProc]
      /\ ret' = [ret EXCEPT ![p] = "none"]
      /\ UNCHANGED <<state, pid, parent, killed, kstack, np, due, nextpid,
                     tickslock, proc, scan, intr>>
  <2>1. proc[c] = p /\ intr[c] = "none" /\ pc[p] = "resume"
    BY DEF Resumed, At
  <2>2. chan' = chan \/ chan' = [chan EXCEPT ![p] = NoProc]
    BY DEF Resumed
  <2>3. /\ ret' = [ret EXCEPT ![p] = "none"]
        /\ UNCHANGED <<state, pid, parent, killed, kstack, np, due, nextpid, tickslock, cpus>>
    BY DEF Resumed
  <2> QED
    BY <2>1, <2>2, <2>3, Zenon DEF cpus
<1>2. PICK l : /\ pc' = [pc EXCEPT ![p] = l]
               /\ \/ /\ ptlock = c /\ ptlock' = NoCpu /\ ret[p] = "forkret" /\ l = "user"
                  \/ /\ ptlock = c /\ ptlock' = NoCpu /\ ret[p] \in Preemptible
                     /\ l = ret[p] \/ (ret[p] = "user" /\ l = "exit")
                  \/ /\ ptlock' = ptlock /\ ret[p] = "in_wait" /\ l = "wait_scan"
                  \/ /\ ptlock = c /\ ptlock' = NoCpu /\ ret[p] = "in_sleep" /\ l = "sleep_again"
  <2>1. CASE ret[p] = "forkret"
    BY <2>1, Zenon DEF Resumed, release, Goto, Preemptible
  <2>2. CASE ret[p] \in Preemptible
    BY <2>2, Zenon DEF Resumed, release, Goto, Preemptible
  <2>3. CASE ret[p] \in {"in_wait", "in_sleep"}
    BY <2>3, Zenon DEF Resumed, release, Goto, Preemptible
  <2> QED
    BY <2>1, <2>2, <2>3, Zenon DEF Resumed
<1>3. l \in Preemptible \cup {"wait_scan"} /\ (l = "wait_scan" <=> ret[p] = "in_wait")
      /\ (l \in ForkLabel \/ ret[p] \in ForkLabel => l = ret[p])
  BY <1>2 DEF Preemptible, ForkLabel
<1>4. /\ l \in Label \ {"none", "resume", "sched"} /\ (l \in Locked <=> l = "wait_scan")
      /\ l \notin TicksLocked
  BY <1>3, SMTT(30) DEF Label, Preemptible, Locked, TicksLocked
<1>5. TypeOK'
  <2>1. chan' \in [Slot -> Slot \cup {NoProc, TicksChan}]
    BY <1>1 DEF ProcInv, TypeOK
  <2>2. ret' \in [Slot -> Resume] /\ pc' \in [Slot -> Label]
    BY <1>1, <1>2, <1>4, Zenon DEF ProcInv, TypeOK, Resume
  <2>3. ptlock' \in CPU \cup {NoCpu}
    BY <1>2, Zenon DEF ProcInv, TypeOK
  <2> QED
    BY <1>1, <2>1, <2>2, <2>3, Zenon DEF ProcInv, TypeOK
<1>6. LockOwner' /\ Running' /\ Stopped' /\ Forking'
  <2>1. ptlock = c /\ tickslock # c /\ pc[p] # "sched"
    BY <1>1, Holds, Zenon DEF Locked, TicksLocked
  <2>2. ptlock' = c <=> l \in Locked
    BY <1>2, <1>4, <2>1, ProcAssumption DEF Preemptible
  <2>3. Pos(p) = ret[p] /\ \A q \in Slot \ {p} : ret'[q] = ret[q]
    BY <1>1, Zenon DEF Pos, ProcInv, TypeOK
  <2>4. (Pos(p) \in ForkLabel <=> l \in ForkLabel) /\ (Pos(p) = "fork_kalloc" <=> l = "fork_kalloc")
    BY ONLY <1>3, <2>3 DEF ForkLabel
  <2>5. (ptlock = c /\ ptlock' = NoCpu) \/ ptlock' = ptlock
    BY <1>2
  <2> QED
    BY <1>1, <1>2, <1>4, <2>1, <2>2, <2>3, <2>4, <2>5, Move, Zenon DEF Woken
<1> QED
  BY <1>5, <1>6 DEF ProcInv

-----------------------------------------------------------------------------
(* The steps of fork, which fills its slot without holding ptable.lock.    *)

(* The slot q that the process p on the CPU c is filling in fork: EMBRYO,   *)
(* on no CPU, in no fork itself, and nobody else's.                        *)
LEMMA MyEmbryo ==
  ASSUME ProcInv, NEW c \in CPU, NEW p \in Slot, proc[c] = p, pc[p] \in ForkLabel
  PROVE  /\ np[p] \in Slot \ {p} /\ state[np[p]] = "EMBRYO" /\ ~OnCpu(np[p])
         /\ np[np[p]] = NoProc /\ state[p] = "RUNNING"
         /\ \A r \in Slot \ {p} : np[r] # np[p] /\ np[r] # p
         /\ IF pc[p] = "fork_kalloc" THEN pc[np[p]] = "none"
            ELSE pc[np[p]] = "resume" /\ ret[np[p]] = "forkret" /\ kstack[np[p]]
<1> USE DEF ProcInv
<1>1. Pos(p) = pc[p] /\ pc[p] # "sched"
  BY Zenon DEF Pos, ForkLabel
<1>2. state[p] = "RUNNING" /\ \A r \in Slot : np[r] # p
  BY <1>1, OnThisCpu, Zenon
<1>3. /\ np[p] \in Slot \ {p} /\ state[np[p]] = "EMBRYO"
      /\ \A r \in Slot \ {p} : np[r] # np[p]
      /\ IF pc[p] = "fork_kalloc" THEN pc[np[p]] = "none"
         ELSE pc[np[p]] = "resume" /\ ret[np[p]] = "forkret" /\ kstack[np[p]]
  <2>1. np[p] \in Slot \cup {NoProc}
    BY Zenon DEF TypeOK
  <2> QED
    BY <1>1, <1>2, <2>1 DEF Forking
<1>4. ~OnCpu(np[p])
  BY <1>3, SlotFacts DEF OnCpu, Running
<1>5. np[np[p]] = NoProc
  BY <1>3, Zenon DEF Forking, Pos, ForkLabel
<1> QED
  BY <1>2, <1>3, <1>4, <1>5, Zenon

(* A step of fork in p, going to l, that changes only the slot q it is      *)
(* creating, and leaves q free, still under construction, or ready to run. *)
EmbryoMove(p, l, q) ==
  /\ q = np[p]
  /\ pc'[p] = l
  /\ \A r \in Slot \ {p, q} : pc'[r] = pc[r]
  /\ \A r \in Slot \ {q} : state'[r] = state[r] /\ ret'[r] = ret[r] /\ kstack'[r] = kstack[r]
  /\ \A r \in Slot \ {p} : np'[r] = np[r]
  /\ np'[p] = IF l = "fork_copy" THEN q ELSE NoProc
  /\ \/ state'[q] = "UNUSED" /\ pc'[q] = "none" /\ l = "sysret"
     \/ /\ state'[q] = "EMBRYO" /\ l = "fork_copy"
        /\ pc'[q] = "resume" /\ ret'[q] = "forkret" /\ kstack'[q]
     \/ /\ state'[q] = "RUNNABLE" /\ l = "sysret"
        /\ pc'[q] = "resume" /\ ret'[q] = "forkret" /\ kstack'[q]
  /\ UNCHANGED <<ptlock, tickslock, proc, scan, intr>>

(* A step of fork: the process p on the CPU c moves from one label of fork *)
(* to l, and changes its embryo q.                                         *)
LEMMA EmbryoStep ==
  ASSUME ProcInv, NEW c \in CPU, NEW p \in Slot, proc[c] = p, intr[c] = "none",
         pc[p] \in ForkLabel,
         NEW l \in {"sysret", "fork_copy"}, NEW q, EmbryoMove(p, l, q)
  PROVE  LockOwner' /\ Running' /\ Stopped' /\ Forking'
<1> USE DEF ProcInv, EmbryoMove
<1>1. /\ q \in Slot \ {p} /\ state[q] = "EMBRYO" /\ ~OnCpu(q) /\ np[q] = NoProc
      /\ state[p] = "RUNNING" /\ \A r \in Slot \ {p} : np[r] # q /\ np[r] # p
  BY MyEmbryo
<1>2. pc[p] # "sched" /\ pc[p] \notin Locked /\ pc[p] \notin TicksLocked
      /\ l \notin Locked /\ l \notin TicksLocked
  BY Zenon DEF ForkLabel, Locked, TicksLocked
<1>3. LockOwner'
  <2>1. ptlock # c /\ tickslock # c
    BY <1>2, Holds, Zenon
  <2>2. \A r \in Slot \ {p} : OnCpu(r) => pc'[r] = pc[r]
    BY <1>1
  <2> QED
    BY <1>2, <2>1, <2>2, LockThread, Zenon
<1>4. \A r \in Slot : OnCpu(r)' <=> OnCpu(r)
  BY Zenon DEF OnCpu
<1>5. OnCpu(p) /\ \A d \in CPU : proc[d] # NoProc => proc[d] \in Slot \ {q}
  BY <1>1 DEF OnCpu, TypeOK
<1>6. Running'
  <2>1. \A d \in CPU : proc'[d] # NoProc =>
          IF pc'[proc'[d]] = "sched"
          THEN state'[proc'[d]] \in {"RUNNABLE", "SLEEPING", "ZOMBIE"}
          ELSE state'[proc'[d]] = "RUNNING"
    <3> SUFFICES ASSUME NEW d \in CPU, proc[d] # NoProc
                 PROVE  IF pc'[proc[d]] = "sched"
                        THEN state'[proc[d]] \in {"RUNNABLE", "SLEEPING", "ZOMBIE"}
                        ELSE state'[proc[d]] = "RUNNING"
      BY Zenon
    <3>1. PICK r \in Slot \ {q} : r = proc[d]
      BY <1>5, Zenon
    <3>2. IF pc[r] = "sched" THEN state[r] \in {"RUNNABLE", "SLEEPING", "ZOMBIE"}
                             ELSE state[r] = "RUNNING"
      BY <3>1, Zenon DEF Running
    <3>3. state'[r] = state[r] /\ (r # p => pc'[r] = pc[r])
      BY Zenon
    <3>4. pc'[p] # "sched" /\ state[p] = "RUNNING"
      BY <1>1, Zenon
    <3> QED
      BY ONLY <3>1, <3>2, <3>3, <3>4, Zenon
  <2>2. \A r \in Slot : state'[r] = "RUNNING" => OnCpu(r)'
    <3>1. state'[q] # "RUNNING"
      BY Zenon
    <3>2. \A r \in Slot : state[r] = "RUNNING" => OnCpu(r)
      BY Zenon DEF Running
    <3>3. \A r \in Slot \ {q} : state'[r] = state[r]
      BY Zenon
    <3> QED
      BY ONLY <1>4, <3>1, <3>2, <3>3, Zenon
  <2> QED
    BY <2>1, <2>2, Zenon DEF Running
<1>7. Stopped'
  <2> SUFFICES ASSUME NEW r \in Slot
               PROVE  /\ ~OnCpu(r)' => pc'[r] \in {"none", "resume"}
                      /\ state'[r] \notin {"UNUSED", "EMBRYO"} => kstack'[r] /\ pc'[r] # "none"
                      /\ state'[r] = "UNUSED" => pc'[r] = "none"
                      /\ state'[r] = "RUNNABLE" => ret'[r] \notin {"none", "zombie"}
                      /\ state'[r] = "SLEEPING" => ret'[r] \in {"in_wait", "in_sleep"}
                      /\ state'[r] = "ZOMBIE" => ret'[r] = "zombie"
    BY Zenon DEF Stopped
  <2>1. CASE r = p
    BY <1>1, <1>4, <1>5, <2>1 DEF Stopped
  <2>2. CASE r = q
    BY <2>2, Zenon
  <2>3. CASE r \notin {p, q}
    BY <1>4, <2>3 DEF Stopped
  <2> QED
    BY <2>1, <2>2, <2>3, Zenon
<1>8. Forking'
  <2>1. Pos(p)' = l /\ Pos(q)' \notin ForkLabel /\ \A r \in Slot \ {p, q} : Pos(r)' = Pos(r)
    BY <1>1 DEF Pos, ForkLabel
  <2>2. ASSUME NEW r \in Slot
        PROVE  IF Pos(r)' \in ForkLabel
               THEN /\ np'[r] # NoProc /\ state'[np'[r]] = "EMBRYO"
                    /\ IF Pos(r)' = "fork_kalloc" THEN pc'[np'[r]] = "none"
                       ELSE pc'[np'[r]] = "resume" /\ ret'[np'[r]] = "forkret" /\ kstack'[np'[r]]
               ELSE np'[r] = NoProc
    <3>1. CASE r = p
      BY <1>1, <2>1, <3>1, SlotFacts DEF ForkLabel
    <3>2. CASE r = q
      BY <1>1, <2>1, <3>2, Zenon
    <3>3. CASE r \notin {p, q}
      <4>1. np[r] # NoProc => np[r] \in Slot \ {p, q}
        <5>1. np[r] \in Slot \cup {NoProc}
          BY Zenon DEF TypeOK
        <5>2. np[r] # q /\ np[r] # p
          BY <1>1, <3>3, Zenon
        <5> QED
          BY ONLY <5>1, <5>2
      <4>2. IF Pos(r) \in ForkLabel
            THEN /\ np[r] # NoProc /\ state[np[r]] = "EMBRYO"
                 /\ IF Pos(r) = "fork_kalloc" THEN pc[np[r]] = "none"
                    ELSE pc[np[r]] = "resume" /\ ret[np[r]] = "forkret" /\ kstack[np[r]]
            ELSE np[r] = NoProc
        BY Zenon DEF Forking
      <4>3. Pos(r)' = Pos(r) /\ np'[r] = np[r]
        BY <2>1, <3>3
      <4>4. np[r] # NoProc => /\ state'[np[r]] = state[np[r]] /\ pc'[np[r]] = pc[np[r]]
                              /\ ret'[np[r]] = ret[np[r]] /\ kstack'[np[r]] = kstack[np[r]]
        BY <4>1
      <4> QED
        BY ONLY <4>2, <4>3, <4>4
    <3> QED
      BY <3>1, <3>2, <3>3, Zenon
  <2>3. \A r, s \in Slot : np'[r] # NoProc /\ np'[r] = np'[s] => r = s
    <3>1. \A r, s \in Slot : np[r] # NoProc /\ np[r] = np[s] => r = s
      BY Zenon DEF Forking
    <3>2. /\ np'[p] \in {q, NoProc} /\ \A r \in Slot \ {p} : np'[r] = np[r] /\ np[r] # q
      BY <1>1, Zenon
    <3> QED
      BY ONLY <3>1, <3>2
  <2> QED
    BY <2>2, <2>3, Zenon DEF Forking
<1> QED
  BY <1>3, <1>6, <1>7, <1>8, Zenon

(* allocproc, finding an UNUSED slot or none.                              *)
LEMMA AllocStep ==
  ASSUME ProcInv, NEW c \in CPU, NEW p \in Slot, allocproc(c, p)
  PROVE  ProcInv'
<1> USE DEF ProcInv
<1>1. /\ proc[c] = p /\ intr[c] = "none" /\ pc[p] = "fork" /\ ptlock' = ptlock
      /\ UNCHANGED <<parent, chan, killed, kstack, ret, due, tickslock, proc, scan, intr>>
  BY Zenon DEF allocproc, At, cpus
<1>2. ptlock # c /\ tickslock # c /\ Pos(p) = "fork"
  BY <1>1, Holds DEF Locked, TicksLocked, Pos
<1>3. CASE pc' = [pc EXCEPT ![p] = "sysret"] /\ UNCHANGED <<state, pid, np, nextpid>>
  <2>1. TypeOK'
    BY <1>1, <1>3, Zenon DEF TypeOK, Label, Preemptible
  <2>2. /\ "sysret" \in Label \ {"none", "resume", "sched"}
        /\ "sysret" \notin Locked /\ "sysret" \notin TicksLocked
        /\ "sysret" \notin ForkLabel /\ "fork" \notin ForkLabel
    BY DEF Label, Preemptible, Locked, TicksLocked, ForkLabel
  <2>3. LockOwner' /\ Running' /\ Stopped' /\ Forking'
    BY <1>1, <1>2, <1>3, <2>2, Move, Zenon DEF Woken
  <2> QED
    BY <2>1, <2>3
<1>4. ASSUME NEW q \in Slot, state[q] = "UNUSED", state' = [state EXCEPT ![q] = "EMBRYO"],
             TakePid(q), np' = [np EXCEPT ![p] = q], pc' = [pc EXCEPT ![p] = "fork_kalloc"]
      PROVE  ProcInv'
  <2>1. TypeOK'
    BY <1>1, <1>4 DEF TypeOK, Label, Preemptible, TakePid, ProcState
  <2>2. /\ state[p] = "RUNNING" /\ q # p /\ \A r \in Slot : np[r] # p
        /\ \A d \in CPU : proc[d] = p => d = c
    BY <1>1, <1>4, OnThisCpu, Zenon
  <2>3. /\ pc'[p] = "fork_kalloc" /\ \A r \in Slot \ {p} : pc'[r] = pc[r]
        /\ state'[q] = "EMBRYO" /\ \A r \in Slot \ {q} : state'[r] = state[r]
        /\ np'[p] = q /\ \A r \in Slot \ {p} : np'[r] = np[r]
    BY <1>4 DEF TypeOK
  <2>4. LockOwner'
    <3>1. "fork_kalloc" \notin Locked /\ "fork_kalloc" \notin TicksLocked
      BY ONLY Zenon DEF Locked, TicksLocked
    <3> QED
      BY <1>1, <1>2, <2>3, <3>1, LockThread, Zenon
  <2>5. ~OnCpu(q) /\ pc[q] = "none"
    <3>1. pc[q] = "none"
      BY <1>4, Zenon DEF Stopped
    <3>2. ASSUME NEW d \in CPU, proc[d] = q PROVE FALSE
      <4>1. q # NoProc
        BY SlotFacts, Zenon
      <4>2. state[q] \in {"RUNNABLE", "SLEEPING", "ZOMBIE"} \/ state[q] = "RUNNING"
        BY <3>2, <4>1, Zenon DEF Running
      <4> QED
        BY ONLY <1>4, <4>2
    <3> QED
      BY <3>1, <3>2, Zenon DEF OnCpu
  <2>6. /\ \A r \in Slot : OnCpu(r)' <=> OnCpu(r)
        /\ OnCpu(p) /\ \A d \in CPU : proc[d] # NoProc => proc[d] \in Slot \ {q}
    BY <1>1, <2>5, Zenon DEF OnCpu, TypeOK
  <2>7. Running'
    <3>1. ASSUME NEW d \in CPU, proc[d] # NoProc
          PROVE  IF pc'[proc[d]] = "sched"
                 THEN state'[proc[d]] \in {"RUNNABLE", "SLEEPING", "ZOMBIE"}
                 ELSE state'[proc[d]] = "RUNNING"
      <4>1. PICK r \in Slot \ {q} : r = proc[d]
        BY <2>6, <3>1, Zenon
      <4>2. IF pc[r] = "sched" THEN state[r] \in {"RUNNABLE", "SLEEPING", "ZOMBIE"}
                               ELSE state[r] = "RUNNING"
        BY <3>1, <4>1 DEF Running
      <4> QED
        BY ONLY <2>2, <2>3, <4>1, <4>2, Zenon
    <3>2. \A r \in Slot : state'[r] = "RUNNING" => OnCpu(r)'
      BY <2>3, <2>6, Zenon DEF Running
    <3>3. proc' = proc
      BY <1>1, Zenon
    <3> QED
      BY <3>1, <3>2, <3>3, Zenon DEF Running
  <2>8. Stopped'
    <3> SUFFICES ASSUME NEW r \in Slot
                 PROVE  /\ ~OnCpu(r)' => pc'[r] \in {"none", "resume"}
                        /\ state'[r] \notin {"UNUSED", "EMBRYO"} => kstack'[r] /\ pc'[r] # "none"
                        /\ state'[r] = "UNUSED" => pc'[r] = "none"
                        /\ state'[r] = "RUNNABLE" => ret'[r] \notin {"none", "zombie"}
                        /\ state'[r] = "SLEEPING" => ret'[r] \in {"in_wait", "in_sleep"}
                        /\ state'[r] = "ZOMBIE" => ret'[r] = "zombie"
      BY Zenon DEF Stopped
    <3>1. UNCHANGED <<kstack, ret>>
      BY <1>1, Zenon
    <3>2. CASE r = p
      BY <2>2, <2>3, <2>6, <3>1, <3>2, Zenon DEF Stopped
    <3>3. CASE r = q
      BY <2>2, <2>3, <2>5, <3>3, Zenon
    <3>4. CASE r \notin {p, q}
      <4>1. /\ ~OnCpu(r) => pc[r] \in {"none", "resume"}
            /\ state[r] \notin {"UNUSED", "EMBRYO"} => kstack[r] /\ pc[r] # "none"
            /\ state[r] = "UNUSED" => pc[r] = "none"
            /\ state[r] = "RUNNABLE" => ret[r] \notin {"none", "zombie"}
            /\ state[r] = "SLEEPING" => ret[r] \in {"in_wait", "in_sleep"}
            /\ state[r] = "ZOMBIE" => ret[r] = "zombie"
        BY Zenon DEF Stopped
      <4> QED
        BY ONLY <2>3, <2>6, <3>1, <3>4, <4>1, Zenon
    <3> QED
      BY <3>2, <3>3, <3>4, Zenon
  <2>9. Forking'
    <3>1. Pos(p)' = "fork_kalloc" /\ \A r \in Slot \ {p} : Pos(r)' = Pos(r)
      BY <1>1, <2>3, Zenon DEF Pos
    <3>2. \A r \in Slot \ {p} : np[r] # NoProc => np[r] \in Slot \ {p, q}
      BY <1>4, <2>2, Zenon DEF TypeOK, Forking
    <3>3. ASSUME NEW r \in Slot
          PROVE  IF Pos(r)' \in ForkLabel
                 THEN /\ np'[r] # NoProc /\ state'[np'[r]] = "EMBRYO"
                      /\ IF Pos(r)' = "fork_kalloc" THEN pc'[np'[r]] = "none"
                         ELSE pc'[np'[r]] = "resume" /\ ret'[np'[r]] = "forkret" /\ kstack'[np'[r]]
                 ELSE np'[r] = NoProc
      <4>1. CASE r = p
        BY <2>2, <2>3, <2>5, <3>1, <4>1, SlotFacts, Zenon DEF ForkLabel
      <4>2. CASE r # p
        <5>1. UNCHANGED <<kstack, ret>> /\ Pos(r)' = Pos(r) /\ np'[r] = np[r]
          BY <1>1, <2>3, <3>1, <4>2, Zenon
        <5>3. np[r] # NoProc => state'[np[r]] = state[np[r]] /\ pc'[np[r]] = pc[np[r]]
          BY <2>3, <3>2, <4>2, Zenon
        <5>2. IF Pos(r) \in ForkLabel
              THEN /\ np[r] # NoProc /\ state[np[r]] = "EMBRYO"
                   /\ IF Pos(r) = "fork_kalloc" THEN pc[np[r]] = "none"
                      ELSE pc[np[r]] = "resume" /\ ret[np[r]] = "forkret" /\ kstack[np[r]]
              ELSE np[r] = NoProc
          BY Zenon DEF Forking
        <5> QED
          BY ONLY <5>1, <5>2, <5>3, Zenon
      <4> QED
        BY <4>1, <4>2, Zenon
    <3>4. \A r, s \in Slot : np'[r] # NoProc /\ np'[r] = np'[s] => r = s
      <4>1. \A r, s \in Slot : np[r] # NoProc /\ np[r] = np[s] => r = s
        BY Zenon DEF Forking
      <4> QED
        BY ONLY <2>3, <3>2, <4>1, <1>4
    <3> QED
      BY <3>3, <3>4, Zenon DEF Forking
  <2> QED
    BY <2>1, <2>4, <2>7, <2>8, <2>9
<1> QED
  BY <1>3, <1>4, Zenon DEF allocproc, Goto

(* The rest of fork, with the failures of kalloc and copyuvm.              *)
LEMMA ForkStep ==
  ASSUME ProcInv, NEW c \in CPU, NEW p \in Slot,
         ForkKalloc(c, p) \/ ForkCopy(c, p) \/ ForkRun(c, p)
  PROVE  ProcInv'
<1>0. /\ proc[c] = p /\ intr[c] = "none" /\ pc[p] \in ForkLabel
      /\ UNCHANGED <<pid, chan, killed, due, nextpid, ptlock, tickslock, proc, scan, intr>>
  BY Zenon DEF ForkKalloc, ForkCopy, ForkRun, At, cpus, ForkLabel
<1> DEFINE q == np[p]
<1>1. /\ q \in Slot \ {p}
      /\ pc[p] = "fork_kalloc" => pc[q] = "none"
      /\ pc[p] # "fork_kalloc" => pc[q] = "resume" /\ ret[q] = "forkret" /\ kstack[q]
  <2>1. /\ np[p] \in Slot \ {p}
        /\ IF pc[p] = "fork_kalloc" THEN pc[np[p]] = "none"
           ELSE pc[np[p]] = "resume" /\ ret[np[p]] = "forkret" /\ kstack[np[p]]
    BY <1>0, MyEmbryo, Zenon
  <2> QED
    BY ONLY <2>1, Zenon
<1> HIDE DEF q
<1>2. CASE ForkCopy(c, p) /\ parent' = [parent EXCEPT ![np[p]] = p]
            /\ Goto(p, "fork_run") /\ UNCHANGED <<state, kstack, ret, np>>
  <2>1. pc[p] = "fork_copy" /\ pc' = [pc EXCEPT ![p] = "fork_run"]
    BY <1>2, Zenon DEF ForkCopy, At, Goto
  <2>2. TypeOK'
    BY <1>0, <1>1, <1>2, <2>1, Zenon DEF ProcInv, TypeOK, Label, Preemptible, q
  <2>3. /\ "fork_run" \in Label \ {"none", "resume", "sched"} /\ Pos(p) = "fork_copy"
        /\ "fork_run" \notin Locked /\ "fork_run" \notin TicksLocked
        /\ "fork_run" \in ForkLabel /\ "fork_copy" \in ForkLabel
    BY <2>1 DEF Label, Preemptible, Locked, TicksLocked, ForkLabel, Pos
  <2>4. ptlock # c /\ tickslock # c
    BY <1>0, <2>1, Holds, Zenon DEF Locked, TicksLocked
  <2>5. LockOwner' /\ Running' /\ Stopped' /\ Forking'
    BY <1>0, <1>2, <2>1, <2>3, <2>4, Move, Zenon DEF Woken
  <2> QED
    BY <2>2, <2>5 DEF ProcInv
<1>3. ASSUME NEW l \in {"sysret", "fork_copy"},
             NEW sq \in ProcState, NEW kq \in BOOLEAN, NEW pq \in Label, NEW rq \in Resume,
             parent' = parent,
             state' = [state EXCEPT ![q] = sq], kstack' = [kstack EXCEPT ![q] = kq],
             pc' = [pc EXCEPT ![q] = pq, ![p] = l], ret' = [ret EXCEPT ![q] = rq],
             np' = [np EXCEPT ![p] = IF l = "fork_copy" THEN q ELSE NoProc],
             \/ sq = "UNUSED" /\ pq = "none" /\ l = "sysret"
             \/ sq = "EMBRYO" /\ l = "fork_copy" /\ pq = "resume" /\ rq = "forkret" /\ kq
             \/ sq = "RUNNABLE" /\ l = "sysret" /\ pq = "resume" /\ rq = "forkret" /\ kq
      PROVE  ProcInv'
  <2>1. TypeOK'
    BY <1>0, <1>1, <1>3, Zenon DEF ProcInv, TypeOK, Label, Preemptible
  <2>2. /\ pc'[p] = l /\ \A r \in Slot \ {p, q} : pc'[r] = pc[r]
        /\ pc'[q] = pq /\ state'[q] = sq /\ kstack'[q] = kq /\ ret'[q] = rq
    BY <1>1, <1>3, Zenon DEF ProcInv, TypeOK
  <2>3. \A r \in Slot \ {q} : state'[r] = state[r] /\ ret'[r] = ret[r] /\ kstack'[r] = kstack[r]
    BY <1>1, <1>3, Zenon DEF ProcInv, TypeOK
  <2>4. /\ \A r \in Slot \ {p} : np'[r] = np[r]
        /\ np'[p] = IF l = "fork_copy" THEN q ELSE NoProc
    BY <1>3, Zenon DEF ProcInv, TypeOK
  <2>5. \/ state'[q] = "UNUSED" /\ pc'[q] = "none" /\ l = "sysret"
        \/ /\ state'[q] = "EMBRYO" /\ l = "fork_copy"
           /\ pc'[q] = "resume" /\ ret'[q] = "forkret" /\ kstack'[q]
        \/ /\ state'[q] = "RUNNABLE" /\ l = "sysret"
           /\ pc'[q] = "resume" /\ ret'[q] = "forkret" /\ kstack'[q]
    BY <1>3, <2>2, SMTT(30)
  <2>6. EmbryoMove(p, l, q)
    BY <1>0, <2>2, <2>3, <2>4, <2>5, Zenon DEF EmbryoMove, q
  <2>7. LockOwner' /\ Running' /\ Stopped' /\ Forking'
    BY <1>0, <2>6, EmbryoStep, Zenon
  <2> QED
    BY <2>1, <2>7 DEF ProcInv
<1>4. state[q] = "EMBRYO" /\ q = np[p]
  BY <1>0, MyEmbryo, Zenon DEF q
<1>5. CASE /\ pc[p] = "fork_kalloc" /\ UNCHANGED <<state, np, parent>>
           /\ kstack' = [kstack EXCEPT ![q] = TRUE]
           /\ pc' = [pc EXCEPT ![q] = "resume", ![p] = "fork_copy"]
           /\ ret' = [ret EXCEPT ![q] = "forkret"]
  <2>1. /\ state' = [state EXCEPT ![q] = "EMBRYO"]
        /\ np' = [np EXCEPT ![p] = IF "fork_copy" = "fork_copy" THEN q ELSE NoProc]
    BY <1>1, <1>4, <1>5, Zenon DEF ProcInv, TypeOK
  <2>2. "EMBRYO" \in ProcState /\ "resume" \in Label /\ "forkret" \in Resume
    BY Zenon DEF ProcState, Label, Locked, Resume
  <2> QED
    BY <1>3, <1>5, <2>1, <2>2, Zenon
<1>6. CASE /\ pc[p] = "fork_kalloc" /\ UNCHANGED <<kstack, ret, parent>>
           /\ state' = [state EXCEPT ![q] = "UNUSED"]
           /\ np' = [np EXCEPT ![p] = NoProc]
           /\ pc' = [pc EXCEPT ![p] = "sysret"]
  <2>1. /\ pc' = [pc EXCEPT ![q] = "none", ![p] = "sysret"]
        /\ kstack' = [kstack EXCEPT ![q] = kstack[q]] /\ kstack[q] \in BOOLEAN
        /\ ret' = [ret EXCEPT ![q] = ret[q]] /\ ret[q] \in Resume
        /\ np' = [np EXCEPT ![p] = IF "sysret" = "fork_copy" THEN q ELSE NoProc]
    BY <1>1, <1>6, Zenon DEF ProcInv, TypeOK
  <2>2. "UNUSED" \in ProcState /\ "none" \in Label
    BY DEF ProcState, Label
  <2>3. PICK rq \in Resume : ret' = [ret EXCEPT ![q] = rq]
    BY ONLY <2>1
  <2>4. kstack' = [kstack EXCEPT ![q] = TRUE] \/ kstack' = [kstack EXCEPT ![q] = FALSE]
    BY <1>1, <2>1, Zenon DEF ProcInv, TypeOK
  <2>5. CASE kstack' = [kstack EXCEPT ![q] = TRUE]
    BY ONLY <1>3, <1>6, <2>1, <2>2, <2>3, <2>5, Zenon
  <2>6. CASE kstack' = [kstack EXCEPT ![q] = FALSE]
    BY ONLY <1>3, <1>6, <2>1, <2>2, <2>3, <2>6, Zenon
  <2> QED
    BY <2>4, <2>5, <2>6
<1>7. CASE /\ pc[p] = "fork_copy" /\ UNCHANGED parent
           /\ kstack' = [kstack EXCEPT ![q] = FALSE]
           /\ state' = [state EXCEPT ![q] = "UNUSED"]
           /\ pc' = [pc EXCEPT ![q] = "none", ![p] = "sysret"]
           /\ ret' = [ret EXCEPT ![q] = "none"]
           /\ np' = [np EXCEPT ![p] = NoProc]
  <2>1. np' = [np EXCEPT ![p] = IF "sysret" = "fork_copy" THEN q ELSE NoProc]
    BY <1>7
  <2>2. "UNUSED" \in ProcState /\ "none" \in Label /\ "none" \in Resume
    BY DEF ProcState, Label, Resume
  <2> QED
    BY <1>3, <1>7, <2>1, <2>2, Zenon
<1>8. CASE /\ pc[p] = "fork_run" /\ UNCHANGED <<parent, kstack, ret>>
           /\ state' = [state EXCEPT ![q] = "RUNNABLE"]
           /\ np' = [np EXCEPT ![p] = NoProc]
           /\ pc' = [pc EXCEPT ![p] = "sysret"]
  <2>1. /\ pc' = [pc EXCEPT ![q] = "resume", ![p] = "sysret"]
        /\ kstack' = [kstack EXCEPT ![q] = TRUE]
        /\ ret' = [ret EXCEPT ![q] = "forkret"]
        /\ np' = [np EXCEPT ![p] = IF "sysret" = "fork_copy" THEN q ELSE NoProc]
    BY <1>1, <1>8, Zenon DEF ProcInv, TypeOK
  <2>2. "RUNNABLE" \in ProcState /\ "resume" \in Label /\ "forkret" \in Resume
    BY DEF ProcState, Label, Locked, Resume
  <2> QED
    BY <1>3, <1>8, <2>1, <2>2, Zenon
<1>9. CASE ForkKalloc(c, p)
  BY <1>4, <1>5, <1>6, <1>9, Zenon DEF ForkKalloc, At, Goto
<1>10. CASE ForkCopy(c, p)
  BY <1>2, <1>4, <1>7, <1>10, Zenon DEF ForkCopy, At
<1>11. CASE ForkRun(c, p)
  BY <1>4, <1>8, <1>11, Zenon DEF ForkRun, At, Goto
<1> QED
  BY <1>9, <1>10, <1>11, Zenon

-----------------------------------------------------------------------------
(* exit, wait, sleep and kill; the theorems.                               *)

(* What wakeup1 and kill do to the state column.                           *)
LEMMA WakeFacts ==
  ASSUME NEW s \in [Slot -> ProcState], NEW ch
  PROVE  /\ wakeup1(s, ch) \in [Slot -> ProcState]
         /\ \A q \in Slot : \/ wakeup1(s, ch)[q] = s[q]
                            \/ s[q] = "SLEEPING" /\ wakeup1(s, ch)[q] = "RUNNABLE"
BY DEF wakeup1, ProcState

(* A process that runs with the CPU's interrupts off goes to sched.        *)
LEMMA LeaveCpu ==
  ASSUME ProcInv, NEW c \in CPU, NEW p \in Slot,
         proc[c] = p, intr[c] = "none", pc[p] \notin {"sched", "resume"} \cup ForkLabel,
         pc' = [pc EXCEPT ![p] = "sched"],
         NEW r, ret' = [ret EXCEPT ![p] = r],
         \A q \in Slot \ {p} : Woken(q),
         \/ state'[p] = "SLEEPING" /\ r \in {"in_wait", "in_sleep"}
         \/ state'[p] = "ZOMBIE" /\ r = "zombie",
         UNCHANGED <<kstack, np, proc, scan, intr>>,
         ptlock' = c,
         ptlock = NoCpu \/ ptlock = c,
         \/ tickslock # c /\ tickslock' = tickslock
         \/ tickslock = c /\ tickslock' = NoCpu
  PROVE  LockOwner' /\ Running' /\ Stopped' /\ Forking'
<1> USE DEF ProcInv
<1>1. pc'[p] = "sched" /\ \A q \in Slot \ {p} : pc'[q] = pc[q]
  BY Zenon DEF TypeOK
<1>2. ret'[p] = r /\ \A q \in Slot \ {p} : ret'[q] = ret[q]
  BY Zenon DEF TypeOK
<1>3. LockOwner'
  <2>1. \A d \in CPU \ {c} : (ptlock' = d <=> ptlock = d) /\ (tickslock' = d <=> tickslock = d)
    BY ProcAssumption, Zenon
  <2>2. tickslock' # c /\ "sched" \in Locked /\ "sched" \notin TicksLocked
    BY ProcAssumption DEF Locked, TicksLocked
  <2>3. /\ \A q \in Slot \ {p} : OnCpu(q) => pc'[q] = pc[q]
        /\ intr'[c] = "none" /\ \A d \in CPU \ {c} : intr'[d] = intr[d]
        /\ UNCHANGED <<proc, scan>>
    BY <1>1, Zenon
  <2> QED
    BY <1>1, <2>1, <2>2, <2>3, LockThread, Zenon
<1>4. /\ Pos(p) = pc[p] /\ Pos(p) \notin ForkLabel /\ Pos(p)' = r /\ r \notin ForkLabel
      /\ Pos(p) # "fork_kalloc" /\ r # "fork_kalloc"
  BY <1>1, <1>2, Zenon DEF Pos, ForkLabel
<1>5. "sched" \in Label \ {"none", "resume"}
  BY ONLY TRUE DEF Label, Locked
<1>6. Running' /\ Stopped' /\ Forking'
  <2>1. \A q \in Slot \ {p} : Woken(q) /\ ret'[q] = ret[q]
    BY <1>2, Zenon
  <2>2. \/ state'[p] = "SLEEPING" /\ ret'[p] \in {"in_wait", "in_sleep"}
        \/ state'[p] = "ZOMBIE" /\ ret'[p] = "zombie"
    BY <1>2, Zenon
  <2> QED
    BY <1>4, <1>5, <2>1, <2>2, ThreadStep, Zenon
<1> QED
  BY <1>3, <1>6, Zenon

(* exit.                                                                   *)
LEMMA ExitStep ==
  ASSUME ProcInv, NEW c \in CPU, NEW p \in Slot, exit(c, p)
  PROVE  ProcInv'
<1> USE DEF ProcInv
<1>1. /\ proc[c] = p /\ intr[c] = "none" /\ pc[p] = "exit"
      /\ ptlock = NoCpu /\ ptlock' = c
      /\ state' = ExitState(p) /\ parent' = Abandon(p)
      /\ ret' = [ret EXCEPT ![p] = "zombie"]
      /\ pc' = [pc EXCEPT ![p] = "sched"]
      /\ UNCHANGED <<pid, chan, killed, kstack, np, due, nextpid, tickslock, proc, scan, intr>>
  BY Zenon DEF exit, acquire, At, Goto, cpus
<1>2. /\ state' \in [Slot -> ProcState] /\ state'[p] = "ZOMBIE"
      /\ \A q \in Slot \ {p} : Woken(q)
  <2> DEFINE w == wakeup1(state, parent[p])
             v == wakeup1(w, InitProc)
  <2>1. /\ w \in [Slot -> ProcState]
        /\ \A q \in Slot : w[q] = state[q] \/ (state[q] = "SLEEPING" /\ w[q] = "RUNNABLE")
    BY WakeFacts, Zenon DEF TypeOK
  <2> HIDE DEF w
  <2>2. /\ v \in [Slot -> ProcState]
        /\ \A q \in Slot : v[q] = w[q] \/ (w[q] = "SLEEPING" /\ v[q] = "RUNNABLE")
    BY <2>1, WakeFacts
  <2> HIDE DEF v
  <2>3. state' = [w EXCEPT ![p] = "ZOMBIE"] \/ state' = [v EXCEPT ![p] = "ZOMBIE"]
    BY <1>1, Zenon DEF ExitState, v, w
  <2> QED
    BY <2>1, <2>2, <2>3 DEF ProcState, Woken
<1>3. TypeOK'
  <2>1. parent' \in [Slot -> Slot \cup {NoProc}]
    BY <1>1, SlotFacts DEF Abandon, TypeOK
  <2>2. "zombie" \in Resume /\ "sched" \in Label
    BY DEF Resume, Label, Locked
  <2> QED
    BY <1>1, <1>2, <2>1, <2>2, Zenon DEF TypeOK
<1>4. tickslock # c /\ pc[p] \notin {"sched", "resume"} \cup ForkLabel
  BY <1>1, Holds, Zenon DEF TicksLocked, ForkLabel
<1>5. LockOwner' /\ Running' /\ Stopped' /\ Forking'
  BY <1>1, <1>2, <1>4, LeaveCpu, Zenon
<1> QED
  BY <1>3, <1>5

(* wait and sleep, up to the call of sched.                                *)
LEMMA SleepStep ==
  ASSUME ProcInv, NEW c \in CPU, NEW p \in Slot, WaitSleep(c, p) \/ sleep(c, p)
  PROVE  ProcInv'
<1> USE DEF ProcInv
<1>1. PICK r \in {"in_wait", "in_sleep"}, ch \in Slot \cup {TicksChan} :
      /\ proc[c] = p /\ intr[c] = "none" /\ pc[p] \in {"wait_scan", "sleep_enter"}
      /\ ret' = [ret EXCEPT ![p] = r] /\ chan' = [chan EXCEPT ![p] = ch]
      /\ state' = [state EXCEPT ![p] = "SLEEPING"]
      /\ pc' = [pc EXCEPT ![p] = "sched"]
      /\ UNCHANGED <<pid, parent, killed, kstack, np, due, nextpid, proc, scan, intr>>
  BY Zenon DEF WaitSleep, sleep, GoToSleep, At, Goto, cpus
<1>2. /\ ptlock' = c /\ (ptlock = NoCpu \/ ptlock = c)
      /\ \/ tickslock # c /\ tickslock' = tickslock
         \/ tickslock = c /\ tickslock' = NoCpu
  <2>1. CASE WaitSleep(c, p)
    BY <1>1, <2>1, Holds, Zenon DEF WaitSleep, At, Locked, TicksLocked
  <2>2. CASE sleep(c, p)
    BY <1>1, <2>2, Zenon DEF sleep, acquire, release
  <2> QED
    BY <2>1, <2>2
<1>3. TypeOK'
  <2>1. r \in Resume /\ "sched" \in Label /\ "SLEEPING" \in ProcState
    BY DEF Resume, Label, Locked, ProcState
  <2> QED
    BY <1>1, <1>2, <2>1, Zenon DEF TypeOK
<1>4. /\ pc[p] \notin {"sched", "resume"} \cup ForkLabel
      /\ state'[p] = "SLEEPING" /\ \A q \in Slot \ {p} : Woken(q)
  BY <1>1, Zenon DEF ForkLabel, TypeOK, Woken
<1>5. LockOwner' /\ Running' /\ Stopped' /\ Forking'
  BY <1>1, <1>2, <1>4, LeaveCpu, Zenon
<1> QED
  BY <1>3, <1>5

(* wait up to its scan, its return without a child, and kill.              *)
LEMMA WaitKillStep ==
  ASSUME ProcInv, NEW c \in CPU, NEW p \in Slot,
         WaitAcquire(c, p) \/ WaitNone(c, p) \/ kill(c, p)
  PROVE  ProcInv'
<1> USE DEF ProcInv
<1>1. PICK l \in {"wait_scan", "sysret"} :
      /\ proc[c] = p /\ intr[c] = "none" /\ pc[p] \in {"wait", "wait_scan", "kill"}
      /\ pc' = [pc EXCEPT ![p] = l]
      /\ \/ l = "wait_scan" /\ ptlock = NoCpu /\ ptlock' = c
         \/ l = "sysret" /\ pc[p] = "wait_scan" /\ ptlock = c /\ ptlock' = NoCpu
         \/ l = "sysret" /\ pc[p] = "kill" /\ ptlock' = ptlock
      /\ UNCHANGED <<pid, parent, chan, kstack, ret, np, due, nextpid, tickslock, proc, scan, intr>>
  BY Zenon DEF WaitAcquire, WaitNone, kill, At, Goto, acquire, release, table, cpus
<1>2. /\ state' \in [Slot -> ProcState] /\ killed' \in [Slot -> BOOLEAN]
      /\ \A q \in Slot : Woken(q)
  <2>1. CASE state' = state /\ killed' = killed
    BY <2>1, Zenon DEF TypeOK, Woken
  <2>2. CASE \E q \in Slot : state' = KillState(q) /\ killed' = [killed EXCEPT ![q] = TRUE]
    BY <2>2 DEF KillState, TypeOK, ProcState, Woken
  <2> QED
    BY <2>1, <2>2, Zenon DEF WaitAcquire, WaitNone, kill, table
<1>3. /\ l \in Label \ {"none", "resume", "sched"} /\ (l \in Locked <=> l = "wait_scan")
      /\ l \notin TicksLocked /\ l \notin ForkLabel /\ Pos(p) \notin ForkLabel
      /\ l # "fork_kalloc" /\ Pos(p) # "fork_kalloc"
  BY <1>1, Zenon DEF Label, Preemptible, Locked, TicksLocked, ForkLabel, Pos
<1>4. TypeOK'
  BY <1>1, <1>2, <1>3, Zenon DEF TypeOK
<1>5. tickslock # c /\ (pc[p] = "kill" => ptlock # c) /\ pc[p] # "sched"
  BY <1>1, Holds, Zenon DEF Locked, TicksLocked
<1>6. /\ ptlock' = c <=> l \in Locked
      /\ \/ ptlock = NoCpu /\ ptlock' = c
         \/ ptlock = c /\ ptlock' = NoCpu
         \/ ptlock' = ptlock
  BY <1>1, <1>3, <1>5, ProcAssumption, Zenon
<1>7. LockOwner' /\ Running' /\ Stopped' /\ Forking'
  BY <1>1, <1>2, <1>3, <1>5, <1>6, Move, Zenon
<1> QED
  BY <1>4, <1>7

(* sys_sleep around the call of sleep.                                     *)
LEMMA SysSleepStep ==
  ASSUME ProcInv, NEW c \in CPU, NEW p \in Slot,
         sys_sleep(c, p) \/ SleepLoop(c, p) \/ SleepAgain(c, p)
  PROVE  ProcInv'
<1> USE DEF ProcInv
<1>1. PICK l \in {"sleep_loop", "sysret", "sleep_enter"} :
      /\ proc[c] = p /\ intr[c] = "none" /\ pc[p] \in {"sleep", "sleep_loop", "sleep_again"}
      /\ pc' = [pc EXCEPT ![p] = l]
      /\ \/ l = "sleep_loop" /\ tickslock = NoCpu /\ tickslock' = c
         \/ l = "sysret" /\ tickslock = c /\ tickslock' = NoCpu
         \/ l = "sleep_enter" /\ pc[p] = "sleep_loop" /\ tickslock' = tickslock
      /\ UNCHANGED <<table, ret, np, nextpid, ptlock, proc, scan, intr>>
  BY Zenon DEF sys_sleep, SleepLoop, SleepAgain, At, Goto, acquire, release, cpus
<1>2. due' \in [Slot -> 0..MaxSleep]
  <2>1. due' = due \/ \E k \in 0..MaxSleep : due' = [due EXCEPT ![p] = k]
    BY ProcAssumption DEF sys_sleep, SleepLoop, SleepAgain
  <2> QED
    BY <2>1, Zenon DEF TypeOK
<1>3. /\ l \in Label \ {"none", "resume", "sched"} /\ l \notin Locked
      /\ (l \in TicksLocked <=> l # "sysret") /\ l \notin ForkLabel /\ Pos(p) \notin ForkLabel
      /\ l # "fork_kalloc" /\ Pos(p) # "fork_kalloc"
  BY <1>1, Zenon DEF Label, Preemptible, Locked, TicksLocked, ForkLabel, Pos
<1>4. TypeOK'
  BY <1>1, <1>2, <1>3, Zenon DEF TypeOK, table
<1>5. ptlock # c /\ (pc[p] = "sleep_loop" => tickslock = c) /\ pc[p] # "sched"
  BY <1>1, Holds, Zenon DEF Locked, TicksLocked
<1>6. /\ tickslock' = c <=> l \in TicksLocked
      /\ \/ tickslock = NoCpu /\ tickslock' = c
         \/ tickslock = c /\ tickslock' = NoCpu
         \/ tickslock' = tickslock
  BY <1>1, <1>3, <1>5, ProcAssumption, Zenon
<1>7. UNCHANGED <<state, kstack>> /\ \A q \in Slot : Woken(q)
  BY <1>1, Zenon DEF table, Woken
<1>8. LockOwner' /\ Running' /\ Stopped' /\ Forking'
  BY <1>1, <1>3, <1>5, <1>6, <1>7, Move, Zenon
<1> QED
  BY <1>4, <1>8

(* wait reaps a zombie: it is on no CPU, since its CPU would hold           *)
(* ptable.lock until sched has left its stack.                             *)
LEMMA ReapStep ==
  ASSUME ProcInv, NEW c \in CPU, NEW p \in Slot, WaitReap(c, p)
  PROVE  ProcInv'
<1> USE DEF ProcInv
<1>1. /\ proc[c] = p /\ intr[c] = "none" /\ pc[p] = "wait_scan"
      /\ ptlock = c /\ ptlock' = NoCpu
      /\ UNCHANGED <<chan, np, due, nextpid, tickslock, proc, scan, intr>>
  BY Zenon DEF WaitReap, At, release, cpus
<1>2. PICK q \in Slot :
        /\ state[q] = "ZOMBIE"
        /\ kstack' = [kstack EXCEPT ![q] = FALSE]
        /\ state' = [state EXCEPT ![q] = "UNUSED"]
        /\ pid' = [pid EXCEPT ![q] = 0]
        /\ parent' = [parent EXCEPT ![q] = NoProc]
        /\ killed' = [killed EXCEPT ![q] = FALSE]
        /\ pc' = [pc EXCEPT ![q] = "none", ![p] = "sysret"]
        /\ ret' = [ret EXCEPT ![q] = "none"]
  BY Zenon DEF WaitReap, ZombieChild
<1>3. /\ state[p] = "RUNNING" /\ q # p /\ \A d \in CPU : proc[d] = p => d = c
      /\ \A r \in Slot : np[r] # p
  BY <1>1, <1>2, OnThisCpu, Zenon
<1>4. ~OnCpu(q)
  <2> SUFFICES ASSUME NEW d \in CPU, proc[d] = q PROVE FALSE
    BY DEF OnCpu
  <2>1. d # c /\ pc[q] = "sched" /\ q # NoProc
    BY <1>1, <1>2, <1>3, SlotFacts, Zenon DEF Running
  <2> QED
    BY <1>1, <2>1, Zenon DEF LockOwner, Locked
<1>5. TypeOK'
  <2>1. "UNUSED" \in ProcState /\ "none" \in Label /\ "sysret" \in Label /\ "none" \in Resume
    BY DEF ProcState, Label, Preemptible, Resume
  <2> QED
    BY <1>1, <1>2, <1>3, <2>1, Zenon DEF TypeOK
<1>6. /\ pc'[p] = "sysret" /\ pc'[q] = "none" /\ \A r \in Slot \ {p, q} : pc'[r] = pc[r]
      /\ state'[q] = "UNUSED" /\ \A r \in Slot \ {q} : state'[r] = state[r]
      /\ \A r \in Slot \ {q} : ret'[r] = ret[r] /\ kstack'[r] = kstack[r]
  BY <1>2, <1>3, Zenon DEF TypeOK
<1>7. LockOwner'
  <2>1. \A r \in Slot \ {p} : OnCpu(r) => pc'[r] = pc[r]
    BY <1>4, <1>6, Zenon
  <2>2. /\ \A d \in CPU \ {c} : ptlock' = d <=> ptlock = d
        /\ ptlock' # c /\ "sysret" \notin Locked /\ "sysret" \notin TicksLocked
    BY <1>1, ProcAssumption, Zenon DEF Locked, TicksLocked
  <2>3. tickslock # c
    BY <1>1, Holds, Zenon DEF TicksLocked
  <2> QED
    BY <1>1, <1>6, <2>1, <2>2, <2>3, LockThread, Zenon
<1>8. /\ \A r \in Slot : OnCpu(r)' <=> OnCpu(r)
      /\ OnCpu(p) /\ \A d \in CPU : proc[d] # NoProc => proc[d] \in Slot \ {q}
  BY <1>1, <1>4, Zenon DEF OnCpu, TypeOK
<1>9. Running'
  <2>1. \A d \in CPU : proc'[d] # NoProc =>
          IF pc'[proc'[d]] = "sched"
          THEN state'[proc'[d]] \in {"RUNNABLE", "SLEEPING", "ZOMBIE"}
          ELSE state'[proc'[d]] = "RUNNING"
    <3> SUFFICES ASSUME NEW d \in CPU, proc[d] # NoProc
                 PROVE  IF pc'[proc[d]] = "sched"
                        THEN state'[proc[d]] \in {"RUNNABLE", "SLEEPING", "ZOMBIE"}
                        ELSE state'[proc[d]] = "RUNNING"
      BY <1>1, Zenon
    <3>1. PICK r \in Slot \ {q} : r = proc[d]
      BY <1>8
    <3>2. IF pc[r] = "sched" THEN state[r] \in {"RUNNABLE", "SLEEPING", "ZOMBIE"}
                             ELSE state[r] = "RUNNING"
      BY <3>1, Zenon DEF Running
    <3> QED
      BY ONLY <1>3, <1>6, <3>1, <3>2
  <2>2. \A r \in Slot : state'[r] = "RUNNING" => OnCpu(r)'
    BY <1>6, <1>8, Zenon DEF Running
  <2> QED
    BY <1>1, <2>1, <2>2, Zenon DEF Running
<1>10. Stopped'
  <2> SUFFICES ASSUME NEW r \in Slot
               PROVE  /\ ~OnCpu(r)' => pc'[r] \in {"none", "resume"}
                      /\ state'[r] \notin {"UNUSED", "EMBRYO"} => kstack'[r] /\ pc'[r] # "none"
                      /\ state'[r] = "UNUSED" => pc'[r] = "none"
                      /\ state'[r] = "RUNNABLE" => ret'[r] \notin {"none", "zombie"}
                      /\ state'[r] = "SLEEPING" => ret'[r] \in {"in_wait", "in_sleep"}
                      /\ state'[r] = "ZOMBIE" => ret'[r] = "zombie"
    BY Zenon DEF Stopped
  <2>1. CASE r = p
    BY <1>3, <1>6, <1>8, <2>1, Zenon DEF Stopped
  <2>2. CASE r = q
    BY <1>6, <2>2, Zenon
  <2>3. CASE r \notin {p, q}
    <3>1. /\ ~OnCpu(r) => pc[r] \in {"none", "resume"}
          /\ state[r] \notin {"UNUSED", "EMBRYO"} => kstack[r] /\ pc[r] # "none"
          /\ state[r] = "UNUSED" => pc[r] = "none"
          /\ state[r] = "RUNNABLE" => ret[r] \notin {"none", "zombie"}
          /\ state[r] = "SLEEPING" => ret[r] \in {"in_wait", "in_sleep"}
          /\ state[r] = "ZOMBIE" => ret[r] = "zombie"
      BY Zenon DEF Stopped
    <3> QED
      BY ONLY <1>6, <1>8, <2>3, <3>1, Zenon
  <2> QED
    BY <2>1, <2>2, <2>3, Zenon
<1>11. Forking'
  <2>1. np[q] = NoProc
    BY <1>2, <1>4, Zenon DEF Stopped, Forking, Pos, ForkLabel
  <2>2. /\ Pos(p) \notin ForkLabel /\ Pos(p)' \notin ForkLabel /\ Pos(q)' \notin ForkLabel
        /\ \A r \in Slot \ {p, q} : Pos(r)' = Pos(r)
    BY <1>1, <1>6, Zenon DEF Pos, ForkLabel
  <2>3. \A r \in Slot : np[r] # NoProc => np[r] \in Slot \ {p, q}
    BY <1>2, <1>3, Zenon DEF TypeOK, Forking
  <2>4. ASSUME NEW r \in Slot
        PROVE  IF Pos(r)' \in ForkLabel
               THEN /\ np'[r] # NoProc /\ state'[np'[r]] = "EMBRYO"
                    /\ IF Pos(r)' = "fork_kalloc" THEN pc'[np'[r]] = "none"
                       ELSE pc'[np'[r]] = "resume" /\ ret'[np'[r]] = "forkret" /\ kstack'[np'[r]]
               ELSE np'[r] = NoProc
    <3>1. IF Pos(r) \in ForkLabel
          THEN /\ np[r] # NoProc /\ state[np[r]] = "EMBRYO"
               /\ IF Pos(r) = "fork_kalloc" THEN pc[np[r]] = "none"
                  ELSE pc[np[r]] = "resume" /\ ret[np[r]] = "forkret" /\ kstack[np[r]]
          ELSE np[r] = NoProc
      BY Zenon DEF Forking
    <3>2. np' = np
      BY <1>1, Zenon
    <3>3. CASE r \in {p, q}
      BY ONLY <2>1, <2>2, <3>1, <3>2, <3>3
    <3>4. CASE r \notin {p, q}
      <4>1. Pos(r)' = Pos(r)
        BY <2>2, <3>4, Zenon
      <4>2. np[r] # NoProc => /\ state'[np[r]] = state[np[r]] /\ pc'[np[r]] = pc[np[r]]
                             /\ ret'[np[r]] = ret[np[r]] /\ kstack'[np[r]] = kstack[np[r]]
        BY <1>6, <2>3, Zenon
      <4> QED
        BY ONLY <3>1, <3>2, <4>1, <4>2, Zenon
    <3> QED
      BY <3>3, <3>4, Zenon
  <2>5. \A r, s \in Slot : np'[r] # NoProc /\ np'[r] = np'[s] => r = s
    BY <1>1, Zenon DEF Forking
  <2> QED
    BY <2>4, <2>5, Zenon DEF Forking
<1> QED
  BY <1>5, <1>7, <1>9, <1>10, <1>11

(* The machine starts in the invariant.                                    *)
LEMMA ProcInit == Init => ProcInv
<1> SUFFICES ASSUME Init PROVE ProcInv
  OBVIOUS
<1> USE SlotFacts DEF Init
<1>1. TypeOK
  BY ProcAssumption DEF TypeOK, ProcState, Label, Locked, Resume, InitPid, TicksChan
<1>2. LockOwner
  BY ProcAssumption DEF LockOwner
<1>3. Running
  BY Zenon DEF Running, OnCpu
<1>4. Stopped
  BY Zenon DEF Stopped, OnCpu
<1>5. Forking
  BY Zenon DEF Forking, Pos, ForkLabel
<1> QED
  BY <1>1, <1>2, <1>3, <1>4, <1>5, Zenon DEF ProcInv

(* Every step of every CPU keeps the invariant.                            *)
LEMMA ProcNext == ProcInv /\ [Next]_vars => ProcInv'
<1> SUFFICES ASSUME ProcInv, [Next]_vars PROVE ProcInv'
  BY Zenon
<1>1. CASE UNCHANGED vars
  <2> USE <1>1 DEF vars, ProcInv
  <2>1. TypeOK' /\ LockOwner'
    BY Zenon DEF TypeOK, LockOwner
  <2>2. Running' /\ Stopped' /\ Forking'
    BY IdleStep DEF Woken
  <2> QED
    BY <2>1, <2>2
<1>2. ASSUME NEW c \in CPU, CpuStep(c) PROVE ProcInv'
  <2>1. CASE SchedAcquire(c) \/ SchedRelease(c)
    BY <2>1, SchedLockStep
  <2>2. ASSUME NEW p \in Slot, SchedSwitch(c, p) PROVE ProcInv'
    BY <2>2, SchedSwitchStep
  <2>3. ASSUME NEW p \in Slot, ProcStep(c, p) PROVE ProcInv'
    <3>1. CASE sched(c, p) \/ Resumed(c, p)
      BY <3>1, SchedStep, ResumedStep
    <3>2. CASE Syscall(c, p) \/ Sysret(c, p) \/ Fault(c, p)
      BY <3>2, TrapStepInv
    <3>3. CASE allocproc(c, p)
      BY <3>3, AllocStep
    <3>4. CASE ForkKalloc(c, p) \/ ForkCopy(c, p) \/ ForkRun(c, p)
      BY <3>4, ForkStep
    <3>5. CASE exit(c, p)
      BY <3>5, ExitStep
    <3>6. CASE WaitAcquire(c, p) \/ WaitNone(c, p) \/ kill(c, p)
      BY <3>6, WaitKillStep
    <3>7. CASE WaitReap(c, p)
      BY <3>7, ReapStep
    <3>8. CASE WaitSleep(c, p) \/ sleep(c, p)
      BY <3>8, SleepStep, Zenon
    <3>9. CASE sys_sleep(c, p) \/ SleepLoop(c, p) \/ SleepAgain(c, p)
      BY <3>9, SysSleepStep
    <3> QED
      BY <2>3, <3>1, <3>2, <3>3, <3>4, <3>5, <3>6, <3>7, <3>8, <3>9, Zenon DEF ProcStep
  <2> QED
    BY <1>2, <2>1, <2>2, <2>3 DEF CpuStep
<1>3. ASSUME NEW c \in CPU, Timer(c) \/ TrapStep(c) PROVE ProcInv'
  <2>1. CASE Timer(c) \/ Tick(c) \/ TickWakeup(c)
    BY <2>1, TimerStep
  <2>2. CASE TrapTail(c)
    BY <2>2, TrapTailStep
  <2>3. CASE \E p \in Slot : yield(c, p)
    BY <2>3, YieldStep
  <2> QED
    BY <1>3, <2>1, <2>2, <2>3 DEF TrapStep
<1> QED
  BY <1>1, <1>2, <1>3 DEF Next

-----------------------------------------------------------------------------
(* For any number of CPUs and slots, the locks are held where the code      *)
(* believes they are, and every process is where its state says.           *)
THEOREM ProcInvariance == Spec => []ProcInv
BY ProcInit, ProcNext, PTL DEF Spec

(* scheduler and sched never let a process run on two CPUs, and the state  *)
(* column agrees with the CPUs whenever ptable.lock is free.               *)
THEOREM ProcOneCpu == Spec => []OneCpuPerProc
<1>1. ProcInv => OneCpuPerProc
  <2> SUFFICES ASSUME ProcInv PROVE OneCpuPerProc
    OBVIOUS
  <2>1. ASSUME ptlock = NoCpu, NEW p \in Slot, NEW c \in CPU, proc[c] = p
        PROVE  state[p] = "RUNNING"
    BY <2>1, SlotFacts, ProcAssumption, Zenon DEF ProcInv, LockOwner, Running, Locked
  <2> QED
    BY <2>1, Zenon DEF ProcInv, Running, OneCpuPerProc, OnCpu
<1> QED
  BY <1>1, ProcInvariance, PTL

(* wait never frees the kernel stack of a process that is still on a CPU,  *)
(* and what the scheduler may pick has a stack and a saved context.        *)
THEOREM ProcKstack == Spec => []KstackSafe
<1>1. ProcInv => KstackSafe
  <2> SUFFICES ASSUME ProcInv, NEW p \in Slot
               PROVE  /\ OnCpu(p) => kstack[p] /\ state[p] \notin {"UNUSED", "EMBRYO"}
                      /\ state[p] = "RUNNABLE" /\ ~OnCpu(p) =>
                           kstack[p] /\ pc[p] = "resume" /\ ret[p] \notin {"none", "zombie"}
    BY Zenon DEF KstackSafe
  <2>1. OnCpu(p) => state[p] \notin {"UNUSED", "EMBRYO"}
    BY SlotFacts, Zenon DEF ProcInv, Running, OnCpu
  <2> QED
    BY <2>1, Zenon DEF ProcInv, Stopped
<1> QED
  BY <1>1, ProcInvariance, PTL

(* The checks that sched makes before swtch never fail.                    *)
THEOREM ProcSched == Spec => []SchedChecks
<1>1. ProcInv => SchedChecks
  BY SlotFacts DEF ProcInv, LockOwner, Running, SchedChecks, Locked, TicksLocked, Preemptible
<1> QED
  BY <1>1, ProcInvariance, PTL
=============================================================================
