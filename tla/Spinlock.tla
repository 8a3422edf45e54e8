------------------------------ MODULE Spinlock ------------------------------
(***************************************************************************)
(* Spin locks and the nesting of cli (spinlock.c), with the interrupts that *)
(* come while they are on and the switches between kernel threads that      *)
(* carry ptable.lock from one thread to the next (proc.c).  The lock is     *)
(* ptable.lock; the steps of acquire and release are single instructions.   *)
(* A CPU also names its scheduler thread.                                   *)
(***************************************************************************)
EXTENDS Integers

CONSTANTS Cpu, Proc, NoCpu

ASSUME SpinlockAssumption == Cpu \cap Proc = {} /\ NoCpu \notin Cpu

Thread == Cpu \cup Proc

VARIABLES
  cpu,           \* fl: eflags & FL_IF; ncli; intena
  locked, lcpu,  \* lk->locked, lk->cpu
  run,           \* the thread on each CPU
  pc,            \* where a thread is in acquire and release; "swtch": not running
  irq,           \* the thread is in an interrupt handler
  intena0,       \* the local intena of sched
  born, fresh    \* processes never switched to; not yet through trapret

vars == <<cpu, locked, lcpu, run, pc, irq, intena0, born, fresh>>

Init ==
  /\ cpu = [c \in Cpu |-> [fl |-> FALSE, ncli |-> 0, intena |-> FALSE]]
  /\ locked = FALSE /\ lcpu = NoCpu
  /\ run = [c \in Cpu |-> c]
  /\ pc = [t \in Thread |-> IF t \in Cpu THEN "out" ELSE "swtch"]
  /\ irq = [t \in Thread |-> FALSE]
  /\ intena0 = [p \in Proc |-> FALSE]
  /\ born = Proc /\ fresh = Proc

At(c, l) == pc[run[c]] = l
Goto(c, l) == pc' = [pc EXCEPT ![run[c]] = l]

holding(c) == locked /\ lcpu = c

(* pushcli and popcli, as functions of a struct cpu.                       *)
pushcli(k) ==
  [fl |-> FALSE, ncli |-> k.ncli + 1, intena |-> IF k.ncli = 0 THEN k.fl ELSE k.intena]
PopBad(k) == k.fl \/ k.ncli < 1
popcli(k) == [fl |-> k.ncli = 1 /\ k.intena, ncli |-> k.ncli - 1, intena |-> k.intena]
Flag(k, v) == [fl |-> v, ncli |-> k.ncli, intena |-> k.intena]       \* sti, cli

-----------------------------------------------------------------------------
(* acquire                                                                 *)
AcquireCli(c) ==
  /\ At(c, "out")
  /\ run[c] = c => cpu[c].fl \/ irq[c]      \* after the sti of scheduler
  /\ cpu' = [cpu EXCEPT ![c] = pushcli(@)] /\ Goto(c, "test")
  /\ UNCHANGED <<locked, lcpu, run, irq, intena0, born, fresh>>

AcquireTest(c) ==
  /\ At(c, "test")
  /\ ~holding(c) /\ Goto(c, "spin")
  /\ UNCHANGED <<cpu, locked, lcpu, run, irq, intena0, born, fresh>>

AcquireXchg(c) ==
  /\ At(c, "spin") /\ ~locked
  /\ locked' = TRUE /\ Goto(c, "own")
  /\ UNCHANGED <<cpu, lcpu, run, irq, intena0, born, fresh>>

AcquireCpu(c) ==
  /\ At(c, "own")
  /\ lcpu' = c /\ Goto(c, "in")
  /\ UNCHANGED <<cpu, locked, run, irq, intena0, born, fresh>>

(* release.  In the model a thread whose test would panic stays where it is. *)
M_ReleaseTest_KeepsCpu(c) ==
  /\ At(c, "in")
  /\ holding(c) /\ Goto(c, "rel")
  /\ UNCHANGED <<cpu, locked, lcpu, run, irq, intena0, born, fresh>>
ReleaseTest(c) ==
  /\ At(c, "in")
  /\ holding(c) /\ lcpu' = NoCpu /\ Goto(c, "rel")
  /\ UNCHANGED <<cpu, locked, run, irq, intena0, born, fresh>>

ReleaseXchg(c) ==
  /\ At(c, "rel")
  /\ locked' = FALSE /\ Goto(c, "pop")
  /\ UNCHANGED <<cpu, lcpu, run, irq, intena0, born, fresh>>

ReleaseCli(c) ==
  /\ At(c, "pop")
  /\ ~PopBad(cpu[c])
  /\ cpu' = [cpu EXCEPT ![c] = popcli(@)] /\ Goto(c, "out")
  /\ UNCHANGED <<locked, lcpu, run, irq, intena0, born, fresh>>

(* Another lock taken and released inside, as wakeup does under tickslock. *)
Nest(c) ==
  /\ At(c, "in")
  /\ ~PopBad(pushcli(cpu[c]))
  /\ cpu' = [cpu EXCEPT ![c] = popcli(pushcli(@))]
  /\ UNCHANGED <<locked, lcpu, run, pc, irq, intena0, born, fresh>>

-----------------------------------------------------------------------------
(* scheduler: sti at the top of its loop; the switch to a process, which   *)
(* returns from its own sched, or into forkret the first time (switchuvm   *)
(* nests a cli).                                                           *)
Sti(c) ==
  /\ At(c, "out") /\ run[c] = c /\ ~irq[c] /\ ~cpu[c].fl
  /\ cpu' = [cpu EXCEPT ![c] = Flag(@, TRUE)]
  /\ UNCHANGED <<locked, lcpu, run, pc, irq, intena0, born, fresh>>

Restored(k, p) ==
  [fl |-> k.fl, ncli |-> k.ncli, intena |-> IF p \in born THEN k.intena ELSE intena0[p]]

scheduler(c, p) ==
  /\ At(c, "in") /\ run[c] = c /\ ~irq[c] /\ pc[p] = "swtch"
  /\ run' = [run EXCEPT ![c] = p]
  /\ pc' = [pc EXCEPT ![c] = "swtch", ![p] = "in"]
  /\ cpu' = [cpu EXCEPT ![c] = Restored(popcli(pushcli(@)), p)]
  /\ born' = born \ {p}
  /\ UNCHANGED <<locked, lcpu, irq, intena0, fresh>>

SchedBad(c) == ~holding(c) \/ cpu[c].ncli # 1 \/ cpu[c].fl
sched(c) ==
  /\ At(c, "in") /\ run[c] \in Proc
  /\ ~SchedBad(c)
  /\ intena0' = [intena0 EXCEPT ![run[c]] = cpu[c].intena]
  /\ pc' = [pc EXCEPT ![run[c]] = "swtch", ![c] = "in"]
  /\ run' = [run EXCEPT ![c] = c]
  /\ UNCHANGED <<cpu, locked, lcpu, irq, born, fresh>>

(* An interrupt goes through an interrupt gate, which clears IF; iret sets *)
(* it again, as trapret does on the way of a new process to user space.    *)
Interrupt(c) ==
  /\ cpu[c].fl
  /\ cpu' = [cpu EXCEPT ![c] = Flag(@, FALSE)]
  /\ irq' = [irq EXCEPT ![run[c]] = TRUE]
  /\ UNCHANGED <<locked, lcpu, run, pc, intena0, born, fresh>>

Iret(c) ==
  /\ At(c, "out")
  /\ irq[run[c]] \/ run[c] \in fresh
  /\ cpu' = [cpu EXCEPT ![c] = Flag(@, TRUE)]
  /\ irq' = [irq EXCEPT ![run[c]] = FALSE]
  /\ fresh' = IF irq[run[c]] THEN fresh ELSE fresh \ {run[c]}
  /\ UNCHANGED <<locked, lcpu, run, pc, intena0, born>>

Next ==
  \E c \in Cpu :
    \/ AcquireCli(c) \/ AcquireTest(c) \/ AcquireXchg(c) \/ AcquireCpu(c)
    \/ ReleaseTest(c) \/ ReleaseXchg(c) \/ ReleaseCli(c) \/ Nest(c)
    \/ Sti(c) \/ sched(c) \/ Interrupt(c) \/ Iret(c)
    \/ \E p \in Proc : scheduler(c, p)

Spec == Init /\ [][Next]_vars

-----------------------------------------------------------------------------
TypeOK ==
  /\ cpu \in [Cpu -> [fl : BOOLEAN, ncli : Nat, intena : BOOLEAN]]
  /\ locked \in BOOLEAN /\ lcpu \in Cpu \cup {NoCpu}
  /\ run \in [Cpu -> Thread]
  /\ pc \in [Thread -> {"out", "test", "spin", "own", "in", "rel", "pop", "swtch"}]
  /\ irq \in [Thread -> BOOLEAN] /\ intena0 \in [Proc -> BOOLEAN]
  /\ born \subseteq fresh /\ fresh \subseteq Proc

(* A thread is on one CPU at most, a scheduler on its own only, and the     *)
(* others wait in swtch.                                                   *)
OneThread ==
  /\ \A c \in Cpu : run[c] \in Proc \cup {c}
  /\ \A c, d \in Cpu : run[c] = run[d] => c = d
  /\ \A t \in Thread : pc[t] # "swtch" <=> \E c \in Cpu : run[c] = t
  /\ \A p \in born : pc[p] = "swtch"

(* Between the xchg of acquire and that of release there is one CPU, and    *)
(* the lock is free when there is none.                                    *)
Owning(c) == pc[run[c]] \in {"own", "in", "rel"}
OneOwner ==
  /\ \A c, d \in Cpu : Owning(c) /\ Owning(d) => c = d
  /\ locked <=> \E c \in Cpu : Owning(c)

(* lk->cpu names a CPU exactly while the thread on it is inside the lock,   *)
(* also when another thread took the lock and switched to this one with it: *)
(* so the test of holding never takes another's lock for one's own, and     *)
(* release and sched always find theirs.                                   *)
HoldingRight == \A c \in Cpu : lcpu = c <=> pc[run[c]] = "in"

(* No interrupt comes between the first instruction of acquire and the last *)
(* of release, nested or not: a handler that wants the lock never spins on  *)
(* its own CPU, and the tests of popcli and sched, which panic, all pass.   *)
NoInterruptInside ==
  \A c \in Cpu :
    IF pc[run[c]] = "out" THEN cpu[c].ncli = 0 ELSE ~cpu[c].fl /\ cpu[c].ncli = 1

(* A process finds interrupts as they were before it took the lock: on,     *)
(* except in a handler, whichever CPU it comes back on from sched and       *)
(* whatever the threads that ran there in between had.  Meanwhile intena,   *)
(* or the copy of it in sched, remembers which.                            *)
InterruptsRestored ==
  /\ \A c \in Cpu :
       run[c] \in Proc \ fresh =>
         (IF pc[run[c]] = "out" THEN cpu[c].fl ELSE cpu[c].intena) <=> ~irq[run[c]]
  /\ \A p \in Proc \ fresh : pc[p] = "swtch" => (intena0[p] <=> ~irq[p])

(* The inductive invariant of spinlock.c: acquire and release keep one      *)
(* owner, the one lk->cpu names, with interrupts off, through every switch. *)
SpinInv ==
  TypeOK /\ OneThread /\ OneOwner /\ HoldingRight /\ NoInterruptInside /\ InterruptsRestored
=============================================================================
