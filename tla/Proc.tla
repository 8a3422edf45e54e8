-------------------------------- MODULE Proc --------------------------------
(***************************************************************************)
(* The process table of proc.c: allocation of slots, the per-CPU           *)
(* scheduler, sched/yield, fork, exit, wait, kill, sleep and wakeup, driven *)
(* by the trap and timer paths of trap.c and by sys_sleep of sysproc.c.     *)
(*                                                                         *)
(* A process is its slot number.  Its kernel thread is a program counter    *)
(* pc[p]; the code a process resumes at once the scheduler has switched to  *)
(* it is ret[p] (what its kernel stack holds).  A step of a CPU is a piece  *)
(* of code between two points where another CPU can observe or disturb it:  *)
(* a critical section under ptable.lock that neither sleeps nor switches is *)
(* one step; every access made without the lock is a step of its own.       *)
(* ptable.lock is held across swtch, by the CPU, as in the code.            *)
(***************************************************************************)
EXTENDS Integers

CONSTANTS
  NPROC,      \* number of slots of ptable.proc
  CPU,        \* the processors
  BootCpu,    \* the one with cpu->id == 0: it counts the clock ticks
  NoCpu,      \* a lock that nobody holds
  Calls,      \* system calls the user programs make
  MaxPid,     \* bound on nextpid
  MaxSleep    \* bound on the argument of the sleep system call

ASSUME ProcAssumption ==
  /\ NPROC \in Nat \ {0}
  /\ BootCpu \in CPU /\ NoCpu \notin CPU
  /\ Calls \subseteq {"fork", "exit", "wait", "kill", "sleep"}
  /\ MaxPid \in Nat \ {0} /\ MaxSleep \in Nat

Slot == 1..NPROC
NoProc == 0            \* the null struct proc*, and the null channel
InitProc == 1          \* initproc: userinit takes the first slot
InitPid == 1
TicksChan == NPROC + 1 \* the channel &ticks; a process is its own channel

VARIABLES
  state, pid, parent, chan, killed, kstack,  \* fields of struct proc
  pc, ret,    \* the kernel thread: next code to run, code to resume at
  np,         \* the local variable np of fork
  due,        \* n - (ticks - ticks0) of a process inside sys_sleep, else 0
  nextpid,
  ptlock, tickslock,  \* ptable.lock and tickslock: the CPU holding each
  proc,       \* the per-CPU variable proc
  scan,       \* scheduler's loop index; 0 before it has ptable.lock
  intr        \* progress of the timer interrupt a CPU is handling

vars == <<state, pid, parent, chan, killed, kstack, pc, ret, np, due,
          nextpid, ptlock, tickslock, proc, scan, intr>>
table == <<state, pid, parent, chan, killed, kstack>>
thread == <<pc, ret, np, due>>
cpus == <<proc, scan, intr>>

ProcState == {"UNUSED", "EMBRYO", "SLEEPING", "RUNNABLE", "RUNNING", "ZOMBIE"}

(* Code reached with interrupts enabled and no lock held: the timer can    *)
(* preempt it.                                                             *)
Preemptible == {"user", "sysret", "fork", "fork_kalloc", "fork_copy",
                "fork_run", "exit", "wait", "kill", "sleep", "sleep_again"}
Locked == {"sched", "resume", "wait_scan"}       \* ptable.lock is held
TicksLocked == {"sleep_loop", "sleep_enter"}     \* tickslock is held
Label == Preemptible \cup Locked \cup TicksLocked \cup {"none"}
Resume == Preemptible \cup {"none", "forkret", "in_wait", "in_sleep", "zombie"}

Init ==
  /\ state = [p \in Slot |-> IF p = InitProc THEN "RUNNABLE" ELSE "UNUSED"]
  /\ pid = [p \in Slot |-> IF p = InitProc THEN InitPid ELSE 0]
  /\ parent = [p \in Slot |-> NoProc]
  /\ chan = [p \in Slot |-> NoProc]
  /\ killed = [p \in Slot |-> FALSE]
  /\ kstack = [p \in Slot |-> p = InitProc]
  /\ pc = [p \in Slot |-> IF p = InitProc THEN "resume" ELSE "none"]
  /\ ret = [p \in Slot |-> IF p = InitProc THEN "forkret" ELSE "none"]
  /\ np = [p \in Slot |-> NoProc]
  /\ due = [p \in Slot |-> 0]
  /\ nextpid = InitPid + 1
  /\ ptlock = NoCpu /\ tickslock = NoCpu
  /\ proc = [c \in CPU |-> NoProc]
  /\ scan = [c \in CPU |-> 0]
  /\ intr = [c \in CPU |-> "none"]

-----------------------------------------------------------------------------
(* spinlock.c.  The spinning CPU has interrupts off: a step that acquires  *)
(* a lock is enabled once the lock is free.                                *)
M_acquire_NoTest(lk, c) == lk' = c
acquire(lk, c) == lk = NoCpu /\ lk' = c
release(lk, c) == lk = c /\ lk' = NoCpu

(* CPU c executes process p, outside any interrupt handler, at label l.    *)
At(c, p, l) == proc[c] = p /\ intr[c] = "none" /\ pc[p] = l

Goto(p, l) == pc' = [pc EXCEPT ![p] = l]

(* The state column after wakeup1(ch) has run on column s.                 *)
M_wakeup1_First(s, ch) ==
  [p \in Slot |->
     IF /\ s[p] = "SLEEPING" /\ chan[p] = ch
        /\ \A q \in Slot : s[q] = "SLEEPING" /\ chan[q] = ch => p <= q
     THEN "RUNNABLE" ELSE s[p]]
wakeup1(s, ch) ==
  [p \in Slot |-> IF s[p] = "SLEEPING" /\ chan[p] = ch THEN "RUNNABLE" ELSE s[p]]

(* sleep, once ptable.lock is held: the process p sleeps on ch, to resume  *)
(* at l.                                                                   *)
GoToSleep(p, ch, l) ==
  /\ chan' = [chan EXCEPT ![p] = ch]
  /\ state' = [state EXCEPT ![p] = "SLEEPING"]
  /\ ret' = [ret EXCEPT ![p] = l]
  /\ Goto(p, "sched")

-----------------------------------------------------------------------------
(* scheduler.  The scan of non-runnable slots up to the chosen one is part *)
(* of the step that chooses it; the index survives in scan[c] while the    *)
(* chosen process runs, and the loop goes on from there.                   *)
M_NextIndex_Restart(p) == 1
NextIndex(p) == p + 1

SchedAcquire(c) ==
  /\ proc[c] = NoProc /\ intr[c] = "none" /\ scan[c] = 0
  /\ acquire(ptlock, c)
  /\ scan' = [scan EXCEPT ![c] = 1]
  /\ UNCHANGED <<table, thread, nextpid, tickslock, proc, intr>>

SchedSwitch(c, p) ==
  /\ proc[c] = NoProc /\ intr[c] = "none" /\ scan[c] > 0
  /\ p >= scan[c] /\ state[p] = "RUNNABLE"
  /\ \A q \in Slot : scan[c] <= q /\ q < p => state[q] # "RUNNABLE"
  /\ proc' = [proc EXCEPT ![c] = p]
  /\ state' = [state EXCEPT ![p] = "RUNNING"]
  /\ scan' = [scan EXCEPT ![c] = NextIndex(p)]
  /\ UNCHANGED <<pid, parent, chan, killed, kstack, thread, nextpid, ptlock,
                 tickslock, intr>>

SchedRelease(c) ==
  /\ proc[c] = NoProc /\ intr[c] = "none" /\ scan[c] > 0
  /\ \A q \in Slot : q >= scan[c] => state[q] # "RUNNABLE"
  /\ release(ptlock, c)
  /\ scan' = [scan EXCEPT ![c] = 0]
  /\ UNCHANGED <<table, thread, nextpid, tickslock, proc, intr>>

(* sched: the process's context is saved and the CPU is back in scheduler, *)
(* which clears proc; ptable.lock stays held.                              *)
sched(c, p) ==
  /\ At(c, p, "sched")
  /\ Goto(p, "resume")
  /\ proc' = [proc EXCEPT ![c] = NoProc]
  /\ UNCHANGED <<table, ret, np, due, nextpid, ptlock, tickslock, scan, intr>>

(* What a process does when the scheduler has switched to it, ptable.lock  *)
(* still held by its CPU: the tails of forkret, yield (and of the trap that *)
(* called it) and sleep.                                                   *)
Resumed(c, p) ==
  /\ At(c, p, "resume")
  /\ \/ /\ ret[p] = "forkret"
        /\ release(ptlock, c) /\ Goto(p, "user") /\ UNCHANGED chan
     \/ /\ ret[p] \in Preemptible
        /\ release(ptlock, c)
        /\ Goto(p, IF ret[p] = "user" /\ killed[p] THEN "exit" ELSE ret[p])
        /\ UNCHANGED chan
     \/ /\ ret[p] = "in_wait"
        /\ chan' = [chan EXCEPT ![p] = NoProc]
        /\ Goto(p, "wait_scan") /\ UNCHANGED ptlock
     \/ /\ ret[p] = "in_sleep"
        /\ chan' = [chan EXCEPT ![p] = NoProc]
        /\ release(ptlock, c) /\ Goto(p, "sleep_again")
  /\ ret' = [ret EXCEPT ![p] = "none"]
  /\ UNCHANGED <<state, pid, parent, killed, kstack, np, due, nextpid,
                 tickslock, cpus>>

-----------------------------------------------------------------------------
(* trap, on a system call: a killed process exits instead.  init never     *)
(* calls exit, which would panic.                                          *)
Syscall(c, p) ==
  /\ At(c, p, "user")
  /\ \/ killed[p] /\ Goto(p, "exit")
     \/ /\ ~killed[p]
        /\ \E call \in Calls : (p = InitProc => call # "exit") /\ Goto(p, call)
  /\ UNCHANGED <<table, ret, np, due, nextpid, ptlock, tickslock, cpus>>

(* trap, after syscall() has returned.                                     *)
Sysret(c, p) ==
  /\ At(c, p, "sysret")
  /\ Goto(p, IF killed[p] THEN "exit" ELSE "user")
  /\ UNCHANGED <<table, ret, np, due, nextpid, ptlock, tickslock, cpus>>

(* trap, default case: a user program faults.                              *)
Fault(c, p) ==
  /\ At(c, p, "user") /\ p # InitProc
  /\ killed' = [killed EXCEPT ![p] = TRUE]
  /\ Goto(p, "exit")
  /\ UNCHANGED <<state, pid, parent, chan, kstack, ret, np, due, nextpid,
                 ptlock, tickslock, cpus>>

(* trap, on a timer interrupt: the boot processor counts a tick and wakes  *)
(* the sleepers, holding tickslock and then ptable.lock as well; then a    *)
(* running process is made to exit if killed, or to yield.                 *)
M_Interruptible_LocksHeld(c) == intr[c] = "none" \* acquire without pushcli
Interruptible(c) ==
  /\ intr[c] = "none"
  /\ \/ proc[c] = NoProc /\ scan[c] = 0
     \/ proc[c] # NoProc /\ pc[proc[c]] \in Preemptible

Timer(c) ==
  /\ Interruptible(c)
  /\ intr' = [intr EXCEPT ![c] = IF c = BootCpu THEN "tick" ELSE "tail"]
  /\ UNCHANGED <<table, thread, nextpid, ptlock, tickslock, proc, scan>>

Tick(c) ==
  /\ intr[c] = "tick"
  /\ acquire(tickslock, c)
  /\ due' = [p \in Slot |-> IF due[p] > 0 THEN due[p] - 1 ELSE 0]
  /\ intr' = [intr EXCEPT ![c] = "wakeup"]
  /\ UNCHANGED <<table, pc, ret, np, nextpid, ptlock, proc, scan>>

TickWakeup(c) ==
  /\ intr[c] = "wakeup"
  /\ ptlock = NoCpu
  /\ state' = wakeup1(state, TicksChan)
  /\ release(tickslock, c)
  /\ intr' = [intr EXCEPT ![c] = "tail"]
  /\ UNCHANGED <<pid, parent, chan, killed, kstack, thread, nextpid, ptlock,
                 proc, scan>>

TrapTail(c) ==
  /\ intr[c] = "tail"
  /\ \/ proc[c] = NoProc
     \/ proc[c] # NoProc /\ pc[proc[c]] = "user" /\ killed[proc[c]]
  /\ pc' = [p \in Slot |-> IF p = proc[c] THEN "exit" ELSE pc[p]]
  /\ intr' = [intr EXCEPT ![c] = "none"]
  /\ UNCHANGED <<table, ret, np, due, nextpid, ptlock, tickslock, proc, scan>>

yield(c, p) ==
  /\ intr[c] = "tail" /\ proc[c] = p
  /\ ~(pc[p] = "user" /\ killed[p])
  /\ acquire(ptlock, c)
  /\ state' = [state EXCEPT ![p] = "RUNNABLE"]
  /\ ret' = [ret EXCEPT ![p] = pc[p]]
  /\ Goto(p, "sched")
  /\ intr' = [intr EXCEPT ![c] = "none"]
  /\ UNCHANGED <<pid, parent, chan, killed, kstack, np, due, nextpid,
                 tickslock, proc, scan>>

-----------------------------------------------------------------------------
(* fork.  allocproc takes the first UNUSED slot under ptable.lock; the      *)
(* kernel stack, the address space, the parent link and the two final       *)
(* writes of np->state are made without it.  MaxPid bounds nextpid: past it *)
(* allocproc behaves as if the table were full.                            *)
TakePid(q) == pid' = [pid EXCEPT ![q] = nextpid] /\ nextpid' = nextpid + 1

allocproc(c, p) ==
  /\ At(c, p, "fork")
  /\ ptlock = NoCpu
  /\ \/ /\ nextpid <= MaxPid
        /\ \E q \in Slot :
             /\ state[q] = "UNUSED"
             /\ \A r \in Slot : r < q => state[r] # "UNUSED"
             /\ state' = [state EXCEPT ![q] = "EMBRYO"]
             /\ TakePid(q)
             /\ np' = [np EXCEPT ![p] = q]
        /\ Goto(p, "fork_kalloc")
     \/ /\ nextpid > MaxPid \/ \A q \in Slot : state[q] # "UNUSED"
        /\ Goto(p, "sysret")
        /\ UNCHANGED <<state, pid, np, nextpid>>
  /\ UNCHANGED <<parent, chan, killed, kstack, ret, due, ptlock, tickslock,
                 cpus>>

ForkKalloc(c, p) ==
  /\ At(c, p, "fork_kalloc")
  /\ \/ /\ kstack' = [kstack EXCEPT ![np[p]] = TRUE]
        /\ pc' = [pc EXCEPT ![np[p]] = "resume", ![p] = "fork_copy"]
        /\ ret' = [ret EXCEPT ![np[p]] = "forkret"]
        /\ UNCHANGED <<state, np>>
     \/ /\ state' = [state EXCEPT ![np[p]] = "UNUSED"]
        /\ np' = [np EXCEPT ![p] = NoProc]
        /\ Goto(p, "sysret")
        /\ UNCHANGED <<kstack, ret>>
  /\ UNCHANGED <<pid, parent, chan, killed, due, nextpid, ptlock, tickslock,
                 cpus>>

ForkCopy(c, p) ==
  /\ At(c, p, "fork_copy")
  /\ \/ /\ parent' = [parent EXCEPT ![np[p]] = p]
        /\ Goto(p, "fork_run")
        /\ UNCHANGED <<state, kstack, ret, np>>
     \/ /\ kstack' = [kstack EXCEPT ![np[p]] = FALSE]
        /\ state' = [state EXCEPT ![np[p]] = "UNUSED"]
        /\ pc' = [pc EXCEPT ![np[p]] = "none", ![p] = "sysret"]
        /\ ret' = [ret EXCEPT ![np[p]] = "none"]
        /\ np' = [np EXCEPT ![p] = NoProc]
        /\ UNCHANGED parent
  /\ UNCHANGED <<pid, chan, killed, due, nextpid, ptlock, tickslock, cpus>>

ForkRun(c, p) ==
  /\ At(c, p, "fork_run")
  /\ state' = [state EXCEPT ![np[p]] = "RUNNABLE"]
  /\ np' = [np EXCEPT ![p] = NoProc]
  /\ Goto(p, "sysret")
  /\ UNCHANGED <<pid, parent, chan, killed, kstack, ret, due, nextpid, ptlock,
                 tickslock, cpus>>

(* exit, from the acquisition of ptable.lock to the call of sched: wake the *)
(* parent, give the children to init, become a zombie.                     *)
M_ExitState_ParentNotWoken(p) ==
  [(IF \E q \in Slot : parent[q] = p /\ state[q] = "ZOMBIE"
    THEN wakeup1(state, InitProc) ELSE state) EXCEPT ![p] = "ZOMBIE"]
ExitState(p) ==
  LET woken == wakeup1(state, parent[p])
      orphanZombie == \E q \in Slot : parent[q] = p /\ state[q] = "ZOMBIE"
  IN [(IF orphanZombie THEN wakeup1(woken, InitProc) ELSE woken)
        EXCEPT ![p] = "ZOMBIE"]

M_Abandon_ZombiesOnly(p) ==
  [q \in Slot |-> IF parent[q] = p /\ state[q] = "ZOMBIE" THEN InitProc ELSE parent[q]]
Abandon(p) == [q \in Slot |-> IF parent[q] = p THEN InitProc ELSE parent[q]]

M_exit_LockReleased(c, p) ==
  /\ At(c, p, "exit") /\ p # InitProc
  /\ ptlock = NoCpu /\ UNCHANGED ptlock
  /\ state' = ExitState(p)
  /\ parent' = Abandon(p)
  /\ ret' = [ret EXCEPT ![p] = "zombie"]
  /\ Goto(p, "sched")
  /\ UNCHANGED <<pid, chan, killed, kstack, np, due, nextpid, tickslock, cpus>>
exit(c, p) ==
  /\ At(c, p, "exit") /\ p # InitProc
  /\ acquire(ptlock, c)
  /\ state' = ExitState(p)
  /\ parent' = Abandon(p)
  /\ ret' = [ret EXCEPT ![p] = "zombie"]
  /\ Goto(p, "sched")
  /\ UNCHANGED <<pid, chan, killed, kstack, np, due, nextpid, tickslock, cpus>>

(* wait.  The scan runs with ptable.lock held, from the call and again after *)
(* each return of sleep: reap the first zombie child, or give up, or sleep  *)
(* on the process's own channel.                                           *)
WaitAcquire(c, p) ==
  /\ At(c, p, "wait")
  /\ acquire(ptlock, c)
  /\ Goto(p, "wait_scan")
  /\ UNCHANGED <<table, ret, np, due, nextpid, tickslock, cpus>>

ZombieChild(p) == {q \in Slot : parent[q] = p /\ state[q] = "ZOMBIE"}

WaitReap(c, p) ==
  /\ At(c, p, "wait_scan")
  /\ \E q \in ZombieChild(p) :
       /\ \A r \in ZombieChild(p) : q <= r
       /\ kstack' = [kstack EXCEPT ![q] = FALSE]
       /\ state' = [state EXCEPT ![q] = "UNUSED"]
       /\ pid' = [pid EXCEPT ![q] = 0]
       /\ parent' = [parent EXCEPT ![q] = NoProc]
       /\ killed' = [killed EXCEPT ![q] = FALSE]
       /\ pc' = [pc EXCEPT ![q] = "none", ![p] = "sysret"]
       /\ ret' = [ret EXCEPT ![q] = "none"]
  /\ release(ptlock, c)
  /\ UNCHANGED <<chan, np, due, nextpid, tickslock, cpus>>

WaitNone(c, p) ==
  /\ At(c, p, "wait_scan")
  /\ ZombieChild(p) = {}
  /\ killed[p] \/ \A q \in Slot : parent[q] # p
  /\ release(ptlock, c)
  /\ Goto(p, "sysret")
  /\ UNCHANGED <<table, ret, np, due, nextpid, tickslock, cpus>>

WaitSleep(c, p) ==
  /\ At(c, p, "wait_scan")
  /\ ZombieChild(p) = {} /\ \E q \in Slot : parent[q] = p
  /\ ~killed[p]
  /\ GoToSleep(p, p, "in_wait")
  /\ UNCHANGED <<pid, parent, killed, kstack, np, due, nextpid, ptlock,
                 tickslock, cpus>>

(* kill(n): the first slot whose pid field is n, whatever its state, is     *)
(* marked and, if asleep, made runnable.  Nobody kills init.               *)
M_KillState_NotWoken(q) == state
KillState(q) ==
  IF state[q] = "SLEEPING" THEN [state EXCEPT ![q] = "RUNNABLE"] ELSE state

kill(c, p) ==
  /\ At(c, p, "kill")
  /\ ptlock = NoCpu
  /\ \E n \in 0..MaxPid \ {InitPid} :
       \/ \E q \in Slot :
            /\ pid[q] = n /\ \A r \in Slot : pid[r] = n => q <= r
            /\ killed' = [killed EXCEPT ![q] = TRUE]
            /\ state' = KillState(q)
       \/ (\A q \in Slot : pid[q] # n) /\ UNCHANGED <<state, killed>>
  /\ Goto(p, "sysret")
  /\ UNCHANGED <<pid, parent, chan, kstack, ret, np, due, nextpid, ptlock,
                 tickslock, cpus>>

(* sys_sleep(n) and the sleep(&ticks, &tickslock) it calls.                 *)
sys_sleep(c, p) ==
  /\ At(c, p, "sleep")
  /\ acquire(tickslock, c)
  /\ \E n \in 0..MaxSleep : due' = [due EXCEPT ![p] = n]
  /\ Goto(p, "sleep_loop")
  /\ UNCHANGED <<table, ret, np, nextpid, ptlock, cpus>>

SleepLoop(c, p) ==
  /\ At(c, p, "sleep_loop")
  /\ \/ /\ due[p] = 0 \/ killed[p]
        /\ release(tickslock, c)
        /\ due' = [due EXCEPT ![p] = 0]
        /\ Goto(p, "sysret")
     \/ /\ due[p] > 0 /\ ~killed[p]
        /\ Goto(p, "sleep_enter")
        /\ UNCHANGED <<tickslock, due>>
  /\ UNCHANGED <<table, ret, np, nextpid, ptlock, cpus>>

sleep(c, p) ==
  /\ At(c, p, "sleep_enter")
  /\ acquire(ptlock, c)
  /\ release(tickslock, c)
  /\ GoToSleep(p, TicksChan, "in_sleep")
  /\ UNCHANGED <<pid, parent, killed, kstack, np, due, nextpid, cpus>>

SleepAgain(c, p) ==
  /\ At(c, p, "sleep_again")
  /\ acquire(tickslock, c)
  /\ Goto(p, "sleep_loop")
  /\ UNCHANGED <<table, ret, np, due, nextpid, ptlock, cpus>>

-----------------------------------------------------------------------------
ProcStep(c, p) ==
  \/ sched(c, p) \/ Resumed(c, p)
  \/ Syscall(c, p) \/ Sysret(c, p) \/ Fault(c, p)
  \/ allocproc(c, p) \/ ForkKalloc(c, p) \/ ForkCopy(c, p) \/ ForkRun(c, p)
  \/ exit(c, p)
  \/ WaitAcquire(c, p) \/ WaitReap(c, p) \/ WaitNone(c, p) \/ WaitSleep(c, p)
  \/ kill(c, p)
  \/ sys_sleep(c, p) \/ SleepLoop(c, p) \/ sleep(c, p) \/ SleepAgain(c, p)

(* The CPU outside interrupt handlers, and inside the timer's.             *)
CpuStep(c) ==
  \/ SchedAcquire(c) \/ SchedRelease(c)
  \/ \E p \in Slot : SchedSwitch(c, p) \/ ProcStep(c, p)

TrapStep(c) ==
  Tick(c) \/ TickWakeup(c) \/ TrapTail(c) \/ \E p \in Slot : yield(c, p)

Next == \E c \in CPU : CpuStep(c) \/ Timer(c) \/ TrapStep(c)

Spec == Init /\ [][Next]_vars

(* Kernel code does not stop, the periodic timer stays pending while        *)
(* interrupts are off, and a time slice is longer than the kernel code      *)
(* between two places where the timer can preempt it.  User code may run    *)
(* forever without a system call, except that init (init.c) keeps calling   *)
(* wait.                                                                   *)
KernelStep(c) ==
  /\ CpuStep(c)
  /\ ~ \E p \in Slot : At(c, p, "user")

InSlice(c, p) == ProcStep(c, p) /\ pc[p] \in Preemptible \ {"user"}

InitWaits(c) == Syscall(c, InitProc) /\ pc'[InitProc] = "wait"

FairSpec ==
  /\ Spec
  /\ \A c \in CPU :
       /\ SF_vars(KernelStep(c)) /\ SF_vars(Timer(c)) /\ WF_vars(TrapStep(c))
       /\ SF_vars(InitWaits(c))
       /\ \A p \in Slot : SF_vars(InSlice(c, p))

-----------------------------------------------------------------------------
TypeOK ==
  /\ state \in [Slot -> ProcState]
  /\ pid \in [Slot -> Nat]
  /\ parent \in [Slot -> Slot \cup {NoProc}]
  /\ chan \in [Slot -> Slot \cup {NoProc, TicksChan}]
  /\ killed \in [Slot -> BOOLEAN]
  /\ kstack \in [Slot -> BOOLEAN]
  /\ pc \in [Slot -> Label]
  /\ ret \in [Slot -> Resume]
  /\ np \in [Slot -> Slot \cup {NoProc}]
  /\ due \in [Slot -> 0..MaxSleep]
  /\ nextpid \in Nat
  /\ ptlock \in CPU \cup {NoCpu}
  /\ tickslock \in CPU \cup {NoCpu}
  /\ proc \in [CPU -> Slot \cup {NoProc}]
  /\ scan \in [CPU -> 0..NPROC + 1]
  /\ intr \in [CPU -> {"none", "tick", "wakeup", "tail"}]

OnCpu(p) == \E c \in CPU : proc[c] = p

(* A process executes on at most one CPU, and whenever ptable.lock is free *)
(* the state column agrees with the CPUs: RUNNING exactly on a CPU.         *)
(* scheduler and sched hand the lock over so that no CPU can pick up a      *)
(* RUNNABLE process that is still running on another one.                  *)
OneCpuPerProc ==
  /\ \A c, d \in CPU : proc[c] # NoProc /\ proc[c] = proc[d] => c = d
  /\ ptlock = NoCpu => \A p \in Slot : state[p] = "RUNNING" <=> OnCpu(p)

(* No CPU runs on a kernel stack that was freed: wait frees the stack of a *)
(* ZOMBIE only when exit's sched has left it.  A process that can be        *)
(* switched to still has its stack and its saved context.                  *)
KstackSafe ==
  \A p \in Slot :
    /\ OnCpu(p) => kstack[p] /\ state[p] \notin {"UNUSED", "EMBRYO"}
    /\ state[p] = "RUNNABLE" /\ ~OnCpu(p) =>
         kstack[p] /\ pc[p] = "resume" /\ ret[p] \notin {"none", "zombie"}

(* A parent asleep in wait has no zombie child: exit's wakeup1 of the       *)
(* parent, and of init for inherited zombies, is never lost.               *)
NoZombieMissed ==
  ptlock = NoCpu =>
    \A p, q \in Slot :
      state[p] = "SLEEPING" /\ chan[p] = p /\ parent[q] = p => state[q] # "ZOMBIE"

(* Every process but init that was ever runnable has a parent that can     *)
(* still reap it: exit gives all children of the exiting process to init.   *)
ParentAlive ==
  \A p \in Slot \ {InitProc} :
    state[p] \notin {"UNUSED", "EMBRYO"} =>
      /\ parent[p] # NoProc
      /\ state[parent[p]] \in {"RUNNABLE", "RUNNING", "SLEEPING"}

(* The panics of sched ("sched ptable.lock", "sched locks", "sched         *)
(* running") are unreachable: the caller holds ptable.lock and nothing     *)
(* else, and has changed the state.                                        *)
SchedChecks ==
  \A c \in CPU : \A p \in Slot :
    proc[c] = p /\ pc[p] = "sched" =>
      ptlock = c /\ tickslock # c /\ state[p] # "RUNNING"

(* Slots in use have different pids.                                       *)
UniquePid ==
  \A p, q \in Slot :
    p # q /\ state[p] # "UNUSED" /\ state[q] # "UNUSED" => pid[p] # pid[q]

(* A killed process does not stay asleep in wait: wait tests killed and    *)
(* sleeps in one critical section of ptable.lock, which kill takes.        *)
KilledNotInWait ==
  ptlock = NoCpu =>
    \A p \in Slot : state[p] = "SLEEPING" /\ chan[p] = p => ~killed[p]

(* exit and kill reach the processes that sleep in wait, and exit leaves    *)
(* every process a parent to reap it by a pid of its own.                  *)
WaiterWoken == NoZombieMissed /\ KilledNotInWait
FamilyRight == ParentAlive /\ UniquePid

(* No tick is missed: a process is left asleep on &ticks only while its    *)
(* time is not over (sys_sleep tests and sleeps under tickslock, the timer  *)
(* counts and wakes under it).                                             *)
NoTickMissed ==
  tickslock = NoCpu =>
    \A p \in Slot : state[p] = "SLEEPING" /\ chan[p] = TicksChan => due[p] > 0

(* No process stays RUNNABLE forever: scheduler goes on scanning behind the *)
(* process that ran last, so the low slots cannot starve the high ones.     *)
RunnableRuns == \A p \in Slot : []<>(state[p] # "RUNNABLE")

(* A process that was killed does not live forever, wherever kill found     *)
(* it: in user mode, preempted in a system call, or asleep in wait.         *)
KilledExits ==
  \A p \in Slot \ {InitProc} :
    []<>~(killed[p] /\ state[p] \in {"RUNNABLE", "RUNNING", "SLEEPING"})

(* A zombie that init has inherited (or forked) is not left unreaped.       *)
OrphanReaped ==
  \A p \in Slot \ {InitProc} : []<>~(state[p] = "ZOMBIE" /\ parent[p] = InitProc)

-----------------------------------------------------------------------------
(* Why a process is on one CPU and off freed stacks, part by part.         *)

(* ptable.lock is held by the CPU whose scheduler is scanning the table, or *)
(* whose process is in code that runs with it; tickslock likewise.  A timer *)
(* interrupt is handled only where interrupts are enabled.                 *)
LockOwner ==
  \A c \in CPU :
    /\ ptlock = c <=> IF proc[c] = NoProc THEN scan[c] > 0 ELSE pc[proc[c]] \in Locked
    /\ proc[c] # NoProc => scan[c] > 0
    /\ tickslock = c <=>
         intr[c] = "wakeup" \/ (proc[c] # NoProc /\ pc[proc[c]] \in TicksLocked)
    /\ intr[c] # "none" =>
         IF proc[c] = NoProc THEN scan[c] = 0 ELSE pc[proc[c]] \in Preemptible

(* A process on a CPU is RUNNING until it is about to call sched.          *)
Running ==
  /\ \A c, d \in CPU : proc[c] # NoProc /\ proc[c] = proc[d] => c = d
  /\ \A c \in CPU :
       proc[c] # NoProc =>
         IF pc[proc[c]] = "sched"
         THEN state[proc[c]] \in {"RUNNABLE", "SLEEPING", "ZOMBIE"}
         ELSE state[proc[c]] = "RUNNING"
  /\ \A p \in Slot : state[p] = "RUNNING" => OnCpu(p)

(* A process off the CPUs is unused or waits in swtch, with what it needs   *)
(* to resume.                                                              *)
Stopped ==
  \A p \in Slot :
    /\ ~OnCpu(p) => pc[p] \in {"none", "resume"}
    /\ state[p] \notin {"UNUSED", "EMBRYO"} => kstack[p] /\ pc[p] # "none"
    /\ state[p] = "UNUSED" => pc[p] = "none"
    /\ state[p] = "RUNNABLE" => ret[p] \notin {"none", "zombie"}
    /\ state[p] = "SLEEPING" => ret[p] \in {"in_wait", "in_sleep"}
    /\ state[p] = "ZOMBIE" => ret[p] = "zombie"

(* Where a process is in its system call, switched out or not.             *)
Pos(p) == IF pc[p] \in {"sched", "resume"} THEN ret[p] ELSE pc[p]

ForkLabel == {"fork_kalloc", "fork_copy", "fork_run"}

(* The slot that fork fills without a lock is its own: EMBRYO, and nobody  *)
(* else's np.                                                              *)
Forking ==
  /\ \A p \in Slot :
       IF Pos(p) \in ForkLabel
       THEN /\ np[p] # NoProc /\ state[np[p]] = "EMBRYO"
            /\ IF Pos(p) = "fork_kalloc" THEN pc[np[p]] = "none"
               ELSE pc[np[p]] = "resume" /\ ret[np[p]] = "forkret" /\ kstack[np[p]]
       ELSE np[p] = NoProc
  /\ \A p, q \in Slot : np[p] # NoProc /\ np[p] = np[q] => p = q

(* The inductive invariant of the process table: a ptable.lock or tickslock *)
(* that is held has exactly one thread inside its critical section, the    *)
(* RUNNING processes are the ones CPUs run, a slot off the CPUs has a saved *)
(* context to resume, and fork alone owns the slot it fills.               *)
ProcInv == TypeOK /\ LockOwner /\ Running /\ Stopped /\ Forking

(* What the families of processes rest on: init lives and has no parent,    *)
(* nobody is its own, fork has linked the child it is about to publish, and *)
(* no pid in the table has been handed out twice.                          *)
Kin ==
  /\ state[InitProc] \in {"RUNNABLE", "RUNNING", "SLEEPING"}
  /\ parent[InitProc] = NoProc
  /\ \A p \in Slot :
       /\ parent[p] # p /\ pid[p] < nextpid
       /\ Pos(p) = "fork_run" => parent[np[p]] = p

(* Why nobody sleeps too long, whoever holds ptable.lock: a process that    *)
(* sleeps in wait has no zombie child and is not killed, and one that       *)
(* sleeps, or is about to, on &ticks has ticks to wait for or a clock       *)
(* interrupt under tickslock about to wake it.                             *)
Asleep ==
  \A p \in Slot :
    /\ state[p] = "SLEEPING" /\ chan[p] = p =>
         ~killed[p] /\ \A q \in Slot : parent[q] = p => state[q] # "ZOMBIE"
    /\ pc[p] = "sleep_enter" => due[p] > 0
    /\ state[p] = "SLEEPING" /\ chan[p] = TicksChan =>
         due[p] > 0 \/ \E c \in CPU : tickslock = c /\ intr[c] = "wakeup"

(* The inductive invariant of families and sleepers.                       *)
TableInv == ProcInv /\ Kin /\ FamilyRight /\ Asleep

-----------------------------------------------------------------------------
(* Two statements of the repository that the code does not keep.           *)

(* proc.h, of killed: "If non-zero, have been killed".  A process that     *)
(* allocproc has just created was never the target of a kill.  (kill       *)
(* compares pids of UNUSED slots too, and allocproc does not clear killed.) *)
BornAlive ==
  [][\A p \in Slot :
       state[p] = "UNUSED" /\ state'[p] = "EMBRYO" => ~killed'[p]]_vars

(* kill, "Wake process from sleep if necessary": no killed process is       *)
(* asleep.  (sys_sleep tests killed before sleep takes ptable.lock.)        *)
KillWakesSleeper ==
  ptlock = NoCpu => \A p \in Slot : state[p] = "SLEEPING" => ~killed[p]
=============================================================================
