--------------------------- MODULE SpinlockProofs ---------------------------
(***************************************************************************)
(* SpinInv is an inductive invariant of Spinlock, for any sets of CPUs and  *)
(* processes: mutual exclusion, the answer of holding, interrupts off       *)
(* inside the lock and restored behind it, through every switch of threads. *)
(***************************************************************************)
EXTENDS Spinlock, TLAPS

Label == {"out", "test", "spin", "own", "in", "rel", "pop", "swtch"}
Inside == {"own", "in", "rel"}

(* What a step does to the invariant when the thread on c goes from label a *)
(* to label b without leaving c.                                           *)
LEMMA MoveThread ==
  ASSUME SpinInv, NEW c \in Cpu, NEW b \in Label \ {"swtch"},
         Goto(c, b), UNCHANGED <<run, born>>
  PROVE  /\ pc' \in [Thread -> Label]
         /\ pc'[run'[c]] = b
         /\ \A d \in Cpu \ {c} : run[d] # run[c] /\ pc'[run'[d]] = pc[run[d]]
         /\ \A t \in Thread : pc'[t] # pc[t] => t = run[c]
         /\ \A p \in Proc : pc'[p] = "swtch" => pc[p] = "swtch"
         /\ OneThread'
<1>1. /\ run \in [Cpu -> Thread] /\ pc \in [Thread -> Label] /\ born \subseteq Proc
  BY DEF SpinInv, TypeOK, Label
<1>2. \A d \in Cpu \ {c} : run[d] # run[c]
  BY DEF SpinInv, OneThread
<1>3. pc' = [pc EXCEPT ![run[c]] = b] /\ run' = run /\ born' = born /\ run[c] \in Thread
  BY <1>1 DEF Goto
<1>4. pc[run[c]] # "swtch"
  BY <1>1 DEF SpinInv, OneThread
<1>5. \A t \in Thread : pc'[t] # "swtch" <=> pc[t] # "swtch"
  BY <1>1, <1>3, <1>4
<1>6. OneThread'
  BY <1>1, <1>3, <1>5 DEF SpinInv, OneThread, Thread
<1> QED
  BY <1>1, <1>2, <1>3, <1>5, <1>6 DEF Thread

(* A step of the thread on c from its label to b: what happens to the lock, *)
(* to lk->cpu and to the flags of c decides the rest of the invariant.     *)
LEMMA ThreadStep ==
  ASSUME SpinInv, NEW c \in Cpu, NEW b \in Label \ {"swtch"},
         Goto(c, b), UNCHANGED <<run, born, irq, intena0, fresh>>,
         cpu' \in [Cpu -> [fl : BOOLEAN, ncli : Nat, intena : BOOLEAN]],
         \A d \in Cpu \ {c} : cpu'[d] = cpu[d],
         \/ (b \in Inside <=> Owning(c)) /\ locked' = locked
         \/ ~locked /\ locked' = TRUE /\ b \in Inside
         \/ Owning(c) /\ b \notin Inside /\ locked' = FALSE,
         \/ (b = "in" <=> pc[run[c]] = "in") /\ lcpu' = lcpu
         \/ pc[run[c]] = "own" /\ b = "in" /\ lcpu' = c
         \/ pc[run[c]] = "in" /\ b # "in" /\ lcpu' = NoCpu,
         IF b = "out" THEN cpu'[c].ncli = 0 ELSE ~cpu'[c].fl /\ cpu'[c].ncli = 1,
         run[c] \in Proc \ fresh =>
           ((IF b = "out" THEN cpu'[c].fl ELSE cpu'[c].intena) <=> ~irq[run[c]])
  PROVE  SpinInv'
<1>1. /\ pc' \in [Thread -> Label] /\ pc'[run'[c]] = b /\ OneThread'
      /\ \A d \in Cpu \ {c} : run[d] # run[c] /\ pc'[run'[d]] = pc[run[d]]
      /\ \A p \in Proc : pc'[p] = "swtch" => pc[p] = "swtch"
  BY MoveThread
<1>2. run' = run /\ born' = born /\ irq' = irq /\ intena0' = intena0 /\ fresh' = fresh
  OBVIOUS
<1>3. TypeOK'
  <2>1. locked' \in BOOLEAN /\ lcpu' \in Cpu \cup {NoCpu}
    BY DEF SpinInv, TypeOK
  <2> QED
    BY <1>1, <1>2, <2>1 DEF SpinInv, TypeOK, Label
<1>4. OneOwner'
  <2>1. \A d \in Cpu \ {c} : Owning(d)' <=> Owning(d)
    BY ONLY <1>1 DEF Owning
  <2>2. Owning(c)' <=> b \in Inside
    BY ONLY <1>1 DEF Owning, Inside
  <2>3. /\ \A d, e \in Cpu : Owning(d) /\ Owning(e) => d = e
        /\ locked <=> \E d \in Cpu : Owning(d)
        /\ locked \in BOOLEAN
    BY DEF SpinInv, OneOwner, TypeOK
  <2>4. \A d, e \in Cpu : Owning(d)' /\ Owning(e)' => d = e
    BY <2>1, <2>2, <2>3
  <2>5. locked' <=> \E d \in Cpu : Owning(d)'
    BY <2>1, <2>2, <2>3
  <2> QED
    BY <2>4, <2>5 DEF OneOwner
<1>5. HoldingRight'
  <2>1. \A d \in Cpu : lcpu = d <=> pc[run[d]] = "in"
    BY DEF SpinInv, HoldingRight
  <2>2. pc[run[c]] = "own" => \A d \in Cpu \ {c} : pc[run[d]] # "in"
    BY DEF SpinInv, OneOwner, Owning
  <2>3. \A d \in Cpu \ {c} : lcpu' = d <=> pc'[run'[d]] = "in"
    BY <1>1, <2>1, <2>2, SpinlockAssumption
  <2>4. lcpu' = c <=> b = "in"
    BY <2>1, SpinlockAssumption
  <2> QED
    BY <1>1, <2>3, <2>4 DEF HoldingRight
<1>6. NoInterruptInside'
  BY <1>1 DEF SpinInv, NoInterruptInside
<1>7. InterruptsRestored'
  <2>1. ASSUME NEW d \in Cpu, run'[d] \in Proc \ fresh'
        PROVE  (IF pc'[run'[d]] = "out" THEN cpu'[d].fl ELSE cpu'[d].intena) <=> ~irq'[run'[d]]
    <3>1. CASE d = c
      BY <1>1, <1>2, <2>1, <3>1
    <3>2. CASE d # c
      BY <1>1, <1>2, <2>1, <3>2 DEF SpinInv, InterruptsRestored
    <3> QED
      BY <3>1, <3>2
  <2>2. \A p \in Proc \ fresh' : pc'[p] = "swtch" => (intena0'[p] <=> ~irq'[p])
    BY <1>1, <1>2 DEF SpinInv, InterruptsRestored
  <2> QED
    BY <2>1, <2>2 DEF InterruptsRestored
<1> QED
  BY <1>1, <1>3, <1>4, <1>5, <1>6, <1>7 DEF SpinInv

(* A step outside the lock that changes the interrupt flag of c to v and    *)
(* whether its thread is in a handler to w; the thread may leave fresh.     *)
LEMMA FlagStep ==
  ASSUME SpinInv, NEW c \in Cpu, NEW v \in BOOLEAN, NEW w \in BOOLEAN, pc[run[c]] = "out",
         UNCHANGED <<locked, lcpu, run, pc, intena0, born>>,
         cpu' = [cpu EXCEPT ![c] = Flag(cpu[c], v)], irq' = [irq EXCEPT ![run[c]] = w],
         fresh' = fresh \/ fresh' = fresh \ {run[c]},
         run[c] \in Proc \ fresh' => (v <=> ~w)
  PROVE  SpinInv'
<1>1. /\ cpu \in [Cpu -> [fl : BOOLEAN, ncli : Nat, intena : BOOLEAN]]
      /\ irq \in [Thread -> BOOLEAN] /\ run \in [Cpu -> Thread]
  BY DEF SpinInv, TypeOK
<1>2. /\ \A d \in Cpu \ {c} : cpu'[d] = cpu[d]
      /\ irq'[run[c]] = w /\ \A t \in Thread \ {run[c]} : irq'[t] = irq[t]
      /\ \A d \in Cpu \ {c} : run[d] # run[c]
      /\ cpu'[c].fl = v /\ cpu'[c].ncli = cpu[c].ncli /\ cpu'[c].intena = cpu[c].intena
  BY <1>1 DEF SpinInv, OneThread, Flag
<1>3. run[c] \notin born
  BY DEF SpinInv, OneThread
<1>4. TypeOK'
  <2>1. cpu' \in [Cpu -> [fl : BOOLEAN, ncli : Nat, intena : BOOLEAN]]
    BY <1>1 DEF Flag
  <2>2. irq' \in [Thread -> BOOLEAN]
    BY <1>1
  <2>3. born' \subseteq fresh' /\ fresh' \subseteq Proc
    BY <1>3 DEF SpinInv, TypeOK
  <2> QED
    BY <2>1, <2>2, <2>3 DEF SpinInv, TypeOK
<1>5. OneThread' /\ OneOwner' /\ HoldingRight'
  BY DEF SpinInv, OneThread, OneOwner, HoldingRight, Owning
<1>6. NoInterruptInside'
  BY <1>2 DEF SpinInv, NoInterruptInside
<1>7. InterruptsRestored'
  <2>1. ASSUME NEW d \in Cpu, run'[d] \in Proc \ fresh'
        PROVE  (IF pc'[run'[d]] = "out" THEN cpu'[d].fl ELSE cpu'[d].intena) <=> ~irq'[run'[d]]
    <3>1. CASE d = c
      BY <1>2, <2>1, <3>1
    <3>2. CASE d # c
      BY <1>1, <1>2, <2>1, <3>2 DEF SpinInv, InterruptsRestored
    <3> QED
      BY <3>1, <3>2
  <2>2. ASSUME NEW p \in Proc \ fresh', pc'[p] = "swtch"
        PROVE  intena0'[p] <=> ~irq'[p]
    BY <1>2, <2>2 DEF SpinInv, InterruptsRestored, Thread
  <2> QED
    BY ONLY <2>1, <2>2 DEF InterruptsRestored
<1> QED
  BY <1>4, <1>5, <1>6, <1>7 DEF SpinInv

(* acquire and release, instruction by instruction.                        *)
LEMMA LockStep ==
  ASSUME SpinInv, NEW c \in Cpu,
         \/ AcquireCli(c) \/ AcquireTest(c) \/ AcquireXchg(c) \/ AcquireCpu(c)
         \/ ReleaseTest(c) \/ ReleaseXchg(c) \/ ReleaseCli(c) \/ Nest(c)
  PROVE  SpinInv'
<1> DEFINE K == [fl : BOOLEAN, ncli : Nat, intena : BOOLEAN]
<1>1. cpu \in [Cpu -> K] /\ pc \in [Thread -> Label] /\ run[c] \in Thread
  BY DEF SpinInv, TypeOK, Label
<1>2. IF pc[run[c]] = "out" THEN cpu[c].ncli = 0 ELSE ~cpu[c].fl /\ cpu[c].ncli = 1
  BY DEF SpinInv, NoInterruptInside
<1>3. run[c] \in Proc \ fresh =>
        ((IF pc[run[c]] = "out" THEN cpu[c].fl ELSE cpu[c].intena) <=> ~irq[run[c]])
  BY Zenon DEF SpinInv, InterruptsRestored
<1>4. CASE AcquireCli(c)
  <2>1. pc[run[c]] = "out" /\ Goto(c, "test") /\ cpu' = [cpu EXCEPT ![c] = pushcli(cpu[c])]
    BY ONLY <1>4 DEF AcquireCli, At
  <2>2. cpu[c].ncli = 0 /\ cpu[c].fl \in BOOLEAN
    BY <1>1, <1>2, <2>1
  <2>3. /\ pushcli(cpu[c]) \in K
        /\ ~pushcli(cpu[c]).fl /\ pushcli(cpu[c]).ncli = 1
        /\ pushcli(cpu[c]).intena <=> cpu[c].fl
    BY <2>2 DEF pushcli
  <2>4. cpu' \in [Cpu -> K] /\ \A d \in Cpu \ {c} : cpu'[d] = cpu[d]
    BY <1>1, <2>1, <2>3
  <2>5. ~cpu'[c].fl /\ cpu'[c].ncli = 1 /\ (cpu'[c].intena <=> cpu[c].fl)
    BY <1>1, <2>1, <2>3
  <2>6. "test" \in Label \ {"swtch"} /\ ~Owning(c) /\ "test" \notin Inside
    BY <2>1, Zenon DEF Label, Inside, Owning
  <2>7. UNCHANGED <<locked, lcpu, run, irq, intena0, born, fresh>>
    BY <1>4 DEF AcquireCli
  <2> HIDE DEF K
  <2> QED
    BY <1>3, <2>1, <2>4, <2>5, <2>6, <2>7, ThreadStep DEF K
<1>5. CASE AcquireTest(c)
  BY <1>1, <1>2, <1>3, <1>5, ThreadStep, Zenon DEF AcquireTest, At, Label, Inside, Owning
<1>6. CASE AcquireXchg(c)
  BY <1>1, <1>2, <1>3, <1>6, ThreadStep, Zenon DEF AcquireXchg, At, Label, Inside, Owning
<1>7. CASE AcquireCpu(c)
  BY <1>1, <1>2, <1>3, <1>7, ThreadStep DEF AcquireCpu, At, Label, Inside, Owning
<1>8. CASE ReleaseTest(c)
  BY <1>1, <1>2, <1>3, <1>8, ThreadStep, Zenon DEF ReleaseTest, At, Label, Inside, Owning
<1>9. CASE ReleaseXchg(c)
  BY ONLY <1>1, <1>2, <1>3, <1>9, ThreadStep, SpinInv DEF ReleaseXchg, At, Label, Inside,
     Owning
<1>10. CASE ReleaseCli(c)
  <2>1. pc[run[c]] = "pop" /\ Goto(c, "out") /\ cpu' = [cpu EXCEPT ![c] = popcli(cpu[c])]
    BY <1>10 DEF ReleaseCli, At
  <2>2. cpu'[c] = [fl |-> cpu[c].intena, ncli |-> 0, intena |-> cpu[c].intena]
    BY <1>1, <1>2, <2>1 DEF popcli
  <2>3. cpu' \in [Cpu -> K] /\ \A d \in Cpu \ {c} : cpu'[d] = cpu[d]
    BY ONLY <1>1, <1>2, <2>1, <2>2
  <2>4. cpu'[c].ncli = 0 /\ cpu'[c].fl = cpu[c].intena
    BY ONLY <2>2
  <2>5. "out" \in Label \ {"swtch"} /\ ~Owning(c) /\ "out" \notin Inside
    BY <2>1 DEF Label, Inside, Owning
  <2>6. UNCHANGED <<locked, lcpu, run, irq, intena0, born, fresh>>
    BY <1>10 DEF ReleaseCli
  <2> QED
    BY <1>3, <2>1, <2>3, <2>4, <2>5, <2>6, ThreadStep, Zenon DEF K
<1>11. CASE Nest(c)
  <2>1. pc[run[c]] = "in" /\ cpu' = [cpu EXCEPT ![c] = popcli(pushcli(cpu[c]))]
    BY <1>11, Zenon DEF Nest, At
  <2>2. popcli(pushcli(cpu[c])) = cpu[c]
    BY ONLY <1>1, <1>2, <2>1 DEF popcli, pushcli
  <2>3. cpu' = cpu /\ Goto(c, "in")
    BY <1>1, <1>11, <2>1, <2>2 DEF Nest, Goto
  <2> QED
    BY <1>1, <1>2, <1>3, <1>11, <2>1, <2>3, ThreadStep, Zenon DEF Nest, Label, Inside,
       Owning
<1> QED
  BY <1>4, <1>5, <1>6, <1>7, <1>8, <1>9, <1>10, <1>11

(* The sti of the scheduler, interrupts and the return from them.          *)
LEMMA InterruptStep ==
  ASSUME SpinInv, NEW c \in Cpu, Sti(c) \/ Interrupt(c) \/ Iret(c)
  PROVE  SpinInv'
<1>1. irq \in [Thread -> BOOLEAN] /\ run[c] \in Thread
  BY Zenon DEF SpinInv, TypeOK
<1>2. CASE Sti(c)
  <2>1. irq' = [irq EXCEPT ![run[c]] = irq[run[c]]] /\ run[c] \notin Proc
    BY <1>1, <1>2, SpinlockAssumption DEF Sti
  <2> QED
    BY ONLY <1>1, <1>2, <2>1, FlagStep, SpinInv DEF Sti, At
<1>3. CASE Interrupt(c)
  <2>1. pc[run[c]] = "out"
    BY <1>3, Zenon DEF Interrupt, SpinInv, NoInterruptInside
  <2> QED
    BY <1>3, <2>1, FlagStep, Zenon DEF Interrupt
<1>4. CASE Iret(c)
  BY <1>1, <1>4, FlagStep, Zenon DEF Iret, At
<1> QED
  BY <1>2, <1>3, <1>4

(* A switch on c from the thread t, inside the lock, to u, which waits in    *)
(* swtch: the lock, still marked with c, passes from t to u.                *)
Switched(c, t, u) ==
  /\ u \in Proc \cup {c} /\ t = run[c] /\ pc[t] = "in" /\ pc[u] = "swtch"
  /\ run' = [run EXCEPT ![c] = u] /\ pc' = [pc EXCEPT ![t] = "swtch", ![u] = "in"]
  /\ UNCHANGED <<locked, lcpu, irq, fresh>> /\ born' = born \ {u}
  /\ cpu' \in [Cpu -> [fl : BOOLEAN, ncli : Nat, intena : BOOLEAN]]
  /\ \A d \in Cpu \ {c} : cpu'[d] = cpu[d]
  /\ ~cpu'[c].fl /\ cpu'[c].ncli = 1
  /\ intena0' \in [Proc -> BOOLEAN] /\ \A p \in Proc \ {t} : intena0'[p] = intena0[p]
  /\ t \in Proc \ fresh => (intena0'[t] <=> ~irq[t])
  /\ u \in Proc \ fresh => (cpu'[c].intena <=> ~irq[u])

(* swtch from one thread to another with ptable.lock held keeps the         *)
(* invariant.                                                               *)
LEMMA SwitchStep ==
  ASSUME SpinInv, NEW c \in Cpu, NEW t \in Thread, NEW u \in Thread, Switched(c, t, u)
  PROVE  SpinInv'
<1> USE DEF Switched
<1>1. /\ run \in [Cpu -> Thread] /\ pc \in [Thread -> Label]
      /\ u \in Thread /\ u # t /\ born \subseteq fresh /\ fresh \subseteq Proc
  BY DEF SpinInv, TypeOK, Label, Thread
<1>2. /\ \A d \in Cpu \ {c} : run[d] # t /\ run[d] # u
      /\ \A x \in Thread : pc[x] # "swtch" <=> \E d \in Cpu : run[d] = x
  BY <1>1 DEF SpinInv, OneThread
<1>3. /\ run'[c] = u /\ pc'[u] = "in" /\ pc'[t] = "swtch"
      /\ \A d \in Cpu \ {c} : run'[d] = run[d] /\ pc'[run'[d]] = pc[run[d]]
      /\ \A x \in Thread \ {t, u} : pc'[x] = pc[x]
  BY <1>1, <1>2
<1>4. TypeOK'
  <2>1. run' \in [Cpu -> Thread] /\ pc' \in [Thread -> Label]
    BY <1>1, Zenon DEF Label
  <2>2. born' \subseteq fresh' /\ fresh' \subseteq Proc
    BY <1>1, Zenon
  <2> QED
    BY <2>1, <2>2, Zenon DEF SpinInv, TypeOK, Label
<1>5. OneThread'
  <2>1. \A d \in Cpu : run'[d] \in Proc \cup {d}
    BY <1>3 DEF SpinInv, OneThread
  <2>2. \A d, e \in Cpu : run'[d] = run'[e] => d = e
    <3>1. \A d, e \in Cpu : run[d] = run[e] => d = e
      BY DEF SpinInv, OneThread
    <3> QED
      BY ONLY <1>2, <1>3, <3>1
  <2>3. ASSUME NEW x \in Thread
        PROVE  pc'[x] # "swtch" <=> \E d \in Cpu : run'[d] = x
    <3>1. CASE x = t
      BY <1>1, <1>2, <1>3, <3>1
    <3>2. CASE x = u
      BY <1>3, <3>2
    <3>3. CASE x \notin {t, u}
      <4>1. \A d \in Cpu : run'[d] = x <=> run[d] = x
        BY <1>3, <3>3
      <4>2. pc'[x] = pc[x]
        BY ONLY <1>3, <3>3, x \in Thread
      <4> QED
        BY ONLY <1>2, <4>1, <4>2
    <3> QED
      BY <3>1, <3>2, <3>3
  <2>4. \A p \in born' : pc'[p] = "swtch"
    BY <1>1, <1>3 DEF SpinInv, OneThread, Thread
  <2> QED
    BY <2>1, <2>2, <2>3, <2>4, Zenon DEF OneThread
<1>6. OneOwner'
  <2>1. \A d \in Cpu : Owning(d)' <=> Owning(d)
    <3>1. pc[run[c]] = "in" /\ pc'[run'[c]] = "in"
      BY <1>3, Zenon
    <3>2. \A d \in Cpu \ {c} : pc'[run'[d]] = pc[run[d]]
      BY ONLY <1>3, Zenon
    <3> QED
      BY ONLY <3>1, <3>2 DEF Owning
  <2> QED
    BY <2>1 DEF SpinInv, OneOwner
<1>7. HoldingRight' /\ NoInterruptInside'
  <2>1. \A d \in Cpu : lcpu = d <=> pc[run[d]] = "in"
    BY DEF SpinInv, HoldingRight
  <2>2. \A d \in Cpu : lcpu' = d <=> pc'[run'[d]] = "in"
    <3>1. lcpu' = lcpu /\ pc[run[c]] = "in"
      BY Zenon
    <3> QED
      BY ONLY <1>3, <2>1, <3>1, c \in Cpu
  <2>3. ASSUME NEW d \in Cpu \ {c}
        PROVE  IF pc'[run'[d]] = "out" THEN cpu'[d].ncli = 0 ELSE ~cpu'[d].fl /\ cpu'[d].ncli = 1
    <3>1. IF pc[run[d]] = "out" THEN cpu[d].ncli = 0 ELSE ~cpu[d].fl /\ cpu[d].ncli = 1
      BY DEF SpinInv, NoInterruptInside
    <3>2. cpu'[d] = cpu[d]
      OBVIOUS
    <3> QED
      BY ONLY <1>3, <3>1, <3>2, d \in Cpu \ {c}
  <2>4. pc'[run'[c]] # "out"
    BY <1>3
  <2> QED
    BY ONLY <2>2, <2>3, <2>4, SpinInv, Switched(c, t, u) DEF HoldingRight,
       NoInterruptInside
<1>8. InterruptsRestored'
  <2>1. ASSUME NEW d \in Cpu, run'[d] \in Proc \ fresh'
        PROVE  (IF pc'[run'[d]] = "out" THEN cpu'[d].fl ELSE cpu'[d].intena) <=> ~irq'[run'[d]]
    <3>1. CASE d = c
      <4>1. run'[d] = u /\ pc'[u] = "in" /\ irq' = irq /\ fresh' = fresh
        BY <1>3, <3>1
      <4>2. cpu'[d].intena <=> ~irq[u]
        BY <2>1, <3>1, <4>1
      <4> QED
        BY ONLY <4>1, <4>2
    <3>2. CASE d # c
      <4>1. /\ run'[d] = run[d] /\ pc'[run'[d]] = pc[run[d]] /\ cpu'[d] = cpu[d]
            /\ irq' = irq /\ fresh' = fresh
        BY <1>3, <3>2
      <4>2. run[d] \in Proc \ fresh
        BY ONLY <2>1, <4>1
      <4>3. (IF pc[run[d]] = "out" THEN cpu[d].fl ELSE cpu[d].intena) <=> ~irq[run[d]]
        BY <4>2, Zenon DEF SpinInv, InterruptsRestored
      <4> QED
        BY ONLY <4>1, <4>3
    <3> QED
      BY <3>1, <3>2
  <2>2. ASSUME NEW p \in Proc \ fresh', pc'[p] = "swtch"
        PROVE  intena0'[p] <=> ~irq'[p]
    <3>1. CASE p = t
      BY <2>2, <3>1
    <3>2. CASE p # t
      <4>1. p \in Thread \ {t, u} /\ p \in Proc \ fresh /\ irq' = irq
        BY <1>3, <2>2, <3>2, Zenon DEF Thread
      <4>2. pc[p] = "swtch" /\ intena0'[p] = intena0[p]
        BY <1>3, <2>2, <3>2, <4>1, Zenon
      <4>3. intena0[p] <=> ~irq[p]
        BY <4>1, <4>2, Zenon DEF SpinInv, InterruptsRestored
      <4> QED
        BY ONLY <4>1, <4>2, <4>3
    <3> QED
      BY ONLY <3>1, <3>2
  <2> QED
    BY ONLY <2>1, <2>2 DEF InterruptsRestored
<1> QED
  BY ONLY <1>4, <1>5, <1>6, <1>7, <1>8 DEF SpinInv

(* The switch of the scheduler to a process.                               *)
LEMMA SchedulerStep ==
  ASSUME SpinInv, NEW c \in Cpu, NEW p \in Proc, scheduler(c, p)
  PROVE  SpinInv'
<1> DEFINE K == [fl : BOOLEAN, ncli : Nat, intena : BOOLEAN]
<1>1. /\ run[c] = c /\ pc[c] = "in" /\ pc[p] = "swtch" /\ born' = born \ {p}
      /\ run' = [run EXCEPT ![c] = p] /\ pc' = [pc EXCEPT ![c] = "swtch", ![p] = "in"]
      /\ cpu' = [cpu EXCEPT ![c] = Restored(popcli(pushcli(cpu[c])), p)]
      /\ UNCHANGED <<locked, lcpu, irq, intena0, fresh>>
  BY DEF scheduler, At
<1>2. /\ cpu \in [Cpu -> K] /\ intena0 \in [Proc -> BOOLEAN] /\ born \subseteq fresh
      /\ c \in Thread /\ c \notin Proc
  BY SpinlockAssumption DEF SpinInv, TypeOK, Thread
<1>3. cpu[c].fl = FALSE /\ cpu[c].ncli = 1
  BY ONLY <1>1, <1>2, SpinInv DEF SpinInv, NoInterruptInside
<1>4. popcli(pushcli(cpu[c])) = cpu[c]
  BY <1>2, <1>3 DEF popcli, pushcli
<1>5. /\ Restored(cpu[c], p) \in K
      /\ ~Restored(cpu[c], p).fl /\ Restored(cpu[c], p).ncli = 1
      /\ p \notin born => Restored(cpu[c], p).intena = intena0[p]
  BY <1>2, <1>3 DEF Restored
<1>6. /\ cpu' \in [Cpu -> K] /\ \A d \in Cpu \ {c} : cpu'[d] = cpu[d]
      /\ ~cpu'[c].fl /\ cpu'[c].ncli = 1 /\ (p \notin born => cpu'[c].intena = intena0[p])
  BY <1>1, <1>2, <1>4, <1>5, Zenon
<1>7. p \in Proc \ fresh => (cpu'[c].intena <=> ~irq[p])
  BY <1>1, <1>2, <1>6, Zenon DEF SpinInv, InterruptsRestored
<1>8. Switched(c, c, p)
  BY <1>1, <1>2, <1>6, <1>7 DEF Switched
<1> QED
  BY <1>2, <1>8, SwitchStep DEF Thread

(* The switch of a process back to the scheduler of its CPU.               *)
LEMMA SchedStep ==
  ASSUME SpinInv, NEW c \in Cpu, sched(c)
  PROVE  SpinInv'
<1>1. PICK t \in Proc : t = run[c]
  BY DEF sched
<1>2. /\ pc[t] = "in" /\ run' = [run EXCEPT ![c] = c]
      /\ pc' = [pc EXCEPT ![t] = "swtch", ![c] = "in"]
      /\ intena0' = [intena0 EXCEPT ![t] = cpu[c].intena]
      /\ UNCHANGED <<cpu, locked, lcpu, irq, born, fresh>>
  BY <1>1 DEF sched, At
<1>3. /\ cpu \in [Cpu -> [fl : BOOLEAN, ncli : Nat, intena : BOOLEAN]]
      /\ intena0 \in [Proc -> BOOLEAN] /\ born \subseteq Proc
      /\ c \in Thread /\ c \notin Proc /\ t \in Thread
  BY SpinlockAssumption DEF SpinInv, TypeOK, Thread
<1>4. pc[c] = "swtch" /\ born' = born \ {c}
  BY <1>1, <1>2, <1>3, SpinlockAssumption DEF SpinInv, OneThread
<1>5. ~cpu[c].fl /\ cpu[c].ncli = 1
  BY <1>1, <1>2, Zenon DEF SpinInv, NoInterruptInside
<1>6. t \in Proc \ fresh => (cpu[c].intena <=> ~irq[t])
  BY <1>1, <1>2 DEF SpinInv, InterruptsRestored
<1>7. /\ intena0' \in [Proc -> BOOLEAN] /\ intena0'[t] = cpu[c].intena
      /\ \A p \in Proc \ {t} : intena0'[p] = intena0[p]
  BY <1>2, <1>3
<1>8. /\ cpu' \in [Cpu -> [fl : BOOLEAN, ncli : Nat, intena : BOOLEAN]]
      /\ \A d \in Cpu \ {c} : cpu'[d] = cpu[d]
      /\ ~cpu'[c].fl /\ cpu'[c].ncli = 1
  BY <1>2, <1>3, <1>5
<1>9. /\ UNCHANGED <<locked, lcpu, irq, fresh>> /\ c \in Proc \cup {c}
      /\ t \in Proc \ fresh => (intena0'[t] <=> ~irq[t])
      /\ c \in Proc \ fresh => (cpu'[c].intena <=> ~irq[c])
  BY ONLY <1>2, <1>3, <1>6, <1>7
<1>10. Switched(c, t, c)
  BY <1>1, <1>2, <1>4, <1>7, <1>8, <1>9 DEF Switched
<1> QED
  BY <1>3, <1>10, SwitchStep

(* The initial state: every CPU in its scheduler, no process switched to.   *)
LEMMA InitSpin ==
  ASSUME Init PROVE SpinInv
<1>1. TypeOK
  BY DEF Init, TypeOK, Thread
<1>2. OneThread
  BY SpinlockAssumption DEF Init, OneThread, Thread
<1>3. OneOwner /\ HoldingRight
  BY SpinlockAssumption DEF Init, OneOwner, Owning, HoldingRight, Thread
<1>4. NoInterruptInside /\ InterruptsRestored
  BY SpinlockAssumption, Zenon DEF Init, NoInterruptInside, InterruptsRestored, Thread
<1> QED
  BY <1>1, <1>2, <1>3, <1>4 DEF SpinInv

(* For any number of CPUs and processes, one CPU at a time is inside the    *)
(* lock of acquire and release, holding answers for it alone, no interrupt  *)
(* comes while it is inside, and a process that leaves finds the interrupt  *)
(* flag it entered with, also when sched took it to another CPU.            *)
THEOREM SpinlockInvariance == Spec => []SpinInv
<1>1. Init => SpinInv
  BY InitSpin
<1>2. ASSUME SpinInv, [Next]_vars PROVE SpinInv'
  <2>1. CASE UNCHANGED vars
    BY ONLY <1>2, <2>1 DEF vars, SpinInv, TypeOK, OneThread, OneOwner, Owning,
       HoldingRight, NoInterruptInside, InterruptsRestored
  <2>2. ASSUME NEW c \in Cpu, sched(c)
        PROVE  SpinInv'
    BY <1>2, <2>2, SchedStep
  <2>3. ASSUME NEW c \in Cpu, NEW p \in Proc, scheduler(c, p)
        PROVE  SpinInv'
    BY <1>2, <2>3, SchedulerStep
  <2>4. ASSUME NEW c \in Cpu, Sti(c) \/ Interrupt(c) \/ Iret(c)
        PROVE  SpinInv'
    BY <1>2, <2>4, InterruptStep
  <2>5. ASSUME NEW c \in Cpu,
               \/ AcquireCli(c) \/ AcquireTest(c) \/ AcquireXchg(c) \/ AcquireCpu(c)
               \/ ReleaseTest(c) \/ ReleaseXchg(c) \/ ReleaseCli(c) \/ Nest(c)
        PROVE  SpinInv'
    BY <1>2, <2>5, LockStep
  <2> QED
    BY ONLY <1>2, <2>1, <2>2, <2>3, <2>4, <2>5 DEF Next
<1> QED
  BY <1>1, <1>2, PTL DEF Spec

(* None of the panics of spinlock.c and sched is reached: whoever comes to   *)
(* the test of acquire does not hold the lock, whoever comes to that of      *)
(* release does, and those of popcli and sched pass where they are called.   *)
Unpanicked ==
  \A c \in Cpu :
    /\ At(c, "test") => ~holding(c)
    /\ At(c, "in") => holding(c) /\ ~PopBad(pushcli(cpu[c])) /\ ~SchedBad(c)
    /\ At(c, "pop") => ~PopBad(cpu[c])

(* The panics of acquire, release, popcli and sched are out of reach.        *)
THEOREM NoPanic == Spec => []Unpanicked
<1>1. ASSUME SpinInv, NEW c \in Cpu
      PROVE  /\ At(c, "test") => ~holding(c)
             /\ At(c, "in") => holding(c) /\ ~PopBad(pushcli(cpu[c])) /\ ~SchedBad(c)
             /\ At(c, "pop") => ~PopBad(cpu[c])
  <2>1. At(c, "test") => ~holding(c)
    BY <1>1 DEF SpinInv, HoldingRight, At, holding
  <2>2. cpu[c].ncli \in Nat /\ (At(c, "in") \/ At(c, "pop") => ~cpu[c].fl /\ cpu[c].ncli = 1)
    BY <1>1 DEF SpinInv, TypeOK, NoInterruptInside, At
  <2>3. At(c, "in") => holding(c)
    BY <1>1 DEF SpinInv, HoldingRight, OneOwner, Owning, At, holding
  <2> QED
    BY ONLY <2>1, <2>2, <2>3 DEF PopBad, pushcli, SchedBad
<1>2. SpinInv => Unpanicked
  BY <1>1 DEF Unpanicked
<1> QED
  BY <1>2, SpinlockInvariance, PTL
=============================================================================
