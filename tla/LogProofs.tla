----------------------------- MODULE LogProofs ------------------------------
(***************************************************************************)
(* Proofs about Log, for every set of processes, blocks and contents and   *)
(* every log size.                                                         *)
(***************************************************************************)
EXTENDS Log, TLAPS

(* Type correctness of the log, one step per action.                       *)
LEMMA TypeStep == TypeOK /\ [Next]_vars => TypeOK'
<1> SUFFICES ASSUME TypeOK, [Next]_vars PROVE TypeOK'
  OBVIOUS
<1> USE LogAssumption DEF TypeOK, Label, Index
<1>1. CASE UNCHANGED vars
  BY <1>1 DEF vars, durable
<1>2. ASSUME NEW p \in Proc, EnterSyscall(p) PROVE TypeOK'
  BY <1>2 DEF EnterSyscall, durable
<1>3. ASSUME NEW p \in Proc, begin_trans(p) PROVE TypeOK'
  BY <1>3 DEF begin_trans, durable
<1>4. ASSUME NEW p \in Proc, NEW b \in Block, NEW v \in Val, NEW i \in Index,
             log_write(p, b, v, i)
      PROVE TypeOK'
  BY <1>4 DEF log_write
<1>5. ASSUME NEW p \in Proc, LogCount(p) PROVE TypeOK'
  BY <1>5 DEF LogCount, durable
<1>6. ASSUME NEW p \in Proc, commit_trans(p) PROVE TypeOK'
  BY <1>6 DEF commit_trans, durable
<1>7. ASSUME NEW p \in Proc, CommitHead(p) PROVE TypeOK'
  BY <1>7 DEF CommitHead, WriteHead
<1>8. ASSUME NEW p \in Proc, CommitInstall(p) PROVE TypeOK'
  <2>1. CASE Installed(tail)
    <3>1. /\ n' = 0 /\ pc' = [pc EXCEPT ![p] = "clear"]
          /\ UNCHANGED <<durable, cache, dirty, sector, busy, idx, boot, tail>>
      BY <1>8, <2>1 DEF CommitInstall, durable
    <3> QED
      BY <3>1 DEF durable
  <2>2. CASE ~Installed(tail)
    <3>1. tail' \in 1..LogCap + 1
      BY <1>8, <2>2 DEF CommitInstall, Installed
    <3>0. tail \in Index /\ InstallBlock(tail)
      BY <1>8, <2>2 DEF CommitInstall, Installed
    <3>2. disk' \in [Block -> Val] /\ cache' \in [Block -> Val \cup {NoVal}]
          /\ dirty' \subseteq Block
      BY <3>0 DEF InstallBlock
    <3> QED
      BY <1>8, <2>2, <3>1, <3>2 DEF CommitInstall
  <2> QED
    BY <2>1, <2>2, Zenon
<1>9. ASSUME NEW p \in Proc, CommitClear(p) PROVE TypeOK'
  BY <1>9 DEF CommitClear, WriteHead
<1>10. ASSUME NEW p \in Proc, CommitEnd(p) PROVE TypeOK'
  BY <1>10 DEF CommitEnd, durable
<1>11. ASSUME NEW b \in Block, Bread(b) \/ Evict(b) PROVE TypeOK'
  <2>1. CASE Bread(b)
    BY <2>1 DEF Bread, durable
  <2>2. CASE Evict(b)
    BY <2>2 DEF Evict, durable
  <2> QED
    BY <1>11, <2>1, <2>2, Zenon
<1>12. CASE RecoverRead
  BY <1>12 DEF RecoverRead, durable
<1>13. CASE RecoverInstall
  <2>1. CASE Installed(tail)
    <3>1. /\ n' = 0 /\ boot' = "clear"
          /\ UNCHANGED <<durable, cache, dirty, sector, busy, idx, pc, tail>>
      BY ONLY <1>13, <2>1 DEF RecoverInstall, durable
    <3> QED
      BY <3>1 DEF durable
  <2>2. CASE ~Installed(tail)
    <3>1. tail' \in 1..LogCap + 1
      BY <1>13, <2>2 DEF RecoverInstall, Installed
    <3>0. tail \in Index /\ InstallBlock(tail)
      BY <1>13, <2>2 DEF RecoverInstall, Installed
    <3>2. disk' \in [Block -> Val] /\ cache' \in [Block -> Val \cup {NoVal}]
          /\ dirty' \subseteq Block
      BY <3>0 DEF InstallBlock
    <3> QED
      BY <1>13, <2>2, <3>1, <3>2 DEF RecoverInstall
  <2> QED
    BY <2>1, <2>2
<1>14. CASE RecoverClear
  BY <1>14 DEF RecoverClear, WriteHead
<1>15. CASE Crash
  <2>1. 1 \in 1..LogCap /\ 0 \in 0..LogCap /\ 1 \in 1..LogCap + 1
    OBVIOUS
  <2>2. /\ cache' \in [Block -> Val \cup {NoVal}] /\ dirty' \subseteq Block
        /\ sector' \in [1..LogCap -> Block \cup {NoBlock}]
        /\ pc' \in [Proc -> Label] /\ idx' \in [Proc -> 1..LogCap]
    BY <1>15, <2>1 DEF Crash
  <2>3. /\ n' = 0 /\ tail' = 1 /\ boot' = "read" /\ busy' = FALSE
        /\ UNCHANGED <<disk, logdata, hn, hsector>>
    BY <1>15 DEF Crash, durable
  <2> QED
    BY <2>1, <2>2, <2>3
<1> QED
  BY <1>1, <1>2, <1>3, <1>4, <1>5, <1>6, <1>7, <1>8, <1>9, <1>10, <1>11, <1>12, <1>13,
     <1>14, <1>15, Zenon DEF Next, ProcStep

(* In the initial states the whole invariant holds: the machine is about   *)
(* to recover from an empty log.                                           *)
LEMMA InitInv == Init => LogInv
<1> SUFFICES ASSUME Init PROVE LogInv
  OBVIOUS
<1> USE LogAssumption DEF Init
<1>1. TypeOK
  <2>1. 1 \in 1..LogCap /\ 0 \in 0..LogCap /\ 1 \in 1..LogCap + 1
    OBVIOUS
  <2>2. /\ cache \in [Block -> Val \cup {NoVal}] /\ dirty \subseteq Block
        /\ sector \in [Index -> Block \cup {NoBlock}]
        /\ hsector \in [Index -> Block \cup {NoBlock}]
        /\ pc \in [Proc -> Label] /\ idx \in [Proc -> Index]
    BY <2>1 DEF Label, Index
  <2> QED
    BY <2>1, <2>2 DEF TypeOK
<1>2. n = 0 /\ hn = 0 /\ Filled = 0
  BY DEF Filled
<1>3. OneTransaction /\ Opened
  BY DEF OneTransaction, Opened, InTrans
<1>4. Distinct(hsector, hn) /\ Distinct(sector, Filled)
  BY <1>2 DEF Distinct
<1>5. Buffers
  BY <1>2 DEF Buffers, In
<1>6. Header
  BY <1>2 DEF Header, In
<1> QED
  BY <1>1, <1>3, <1>4, <1>5, <1>6 DEF LogInv

TransLabel == {"trans", "append", "head", "install", "clear", "end"}

(* The process inside a transaction is alone there: recovery is over and   *)
(* where it is decides what In and Filled say.                             *)
LEMMA Alone ==
  ASSUME TypeOK, OneTransaction, Opened, NEW p \in Proc, InTrans(p)
  PROVE  /\ busy /\ boot = "done"
         /\ \A q \in Proc : q # p => pc[q] \in {"out", "begin"}
         /\ \A l \in TransLabel : In(l) <=> pc[p] = l
         /\ Filled = IF pc[p] = "append" /\ idx[p] = n + 1 THEN n + 1 ELSE n
<1>1. /\ busy /\ boot = "done"
      /\ \A q \in Proc : q # p => pc[q] \in {"out", "begin"}
  BY DEF TypeOK, Label, OneTransaction, Opened, InTrans
<1>2. \A l \in TransLabel : In(l) <=> pc[p] = l
  BY <1>1 DEF In, TransLabel
<1>3. Filled = IF pc[p] = "append" /\ idx[p] = n + 1 THEN n + 1 ELSE n
  BY <1>1 DEF Filled
<1> QED
  BY <1>1, <1>2, <1>3

(* The same after a step that moves it to label l.                         *)
LEMMA AloneNext ==
  ASSUME TypeOK, OneTransaction, Opened, NEW p \in Proc, InTrans(p),
         NEW l \in Label, pc' = [pc EXCEPT ![p] = l], UNCHANGED boot,
         busy' <=> l \in TransLabel
  PROVE  /\ OneTransaction' /\ Opened'
         /\ \A m \in TransLabel : In(m)' <=> l = m
         /\ Filled' = IF l = "append" /\ idx'[p] = n' + 1 THEN n' + 1 ELSE n'
<1>1. /\ busy /\ boot = "done"
      /\ \A q \in Proc : q # p => pc[q] \in {"out", "begin"}
  BY Alone
<1>2. pc'[p] = l /\ \A q \in Proc : q # p => pc'[q] \in {"out", "begin"}
  BY <1>1 DEF TypeOK
<1>3. OneTransaction' /\ Opened'
  BY <1>1, <1>2 DEF OneTransaction, Opened, InTrans, TransLabel, Label
<1>4. \A m \in TransLabel : In(m)' <=> l = m
  BY <1>2 DEF In, TransLabel
<1>5. Filled' = IF l = "append" /\ idx'[p] = n' + 1 THEN n' + 1 ELSE n'
  BY <1>2 DEF Filled
<1> QED
  BY <1>3, <1>4, <1>5

Rest == Distinct(hsector, hn) /\ Distinct(sector, Filled) /\ Buffers /\ Header

(* The steps of log_write.                                                 *)
LEMMA WriteInv ==
  ASSUME LogInv, NEW p \in Proc,
         \/ LogCount(p)
         \/ \E b \in Block, v \in Val, i \in Index : log_write(p, b, v, i)
  PROVE  OneTransaction' /\ Opened' /\ Rest'
<1> USE LogAssumption DEF LogInv, Index
<1>1. CASE LogCount(p)
  <2>1. InTrans(p) /\ pc[p] = "append"
    BY <1>1, Zenon DEF LogCount, InTrans
  <2>2. /\ boot = "done" /\ \A l \in TransLabel : In(l) <=> pc[p] = l
        /\ Filled = IF idx[p] = n + 1 THEN n + 1 ELSE n
    BY <2>1, Alone
  <2>3. /\ OneTransaction' /\ Opened'
        /\ \A l \in TransLabel : In(l)' <=> l = "trans"
        /\ Filled' = n'
    BY <1>1, <2>1, Alone, AloneNext, Zenon DEF LogCount, TransLabel, Label
  <2>4. Filled' = Filled /\ Filled \in Nat
    BY <1>1, <2>2, <2>3 DEF LogCount, TypeOK
  <2>5. UNCHANGED <<disk, logdata, hn, hsector, cache, dirty, sector, busy, boot, tail, idx>>
    BY ONLY <1>1 DEF LogCount, durable
  <2>6. Distinct(hsector, hn)' /\ Distinct(sector, Filled)'
    BY <2>4, <2>5 DEF Distinct
  <2>7. Buffers'
    BY <2>1, <2>2, <2>3, <2>4, <2>5, Zenon DEF Buffers, TransLabel
  <2>8. Header'
    <3>1. n < LogCap /\ n' \in 0..LogCap /\ hn = 0
      BY <1>1, <2>1, <2>2 DEF Header, TransLabel, LogCount, TypeOK
    <3>2. busy' /\ pc'[p] = "trans" /\ \A q \in Proc : pc'[q] # "append"
      BY ONLY <1>1, <2>1, Alone, LogInv DEF LogCount, TypeOK
    <3> QED
      BY ONLY <2>2, <2>3, <2>5, <3>1, <3>2 DEF Header, TransLabel
  <2> QED
    BY <2>3, <2>6, <2>7, <2>8 DEF Rest
<1>2. ASSUME NEW b \in Block, NEW v \in Val, NEW i \in Index, log_write(p, b, v, i)
      PROVE  OneTransaction' /\ Opened' /\ Rest'
  <2>1. InTrans(p) /\ pc[p] = "trans"
    BY <1>2 DEF log_write, InTrans
  <2>2. /\ boot = "done" /\ \A l \in TransLabel : In(l) <=> pc[p] = l
        /\ Filled = n
    BY <2>1, Alone, Zenon
  <2>3. /\ OneTransaction' /\ Opened'
        /\ \A l \in TransLabel : In(l)' <=> l = "append"
        /\ Filled' = IF i = n + 1 THEN n + 1 ELSE n
    <3>1. idx'[p] = i /\ n' = n
      BY <1>2 DEF log_write, TypeOK
    <3>2. /\ TypeOK /\ OneTransaction /\ Opened /\ UNCHANGED boot
          /\ "append" \in Label /\ pc' = [pc EXCEPT ![p] = "append"]
      BY <1>2, Zenon DEF log_write, Label
    <3>3. busy' <=> "append" \in TransLabel
      BY <1>2, <2>1, Alone, Zenon DEF log_write, TransLabel
    <3> QED
      BY <2>1, <3>1, <3>2, <3>3, AloneNext
  <2>4. n \in Nat /\ i \in Nat /\ n < LogCap
    BY <1>2 DEF log_write, TypeOK
  <2>5. /\ sector' = [sector EXCEPT ![i] = b] /\ sector' [i] = b
        /\ \A j \in Index : j # i => sector'[j] = sector[j]
        /\ logdata'[i] = v
        /\ \A j \in Index : j # i => logdata'[j] = logdata[j]
        /\ cache'[b] = v /\ \A c \in Block : c # b => cache'[c] = cache[c]
        /\ dirty' = dirty \cup {b}
        /\ UNCHANGED <<disk, hn, hsector, n, busy, boot, tail>>
    BY <1>2 DEF log_write, TypeOK
  <2>6. /\ i <= n => sector[i] = b
        /\ i > n => i = n + 1 /\ \A j \in 1..n : sector[j] # b
    BY ONLY <1>2, <2>4 DEF log_write, LogIndex
  <2>7. Distinct(hsector, hn)' /\ Distinct(sector, Filled)'
    BY ONLY <2>2, <2>3, <2>4, <2>5, <2>6, LogInv DEF Distinct
  <2>8. Buffers'
    <3>1. \A c \in Block : cache'[c] # NoVal /\ c \notin dirty' => cache'[c] = disk'[c]
      BY ONLY <2>5, LogInv DEF Buffers
    <3>2. \A c \in dirty' : \E j \in 1..Filled' : sector'[j] = c
      BY ONLY <2>2, <2>3, <2>4, <2>5, <2>6, LogInv DEF Buffers
    <3>3. \A j \in 1..Filled' : sector'[j] \in dirty'
      <4>1. \A j \in 1..n : sector[j] \in dirty
        BY ONLY <2>1, <2>2, LogInv DEF Buffers, TransLabel
      <4> QED
        BY ONLY <2>3, <2>4, <2>5, <2>6, <4>1
    <3>4. \A j \in 1..Filled' : sector'[j] \in dirty' => cache'[sector'[j]] = logdata'[j]
      <4>1. \A j \in 1..n : sector[j] \in Block /\ cache[sector[j]] = logdata[j]
        BY ONLY <2>1, <2>2, LogInv DEF Buffers, Distinct, TransLabel
      <4>2. \A j \in 1..n : j \in Index
        BY ONLY <2>4, LogAssumption DEF Index
      <4>3. \A j \in 1..n : j # i => sector[j] # b
        BY ONLY <2>2, <2>4, <2>6, LogInv DEF Distinct
      <4> QED
        BY ONLY <2>3, <2>4, <2>5, <4>1, <4>2, <4>3
    <3> QED
      BY ONLY <2>2, <2>3, <2>5, <3>1, <3>2, <3>3, <3>4 DEF Buffers, TransLabel
  <2>9. Header'
    BY ONLY <1>2, <2>1, <2>2, <2>3, <2>4, <2>5, <2>6, LogInv DEF Header, TransLabel,
       log_write, TypeOK
  <2> QED
    BY ONLY <2>3, <2>7, <2>8, <2>9 DEF Rest
<1> QED
  BY <1>1, <1>2

(* Entries stay distinct when they are copied.                             *)
LEMMA DistinctCopy ==
  ASSUME NEW f, NEW g, NEW k, \A i \in 1..k : g[i] = f[i], Distinct(f, k)
  PROVE  Distinct(g, k)
BY DEF Distinct

(* No entries are distinct.                                                *)
LEMMA DistinctNone == \A f : Distinct(f, 0)
BY DEF Distinct

(* The steps of commit_trans.                                              *)
LEMMA CommitInv ==
  ASSUME LogInv, NEW p \in Proc,
         \/ commit_trans(p) \/ CommitHead(p) \/ CommitInstall(p)
         \/ CommitClear(p) \/ CommitEnd(p)
  PROVE  OneTransaction' /\ Opened' /\ Rest'
<1> USE LogAssumption DEF LogInv, Index
<1>0. /\ InTrans(p) /\ pc[p] # "append" /\ n \in Nat /\ hn \in Nat /\ n <= LogCap
      /\ hn <= LogCap /\ tail \in Nat /\ tail >= 1
      /\ boot = "done" /\ busy /\ \A l \in TransLabel : In(l) <=> pc[p] = l
      /\ Filled = n
  <2>1. InTrans(p) /\ pc[p] # "append"
    BY DEF commit_trans, CommitHead, CommitInstall, CommitClear, CommitEnd, InTrans
  <2> QED
    BY <2>1, Alone DEF TypeOK
<1>1. CASE commit_trans(p)
  <2>1. /\ OneTransaction' /\ Opened'
        /\ \A l \in TransLabel : In(l)' <=> l = pc'[p]
        /\ Filled' = n' /\ pc'[p] = (IF n > 0 THEN "head" ELSE "end")
    <3> DEFINE l == IF n > 0 THEN "head" ELSE "end"
    <3>1. l \in Label /\ l # "append" /\ l \in TransLabel
      BY ONLY TRUE DEF TransLabel, Label
    <3>2. pc' = [pc EXCEPT ![p] = l] /\ UNCHANGED <<boot, busy>> /\ pc'[p] = l
      BY <1>1, Zenon DEF commit_trans, TypeOK
    <3> HIDE DEF l
    <3>3. /\ OneTransaction' /\ Opened'
          /\ \A m \in TransLabel : In(m)' <=> l = m
          /\ Filled' = n'
      BY ONLY <1>0, <3>1, <3>2, AloneNext, LogInv
    <3> QED
      BY ONLY <3>2, <3>3 DEF l
  <2>2. UNCHANGED <<disk, logdata, hn, hsector, cache, dirty, n, sector, busy, boot, tail, idx>>
    BY ONLY <1>1 DEF commit_trans, durable
  <2>3. pc[p] = "trans" /\ \A q \in Proc : pc'[q] # "append"
    BY <1>1, <1>0, Alone DEF commit_trans, TypeOK
  <2>4. Distinct(hsector, hn)' /\ Distinct(sector, Filled)'
    <3>1. hn' = hn /\ hsector' = hsector /\ sector' = sector /\ Filled' = Filled
      BY <1>0, <2>1, <2>2, Zenon
    <3> QED
      BY <3>1 DEF Distinct
  <2>5. Buffers'
    BY <1>0, <2>1, <2>2, <2>3 DEF Buffers, TransLabel
  <2>6. Header'
    BY <1>0, <2>1, <2>2, <2>3 DEF Header, TransLabel
  <2> QED
    BY ONLY <2>1, <2>4, <2>5, <2>6 DEF Rest
<1>2. CASE CommitHead(p)
  <2>1. /\ OneTransaction' /\ Opened'
        /\ \A l \in TransLabel : In(l)' <=> "install" = l
        /\ Filled' = n'
    BY <1>0, <1>2, AloneNext, Zenon DEF CommitHead, TransLabel, Label
  <2>2. /\ UNCHANGED <<disk, logdata, cache, dirty, n, sector, busy, boot, idx>>
        /\ tail' = 1 /\ hn' = n
        /\ \A i \in 1..n : hsector'[i] = sector[i]
    BY <1>0, <1>2 DEF CommitHead, WriteHead
  <2>3. pc[p] = "head" /\ \A q \in Proc : pc'[q] # "append"
    BY ONLY <1>2, <1>0, Alone, LogInv DEF CommitHead, TypeOK
  <2>4. Distinct(hsector, hn)' /\ Distinct(sector, Filled)'
    <3>1. hn' = n /\ sector' = sector /\ Filled' = n /\ Distinct(sector, n)
      BY <1>0, <2>1, <2>2, Zenon
    <3>2. Distinct(hsector', n)
      BY <2>2, <3>1, DistinctCopy
    <3> QED
      BY ONLY <3>1, <3>2 DEF Distinct
  <2>5. Buffers'
    <3>1. /\ \A i \in 1..n : sector[i] \in dirty
          /\ \A i \in 1..n : sector[i] \in dirty => cache[sector[i]] = logdata[i]
          /\ \A b \in dirty : \E i \in 1..n : sector[i] = b
          /\ \A b \in Block : cache[b] # NoVal /\ b \notin dirty => cache[b] = disk[b]
      BY <1>0, <2>3, Zenon DEF Buffers, TransLabel
    <3>2. In("install")' /\ Filled' = n /\ n' = n /\ tail' = 1 /\ boot' = "done"
      BY <1>0, <2>1, <2>2, Zenon DEF TransLabel
    <3>3. \A i \in 1..n' : sector'[i] \in dirty' <=> i >= tail'
      BY ONLY <1>0, <2>2, <3>1, <3>2
    <3> QED
      BY <2>2, <3>1, <3>2, <3>3, Zenon DEF Buffers
  <2>6. Header'
    BY ONLY <1>0, <2>1, <2>2, <2>3 DEF Header, TransLabel
  <2> QED
    BY <2>1, <2>4, <2>5, <2>6 DEF Rest
<1>3. CASE CommitInstall(p) /\ ~Installed(tail)
  <2>1. pc' = pc /\ UNCHANGED <<boot, busy, n, idx, logdata, hn, hsector, sector>>
        /\ pc[p] = "install" /\ tail' = tail + 1 /\ InstallBlock(tail) /\ tail <= n
    BY ONLY <1>0, <1>3, LogInv DEF CommitInstall, Installed
  <2>2. /\ OneTransaction' /\ Opened'
        /\ \A l \in TransLabel : In(l)' <=> "install" = l
        /\ Filled' = n'
    BY ONLY <1>0, <2>1, LogInv DEF OneTransaction, Opened, InTrans, In, Filled
  <2>3. /\ sector[tail] \in Block /\ dirty' = dirty \ {sector[tail]}
        /\ disk'[sector[tail]] = logdata[tail] /\ cache'[sector[tail]] = logdata[tail]
        /\ \A c \in Block : c # sector[tail] => disk'[c] = disk[c] /\ cache'[c] = cache[c]
    BY <1>0, <2>1 DEF InstallBlock, Distinct, TypeOK
  <2>4. Distinct(hsector, hn)' /\ Distinct(sector, Filled)'
    <3>1. hn' = hn /\ hsector' = hsector /\ sector' = sector /\ Filled' = Filled
      BY <1>0, <2>1, <2>2, Zenon
    <3> QED
      BY <3>1 DEF Distinct
  <2>5. Buffers'
    <3> DEFINE s == sector[tail]
    <3>1. /\ \A b \in Block : cache[b] # NoVal /\ b \notin dirty => cache[b] = disk[b]
          /\ \A b \in dirty : \E i \in 1..n : sector[i] = b
          /\ \A i \in 1..n : sector[i] \in dirty <=> i >= tail
          /\ \A i \in 1..n : sector[i] \in dirty => cache[sector[i]] = logdata[i]
      BY <1>0, <2>1, Zenon DEF Buffers, TransLabel
    <3>2. \A i \in 1..n : sector[i] \in Block /\ (sector[i] = s => i = tail)
      BY ONLY <1>0, <2>1, LogInv DEF Distinct
    <3>3. \A b \in Block : cache'[b] # NoVal /\ b \notin dirty' => cache'[b] = disk'[b]
      BY <2>3, <3>1, Zenon
    <3>4. \A i \in 1..n : sector[i] \in dirty' <=> i >= tail + 1
      <4>1. n \in Nat /\ tail \in 1..n
        BY <1>0, <2>1 DEF TypeOK
      <4>2. \A i \in 1..n : sector[i] \in dirty' <=> sector[i] \in dirty /\ i # tail
        BY ONLY <2>3, <3>2
      <4>3. \A i \in 1..n : i >= tail + 1 <=> i >= tail /\ i # tail
        BY ONLY <4>1
      <4> QED
        BY ONLY <3>1, <4>2, <4>3, Zenon
    <3>5. \A i \in 1..n : sector[i] \in dirty' => cache'[sector[i]] = logdata[i]
      BY ONLY <2>3, <3>1, <3>2, Zenon
    <3>6. \A b \in dirty' : \E i \in 1..n : sector[i] = b
      BY <2>3, <3>1, Zenon
    <3>7. In("install")' /\ Filled' = n /\ n' = n /\ boot' = "done"
      BY <1>0, <2>1, <2>2 DEF TransLabel
    <3> QED
      BY <2>1, <3>3, <3>4, <3>5, <3>6, <3>7, Zenon DEF Buffers
  <2>6. Header'
    <3>1. /\ hn = n /\ \A i \in 1..n : hsector[i] = sector[i]
          /\ \A i \in 1..n : i < tail => disk[sector[i]] = logdata[i]
      BY <1>0, <2>1, Zenon DEF Header, TransLabel
    <3>2. \A i \in 1..n : i < tail + 1 => disk'[sector[i]] = logdata[i]
      <4>1. n \in Nat /\ tail \in 1..n /\ Distinct(sector, n)
        BY <1>0, <2>1
      <4>2. /\ disk'[sector[tail]] = logdata[tail]
            /\ \A c \in Block : c # sector[tail] => disk'[c] = disk[c]
        BY <2>3, Zenon
      <4>3. ASSUME NEW i \in 1..n, i < tail
            PROVE  disk'[sector[i]] = logdata[i]
        <5>1. sector[i] \in Block /\ sector[i] # sector[tail]
          BY ONLY <4>1, <4>3 DEF Distinct
        <5> QED
          BY ONLY <3>1, <4>2, <4>3, <5>1
      <4>4. \A i \in 1..n : i < tail + 1 => i < tail \/ i = tail
        BY ONLY <4>1
      <4> QED
        BY ONLY <4>2, <4>3, <4>4
    <3>3. \A q \in Proc : pc'[q] # "append"
      BY <1>0, <2>1, Alone, Zenon
    <3>4. /\ In("install")' /\ ~In("clear")' /\ ~In("end")' /\ busy' /\ boot' = "done"
          /\ tail' = tail + 1 /\ tail' <= n + 1
      BY <1>0, <2>1, <2>2 DEF TransLabel
    <3> QED
      BY <2>1, <3>1, <3>2, <3>3, <3>4 DEF Header
  <2> QED
    BY <2>2, <2>4, <2>5, <2>6 DEF Rest
<1>4. CASE CommitInstall(p) /\ Installed(tail)
  <2>1. /\ UNCHANGED <<disk, logdata, hn, hsector, cache, dirty, tail, sector, busy, boot, idx>>
        /\ n' = 0 /\ pc' = [pc EXCEPT ![p] = "clear"] /\ pc[p] = "install" /\ tail > n
    BY <1>0, <1>4, Zenon DEF CommitInstall, Installed
  <2>2. /\ OneTransaction' /\ Opened'
        /\ \A l \in TransLabel : In(l)' <=> "clear" = l
        /\ Filled' = 0
    BY <1>0, <2>1, AloneNext, Zenon DEF TransLabel, Label
  <2>3. \A q \in Proc : pc'[q] # "append"
    BY <2>1, <1>0, Alone, Zenon DEF TypeOK
  <2>4. Distinct(hsector, hn)' /\ Distinct(sector, Filled)'
    <3>1. hn' = hn /\ hsector' = hsector
      BY <2>1
    <3>2. Distinct(hsector, hn)'
      BY <3>1 DEF Distinct
    <3> QED
      BY <2>2, <3>2, DistinctNone
  <2>5. Buffers'
    BY ONLY <1>0, <2>1, <2>2, LogInv DEF Buffers, TransLabel
  <2>6. Header'
    BY ONLY <1>0, <2>1, <2>2, <2>3, LogInv DEF Header, TransLabel
  <2> QED
    BY <2>2, <2>4, <2>5, <2>6 DEF Rest
<1>5. CASE CommitClear(p)
  <2>1. /\ UNCHANGED <<disk, logdata, cache, dirty, n, tail, sector, busy, boot, idx>>
        /\ hn' = n /\ n = 0 /\ pc' = [pc EXCEPT ![p] = "end"] /\ pc[p] = "clear"
    BY <1>0, <1>5, Zenon DEF CommitClear, WriteHead, Header, TransLabel
  <2>2. /\ OneTransaction' /\ Opened'
        /\ \A l \in TransLabel : In(l)' <=> "end" = l
        /\ Filled' = 0
    BY <1>0, <2>1, AloneNext, Zenon DEF TransLabel, Label
  <2>3. \A q \in Proc : pc'[q] # "append"
    BY <2>1, <1>0, Alone, Zenon DEF TypeOK
  <2>4. Distinct(hsector, hn)' /\ Distinct(sector, Filled)'
    BY <2>1, <2>2, DistinctNone
  <2>5. Buffers'
    BY <1>0, <2>1, <2>2, Zenon DEF Buffers, TransLabel
  <2>6. Header'
    BY <1>0, <2>1, <2>2, <2>3, Zenon DEF Header, TransLabel
  <2> QED
    BY <2>2, <2>4, <2>5, <2>6, Zenon DEF Rest
<1>6. CASE CommitEnd(p)
  <2>1. /\ UNCHANGED <<disk, logdata, hn, hsector, cache, dirty, n, tail, sector, boot, idx>>
        /\ busy' = FALSE /\ n = 0 /\ pc' = [pc EXCEPT ![p] = "out"] /\ pc[p] = "end"
    BY <1>0, <1>6, Zenon DEF CommitEnd, Header, TransLabel, durable
  <2>2. /\ OneTransaction' /\ Opened'
        /\ \A l \in TransLabel : ~In(l)'
        /\ Filled' = 0
    BY <1>0, <2>1, AloneNext DEF TransLabel, Label
  <2>3. \A q \in Proc : pc'[q] # "append"
    BY <2>1, <1>0, Alone, Zenon DEF TypeOK
  <2>4. Distinct(hsector, hn)' /\ Distinct(sector, Filled)'
    <3>1. hn' = hn /\ hsector' = hsector
      BY <2>1
    <3>2. Distinct(hsector, hn)'
      BY <3>1, Zenon DEF Distinct
    <3> QED
      BY <2>2, <3>2, DistinctNone
  <2>5. Buffers'
    BY <1>0, <2>1, <2>2, Zenon DEF Buffers, TransLabel
  <2>6. Header'
    BY <1>0, <2>1, <2>2, <2>3, Zenon DEF Header, TransLabel
  <2> QED
    BY <2>2, <2>4, <2>5, <2>6 DEF Rest
<1> QED
  BY <1>1, <1>2, <1>3, <1>4, <1>5, <1>6, Zenon

(* Entering a transaction.                                                 *)
LEMMA EnterInv ==
  ASSUME LogInv, NEW p \in Proc, EnterSyscall(p) \/ begin_trans(p)
  PROVE  OneTransaction' /\ Opened' /\ Rest'
<1> USE LogAssumption DEF LogInv, Index
<1>0. UNCHANGED <<disk, logdata, hn, hsector, cache, dirty, n, sector, boot, tail, idx>>
  BY Zenon DEF EnterSyscall, begin_trans, durable
<1>1. CASE EnterSyscall(p)
  <2>1. pc[p] = "out" /\ pc' = [pc EXCEPT ![p] = "begin"] /\ busy' = busy /\ boot = "done"
    BY <1>1, Zenon DEF EnterSyscall
  <2>2. OneTransaction' /\ Opened'
    BY <1>0, <2>1 DEF OneTransaction, Opened, InTrans, TypeOK
  <2>3. \A l \in TransLabel : In(l)' <=> In(l)
    BY <2>1 DEF In, TransLabel, TypeOK
  <2>4. Filled' = Filled
    BY <1>0, <2>1, Zenon DEF Filled, TypeOK
  <2>5. Distinct(hsector, hn)' /\ Distinct(sector, Filled)'
    BY <1>0, <2>4, Zenon DEF Distinct
  <2>6. Buffers'
    BY <1>0, <2>3, <2>4, Zenon DEF Buffers, TransLabel
  <2>7. Header'
    BY <1>0, <2>1, <2>3, <2>4, Zenon DEF Header, TransLabel, TypeOK
  <2> QED
    BY <2>2, <2>5, <2>6, <2>7 DEF Rest
<1>2. CASE begin_trans(p)
  <2>1. pc[p] = "begin" /\ pc' = [pc EXCEPT ![p] = "trans"] /\ ~busy /\ busy'
    BY ONLY <1>2 DEF begin_trans
  <2>2. boot = "done" /\ \A q \in Proc : pc[q] \in {"out", "begin"}
    BY <2>1 DEF Opened, InTrans, TypeOK
  <2>3. OneTransaction' /\ Opened'
    BY <1>0, <2>1, <2>2, Zenon DEF OneTransaction, Opened, InTrans, TypeOK
  <2>4. \A l \in TransLabel : (In(l)' <=> l = "trans") /\ ~In(l)
    BY <2>1, <2>2 DEF In, TransLabel, TypeOK
  <2>5. Filled' = Filled /\ Filled = n /\ n = 0
    BY <1>0, <2>1, <2>2, Zenon DEF Filled, TypeOK, Header
  <2>6. Distinct(hsector, hn)' /\ Distinct(sector, Filled)'
    <3>1. hn' = hn /\ hsector' = hsector /\ sector' = sector /\ Filled' = Filled
      BY ONLY <1>0, <2>5
    <3> QED
      BY <3>1, Zenon DEF Distinct
  <2>7. Buffers'
    BY <1>0, <2>4, <2>5 DEF Buffers, TransLabel
  <2>8. Header'
    BY <1>0, <2>1, <2>2, <2>4, Zenon DEF Header, TransLabel, TypeOK
  <2> QED
    BY <2>3, <2>6, <2>7, <2>8 DEF Rest
<1> QED
  BY <1>1, <1>2, Zenon

(* The buffer cache fills with, and recycles, clean buffers only.           *)
LEMMA CacheInv ==
  ASSUME LogInv, NEW b \in Block, Bread(b) \/ Evict(b)
  PROVE  OneTransaction' /\ Opened' /\ Rest'
<1> USE DEF LogInv
<1>1. UNCHANGED <<disk, logdata, hn, hsector, dirty, n, sector, busy, pc, boot, tail, idx>>
  BY Zenon DEF Bread, Evict, durable
<1>2. /\ \A c \in Block : c # b => cache'[c] = cache[c]
      /\ cache'[b] \in {NoVal, disk[b]}
      /\ b \in dirty => cache[b] = NoVal
  BY Zenon DEF Bread, Evict, TypeOK
<1>3. OneTransaction' /\ Opened' /\ Distinct(hsector, hn)' /\ Filled' = Filled
      /\ Header' /\ \A l \in TransLabel : In(l)' <=> In(l)
  BY ONLY <1>1, LogInv DEF OneTransaction, Opened, InTrans, Distinct, Filled, Header, In
<1>4. Distinct(sector, Filled)'
  BY <1>1, <1>3 DEF Distinct
<1>5. b \notin dirty
  <2> SUFFICES ASSUME b \in dirty PROVE FALSE
    OBVIOUS
  <2>1. PICK i \in 1..Filled : sector[i] = b
    BY Zenon DEF Buffers
  <2>2. cache[b] = logdata[i]
    BY <2>1, Zenon DEF Buffers
  <2>3. i \in Index
    BY <2>1, LogAssumption DEF Filled, TypeOK, Index, Header
  <2> QED
    <3>1. logdata[i] \in Val /\ NoVal \notin Val
      BY <2>3, LogAssumption DEF TypeOK
    <3>2. cache[b] = NoVal
      BY <1>2, Zenon
    <3> QED
      BY <2>2, <3>1, <3>2, Zenon
<1>6. Buffers'
  <2>1. \A c \in Block : cache'[c] # NoVal /\ c \notin dirty => cache'[c] = disk[c]
    BY <1>2, Zenon DEF Buffers
  <2>2. \A c \in dirty : c \in Block /\ cache'[c] = cache[c]
    BY <1>2, <1>5, Zenon DEF TypeOK
  <2>3. In("install")' <=> In("install")
    BY ONLY <1>3 DEF TransLabel
  <2> QED
    BY ONLY <1>1, <1>3, <2>1, <2>2, <2>3, LogInv DEF Buffers
<1> QED
  BY <1>3, <1>4, <1>6 DEF Rest

(* Recovery, and a crash at any point, recovery included.                  *)
LEMMA RecoverInv ==
  ASSUME LogInv, RecoverRead \/ RecoverInstall \/ RecoverClear \/ Crash
  PROVE  OneTransaction' /\ Opened' /\ Rest'
<1> USE LogAssumption DEF LogInv, Index
<1>0. n \in Nat /\ hn \in Nat /\ n <= LogCap /\ hn <= LogCap /\ tail \in Nat /\ tail >= 1
  BY DEF TypeOK
<1>1. CASE Crash
  <2>1. /\ UNCHANGED <<disk, logdata, hn, hsector>> /\ boot' = "read" /\ n' = 0
        /\ dirty' = {} /\ busy' = FALSE /\ \A p \in Proc : pc'[p] = "out"
        /\ \A b \in Block : cache'[b] = NoVal
    BY <1>1 DEF Crash, durable
  <2>2. Filled' = 0 /\ ~In("install")' /\ ~In("clear")' /\ ~In("end")'
    BY <2>1, Zenon DEF Filled, In
  <2>3. OneTransaction' /\ Opened'
    BY ONLY <2>1 DEF OneTransaction, Opened, InTrans
  <2>4. Distinct(hsector, hn)' /\ Distinct(sector, Filled)'
    BY ONLY <1>0, <2>1, <2>2, LogInv DEF Distinct
  <2>5. Buffers' /\ Header'
    BY <2>1, <2>2, Zenon DEF Buffers, Header
  <2> QED
    BY <2>3, <2>4, <2>5, Zenon DEF Rest
<1>2. ASSUME boot # "done", UNCHANGED <<pc, idx, busy>>,
             boot' \in {"install", "clear", "done"}
      PROVE  /\ \A p \in Proc : pc'[p] = "out"
             /\ OneTransaction' /\ Opened' /\ Filled' = n' /\ Filled = n /\ ~busy
             /\ \A l \in TransLabel : ~In(l) /\ ~In(l)'
  BY <1>2, Zenon DEF OneTransaction, Opened, InTrans, Filled, In, TransLabel
<1>3. CASE RecoverRead
  <2>1. /\ UNCHANGED <<disk, logdata, hn, hsector, cache, dirty, busy, pc, idx>>
        /\ boot = "read" /\ boot' = "install" /\ n' = hn /\ tail' = 1
        /\ \A i \in 1..hn : sector'[i] = hsector[i]
    BY <1>0, <1>3 DEF RecoverRead, durable
  <2>2. OneTransaction' /\ Opened' /\ Filled' = n' /\ Filled = n
        /\ \A l \in TransLabel : ~In(l) /\ ~In(l)'
    BY <1>2, <2>1, Zenon
  <2>3. Distinct(hsector, hn)' /\ Distinct(sector, Filled)'
    BY <1>0, <2>1, <2>2 DEF Distinct
  <2>4. Buffers'
    BY <2>1, <2>2, Zenon DEF Buffers, TransLabel
  <2>5. Header'
    <3>1. /\ boot' = "install" /\ hn' = n' /\ n' \in Nat /\ tail' = 1
          /\ \A i \in 1..n' : hsector'[i] = sector'[i]
      BY <1>0, <2>1
    <3>2. tail' <= n' + 1 /\ \A i \in 1..n' : ~(i < tail')
      <4>1. n' \in Nat /\ tail' = 1
        BY ONLY <3>1
      <4>2. PICK k \in Nat : k = n'
        BY ONLY <4>1
      <4>3. 1 <= k + 1 /\ \A i \in 1..k : ~(i < 1)
        OBVIOUS
      <4> QED
        BY ONLY <4>1, <4>2, <4>3, LogInv
    <3>3. ~In("clear")' /\ ~In("end")' /\ \A p \in Proc : pc'[p] # "append"
      BY ONLY <2>2 DEF In, TransLabel
    <3> QED
      BY ONLY <3>1, <3>2, <3>3, Zenon DEF Header
  <2> QED
    BY <2>2, <2>3, <2>4, <2>5, Zenon DEF Rest
<1>4. CASE RecoverInstall /\ ~Installed(tail)
  <2>1. /\ UNCHANGED <<n, boot, logdata, hn, hsector, sector, busy, pc, idx>>
        /\ boot = "install" /\ tail' = tail + 1 /\ InstallBlock(tail) /\ tail <= n
    BY ONLY <1>0, <1>4 DEF RecoverInstall, Installed
  <2>2. OneTransaction' /\ Opened' /\ Filled' = n' /\ Filled = n
        /\ \A l \in TransLabel : ~In(l) /\ ~In(l)'
    BY <1>2, <2>1
  <2>3. /\ sector[tail] \in Block /\ dirty' = {} /\ dirty = {}
        /\ disk'[sector[tail]] = logdata[tail] /\ cache'[sector[tail]] = logdata[tail]
        /\ \A c \in Block : c # sector[tail] => disk'[c] = disk[c] /\ cache'[c] = cache[c]
    BY <1>0, <2>1, <2>2 DEF InstallBlock, Distinct, TypeOK, Buffers
  <2>4. Distinct(hsector, hn)' /\ Distinct(sector, Filled)'
    <3>1. hn' = hn /\ hsector' = hsector /\ sector' = sector /\ Filled' = Filled
      BY <1>0, <2>1, <2>2
    <3> QED
      BY <3>1, Zenon DEF Distinct
  <2>5. Buffers'
    BY ONLY <1>0, <2>1, <2>2, <2>3, LogInv, RecoverRead \/ RecoverInstall \/ RecoverClear
       \/ Crash DEF Buffers, TransLabel, Distinct
  <2>6. Header'
    <3>1. /\ hn = n /\ \A i \in 1..n : hsector[i] = sector[i]
          /\ \A i \in 1..n : i < tail => disk[sector[i]] = logdata[i]
      BY <2>1, Zenon DEF Header
    <3>2. \A i \in 1..n : i < tail + 1 => disk'[sector[i]] = logdata[i]
      <4>1. n \in Nat /\ tail \in 1..n /\ Distinct(sector, n)
        BY <1>0, <2>1, <2>2
      <4>2. /\ disk'[sector[tail]] = logdata[tail]
            /\ \A c \in Block : c # sector[tail] => disk'[c] = disk[c]
        BY <2>3, Zenon
      <4>3. ASSUME NEW i \in 1..n, i < tail
            PROVE  disk'[sector[i]] = logdata[i]
        <5>1. sector[i] \in Block /\ sector[i] # sector[tail]
          BY ONLY <4>1, <4>3 DEF Distinct
        <5> QED
          BY ONLY <3>1, <4>2, <4>3, <5>1
      <4>4. \A i \in 1..n : i < tail + 1 => i < tail \/ i = tail
        BY ONLY <4>1
      <4> QED
        BY ONLY <4>2, <4>3, <4>4, Zenon
    <3>3. /\ \A q \in Proc : pc'[q] # "append"
          /\ ~In("clear")' /\ ~In("end")' /\ boot' = "install"
          /\ tail' = tail + 1 /\ tail' <= n + 1
      BY ONLY <1>0, <1>2, <2>1, <2>2 DEF TransLabel
    <3> QED
      BY ONLY <2>1, <3>1, <3>2, <3>3 DEF Header
  <2> QED
    BY <2>2, <2>4, <2>5, <2>6 DEF Rest
<1>5. CASE RecoverInstall /\ Installed(tail)
  <2>1. /\ UNCHANGED <<disk, logdata, hn, hsector, cache, dirty, tail, sector, busy, pc, idx>>
        /\ boot = "install" /\ boot' = "clear" /\ n' = 0 /\ tail > n
    BY <1>0, <1>5, Zenon DEF RecoverInstall, Installed
  <2>2. OneTransaction' /\ Opened' /\ Filled' = 0 /\ Filled = n
        /\ \A l \in TransLabel : ~In(l) /\ ~In(l)'
    BY ONLY <1>2, <2>1, LogInv
  <2>3. Distinct(hsector, hn)' /\ Distinct(sector, Filled)'
    BY <1>0, <2>1, <2>2 DEF Distinct
  <2>4. Buffers'
    BY <2>1, <2>2, Zenon DEF Buffers, TransLabel
  <2>5. Header'
    <3>1. \A i \in 1..hn : disk[hsector[i]] = logdata[i]
      <4>1. /\ hn = n /\ \A i \in 1..n : hsector[i] = sector[i]
            /\ \A i \in 1..n : i < tail => disk[sector[i]] = logdata[i]
        BY <2>1, Zenon DEF Header
      <4>2. \A i \in 1..n : i < tail
        BY <1>0, <2>1
      <4> QED
        BY <4>1, <4>2, Zenon
    <3>2. ~In("install")' /\ \A q \in Proc : pc'[q] # "append"
      BY ONLY <1>2, <2>1, <2>2 DEF TransLabel
    <3> QED
      BY <2>1, <3>1, <3>2, Zenon DEF Header
  <2> QED
    BY <2>2, <2>3, <2>4, <2>5 DEF Rest
<1>6. CASE RecoverClear
  <2>1. /\ UNCHANGED <<disk, logdata, cache, dirty, n, tail, sector, busy, pc, idx>>
        /\ boot = "clear" /\ boot' = "done" /\ hn' = n /\ n = 0
    BY <1>6, Zenon DEF RecoverClear, WriteHead, Header
  <2>2. OneTransaction' /\ Opened' /\ Filled' = 0 /\ Filled = n
        /\ \A l \in TransLabel : ~In(l) /\ ~In(l)'
    BY <1>2, <2>1
  <2>3. Distinct(hsector, hn)' /\ Distinct(sector, Filled)'
    BY ONLY <1>0, <2>1, <2>2 DEF Distinct
  <2>4. Buffers'
    <3>1. dirty' = {} /\ ~In("install")'
      BY <2>1, <2>2, Zenon DEF Buffers, TransLabel
    <3>2. 1..0 = {}
      OBVIOUS
    <3> QED
      BY <2>1, <2>2, <3>1, <3>2, Zenon DEF Buffers
  <2>5. Header'
    BY <1>0, <1>2, <2>1, <2>2, Zenon DEF Header, TransLabel
  <2> QED
    BY <2>2, <2>3, <2>4, <2>5 DEF Rest
<1> QED
  BY <1>1, <1>3, <1>4, <1>5, <1>6, Zenon

(* The invariant is inductive.                                             *)
LEMMA InvStep == LogInv /\ [Next]_vars => LogInv'
<1> SUFFICES ASSUME LogInv, [Next]_vars PROVE LogInv'
  OBVIOUS
<1>1. TypeOK'
  BY TypeStep DEF LogInv
<1>2. OneTransaction' /\ Opened' /\ Rest'
  <2>1. CASE UNCHANGED vars
    <3> USE <2>1 DEF vars, durable, LogInv
    <3>1. OneTransaction' /\ Opened' /\ Filled' = Filled
      BY Zenon DEF OneTransaction, Opened, InTrans, Filled
    <3>2. Distinct(hsector, hn)' /\ Distinct(sector, Filled)'
      BY <3>1, Zenon DEF Distinct
    <3>3. Buffers'
      BY <3>1, Zenon DEF Buffers, In
    <3>4. Header'
      BY Zenon DEF Header, In
    <3> QED
      BY <3>1, <3>2, <3>3, <3>4 DEF Rest
  <2>2. CASE \E p \in Proc : ProcStep(p)
    BY <2>2, EnterInv, WriteInv, CommitInv, Zenon DEF ProcStep
  <2>3. CASE \E b \in Block : Bread(b) \/ Evict(b)
    BY <2>3, CacheInv
  <2>4. CASE RecoverRead \/ RecoverInstall \/ RecoverClear \/ Crash
    BY <2>4, RecoverInv
  <2> QED
    BY <2>1, <2>2, <2>3, <2>4, Zenon DEF Next
<1> QED
  BY <1>1, <1>2 DEF LogInv, Rest

(* The log's invariant holds in every reachable state: one transaction at a *)
(* time (begin_trans), clean buffers equal to the disk, and an on-disk       *)
(* header that is empty or describes exactly the blocks being installed.     *)
THEOREM LogInvariance == Spec => []LogInv
<1>1. Init => LogInv
  BY InitInv
<1>2. LogInv /\ [Next]_vars => LogInv'
  BY InvStep
<1> QED
  BY <1>1, <1>2, PTL DEF Spec

-----------------------------------------------------------------------------
(* Refinement.  What recovery would produce, block by block.               *)
LEMMA RecoveredBlock ==
  ASSUME LogInv
  PROVE  /\ \A i \in 1..hn : Recovered[hsector[i]] = logdata[i]
         /\ \A b \in Block : (\A i \in 1..hn : hsector[i] # b) => Recovered[b] = disk[b]
         /\ (\A i \in 1..hn : disk[hsector[i]] = logdata[i]) => Recovered = disk
         /\ hn = 0 => Recovered = disk
<1> USE DEF LogInv
<1>1. ASSUME NEW i \in 1..hn PROVE Recovered[hsector[i]] = logdata[i]
  <2>1. hsector[i] \in Block
    BY Zenon DEF Distinct
  <2>2. (CHOOSE j \in 1..hn : hsector[j] = hsector[i]) = i
    BY DEF Distinct
  <2> QED
    BY <2>1, <2>2, Zenon DEF Recovered
<1>2. ASSUME NEW b \in Block, \A i \in 1..hn : hsector[i] # b PROVE Recovered[b] = disk[b]
  BY ONLY <1>2 DEF Recovered
<1>3. ASSUME \A i \in 1..hn : disk[hsector[i]] = logdata[i] PROVE Recovered = disk
  <2>1. \A b \in Block : Recovered[b] = disk[b]
    BY ONLY <1>1, <1>2, <1>3
  <2>2. Recovered = [b \in Block |-> Recovered[b]] /\ disk = [b \in Block |-> disk[b]]
    BY DEF Recovered, TypeOK
  <2> QED
    BY <2>1, <2>2, Zenon
<1>4. hn = 0 => Recovered = disk
  BY <1>3
<1> QED
  BY <1>1, <1>2, <1>3, <1>4, Zenon

(* A clean cache shows the disk.                                           *)
LEMMA CleanView ==
  ASSUME LogInv, dirty = {} PROVE View = disk
<1>1. \A b \in Block : View[b] = disk[b]
  BY Zenon DEF LogInv, View, Buffers
<1>2. View = [b \in Block |-> View[b]] /\ disk = [b \in Block |-> disk[b]]
  BY Zenon DEF View, LogInv, TypeOK
<1> QED
  BY <1>1, <1>2

(* The initial states are initial states of the atomic disk.               *)
LEMMA RefineInit == Init => Atomic!Init
<1> SUFFICES ASSUME Init PROVE Atomic!Init
  OBVIOUS
<1>1. Recovered = disk
  BY InitInv, RecoveredBlock, Zenon DEF Init
<1> QED
  BY <1>1 DEF Init, Atomic!Init, Current

Stutter == UNCHANGED <<Recovered, Current, busy>>

(* A log_write is a write of the atomic disk.                              *)
LEMMA RefineWrite ==
  ASSUME LogInv, NEW p \in Proc, NEW b \in Block, NEW v \in Val, NEW i \in Index,
         log_write(p, b, v, i)
  PROVE  Atomic!Write(b, v)
<1> USE LogAssumption
<1>1. InTrans(p) /\ pc[p] = "trans"
  BY DEF log_write, InTrans
<1>2. busy /\ boot = "done" /\ ~In("install") /\ ~In("clear")
  BY <1>1, Alone, Zenon DEF LogInv, TransLabel
<1>3. hn = 0
  BY <1>2, Zenon DEF LogInv, Header
<1>4. UNCHANGED <<disk, hn, hsector, busy, boot>> /\ cache' = [cache EXCEPT ![b] = v]
  BY DEF log_write
<1>5. Recovered' = Recovered
  BY ONLY <1>3, <1>4, LogInv, log_write(p, b, v, i) DEF Recovered
<1>6. View' = [View EXCEPT ![b] = v]
  BY <1>4, Zenon DEF View, LogInv, TypeOK
<1> QED
  BY <1>2, <1>4, <1>5, <1>6, Zenon DEF Atomic!Write, Current

(* The write of a non-empty header is the commit; installing and erasing   *)
(* change neither what is committed nor what is read.                      *)
LEMMA RefineCommit ==
  ASSUME LogInv, LogInv', NEW p \in Proc,
         \/ commit_trans(p) \/ CommitHead(p) \/ CommitInstall(p)
         \/ CommitClear(p) \/ CommitEnd(p)
  PROVE  Atomic!Commit \/ Atomic!End \/ Stutter
<1> USE LogAssumption DEF LogInv, Index
<1>0. /\ InTrans(p) /\ pc[p] # "append" /\ n \in Nat /\ hn \in Nat /\ tail \in Nat
      /\ tail >= 1 /\ n <= LogCap
      /\ boot = "done" /\ busy /\ \A l \in TransLabel : In(l) <=> pc[p] = l
      /\ Filled = n
  <2>1. InTrans(p) /\ pc[p] # "append"
    BY Zenon DEF commit_trans, CommitHead, CommitInstall, CommitClear, CommitEnd, InTrans
  <2> QED
    BY ONLY <2>1, Alone, LogInv DEF TypeOK
<1>1. CASE commit_trans(p)
  BY <1>1, Zenon DEF commit_trans, durable, Stutter, Recovered, Current, View
<1>2. CASE CommitHead(p)
  <2>1. /\ UNCHANGED <<disk, cache, logdata, dirty, busy, boot>> /\ hn' = n /\ pc[p] = "head"
        /\ \A i \in 1..n : hsector'[i] = sector[i]
    <3>1. /\ UNCHANGED <<disk, cache, logdata, dirty, busy, boot>> /\ hn' = n
          /\ pc[p] = "head"
          /\ hsector' = [i \in 1..LogCap |-> IF i <= n THEN sector[i] ELSE hsector[i]]
      BY ONLY <1>2 DEF CommitHead, WriteHead
    <3>2. n <= LogCap
      BY ONLY LogInv DEF TypeOK
    <3> QED
      BY ONLY <1>0, <3>1, <3>2, LogAssumption
  <2>2. View' = View
    BY <2>1, Zenon DEF View
  <2>3. \A b \in Block : Recovered'[b] = View[b]
    <3> SUFFICES ASSUME NEW b \in Block PROVE Recovered'[b] = View[b]
      BY Zenon
    <3>1. CASE \E i \in 1..n : sector[i] = b
      <4>1. PICK i \in 1..n : sector[i] = b
        BY ONLY <3>1
      <4>2. (CHOOSE j \in 1..hn' : hsector'[j] = b) = i
        <5>1. \A j \in 1..n : sector[j] = b => j = i
          BY <1>0, <4>1, Zenon DEF Distinct
        <5>2. i \in 1..hn' /\ \A j \in 1..hn' : hsector'[j] = b <=> j = i
          BY <2>1, <4>1, <5>1, Zenon
        <5> QED
          BY <5>2
      <4>3. Recovered'[b] = logdata[i]
        BY ONLY <2>1, <4>1, <4>2 DEF Recovered
      <4>4. cache[b] = logdata[i] /\ i \in Index
        <5>1. /\ \A j \in 1..n : sector[j] \in dirty
              /\ \A j \in 1..n : sector[j] \in dirty => cache[sector[j]] = logdata[j]
          BY <1>0, <2>1, Zenon DEF Buffers, TransLabel
        <5>2. i \in 1..LogCap
          BY <1>0, <4>1
        <5> QED
          BY <4>1, <5>1, <5>2, Zenon
      <4> QED
        <5>1. logdata[i] \in Val /\ NoVal \notin Val
          BY <4>4, Zenon DEF TypeOK
        <5> QED
          BY <4>3, <4>4, <5>1, Zenon DEF View
    <3>2. CASE \A i \in 1..n : sector[i] # b
      <4>1. Recovered'[b] = disk[b]
        BY <2>1, <3>2, Zenon DEF Recovered
      <4>2. b \notin dirty
        BY <1>0, <3>2, Zenon DEF Buffers
      <4> QED
        BY <4>1, <4>2, Zenon DEF View, Buffers
    <3> QED
      BY <3>1, <3>2, Zenon
  <2>4. Recovered' = View
    BY <2>3, Zenon DEF Recovered, View
  <2> QED
    BY ONLY <1>0, <2>1, <2>2, <2>4 DEF Atomic!Commit, Current
<1>3. CASE CommitInstall(p) /\ ~Installed(tail)
  <2>1. /\ UNCHANGED <<boot, busy, n, logdata, hn, hsector, sector>>
        /\ pc[p] = "install" /\ InstallBlock(tail) /\ tail \in 1..n
        /\ hn = n /\ hsector[tail] = sector[tail] /\ sector[tail] \in Block
    <3>1. /\ UNCHANGED <<boot, busy, n, logdata, hn, hsector, sector>>
          /\ pc[p] = "install" /\ InstallBlock(tail) /\ ~(tail > n)
      BY ONLY <1>3 DEF CommitInstall, Installed
    <3>2. hn = n /\ \A i \in 1..n : hsector[i] = sector[i]
      BY <1>0, <3>1, Zenon DEF Header, TransLabel
    <3>3. tail \in 1..n
      BY <1>0, <3>1
    <3> QED
      BY <1>0, <3>1, <3>2, <3>3, Zenon DEF Distinct
  <2>2. /\ disk' = [disk EXCEPT ![sector[tail]] = logdata[tail]]
        /\ cache' = [cache EXCEPT ![sector[tail]] = logdata[tail]]
    BY <2>1, Zenon DEF InstallBlock
  <2>3. Recovered' = Recovered
    <3>1. \A b \in Block : (\A i \in 1..hn : hsector[i] # b) => disk'[b] = disk[b]
      BY ONLY <2>1, <2>2, LogInv DEF TypeOK
    <3> QED
      BY ONLY <2>1, <3>1, LogInv DEF Recovered
  <2>4. View' = View
    <3>1. cache[sector[tail]] = logdata[tail] /\ logdata[tail] \in Val
      <4>1. /\ \A i \in 1..n : sector[i] \in dirty <=> i >= tail
            /\ \A i \in 1..n : sector[i] \in dirty => cache[sector[i]] = logdata[i]
        BY <1>0, <2>1, Zenon DEF Buffers, TransLabel
      <4>2. sector[tail] \in dirty
        <5>1. tail \in 1..n /\ tail >= tail
          BY <1>0, <2>1
        <5> QED
          BY <4>1, <5>1, Zenon
      <4>3. tail \in 1..LogCap
        BY <1>0, <2>1
      <4>4. logdata[tail] \in Val
        BY <4>3, Zenon DEF TypeOK
      <4> QED
        BY ONLY <2>1, <4>1, <4>2, <4>4
    <3> QED
      BY <2>1, <2>2, <3>1, Zenon DEF View, TypeOK
  <2> QED
    BY <1>0, <2>1, <2>3, <2>4 DEF Stutter, Current
<1>4. CASE CommitInstall(p) /\ Installed(tail)
  <2>1. UNCHANGED <<disk, logdata, hn, hsector, cache, busy, boot>>
    BY <1>4, Zenon DEF CommitInstall
  <2> QED
    BY <2>1, Zenon DEF Stutter, Current, View, Recovered
<1>5. CASE CommitClear(p)
  <2>1. /\ UNCHANGED <<disk, cache, busy, boot>> /\ hn' = 0
        /\ \A i \in 1..hn : disk[hsector[i]] = logdata[i]
    BY <1>0, <1>5, Zenon DEF CommitClear, WriteHead, Header, TransLabel
  <2>2. Recovered = disk
    BY <2>1, RecoveredBlock, Zenon
  <2>3. Recovered' = disk
    BY ONLY <2>1, LogInv DEF Recovered, TypeOK
  <2> QED
    BY <2>1, <2>2, <2>3 DEF Stutter, Current, View
<1>6. CASE CommitEnd(p)
  <2>1. /\ UNCHANGED <<disk, logdata, hn, hsector, cache, boot>> /\ busy' = FALSE
        /\ n = 0 /\ hn = 0 /\ dirty = {}
    <3>1. /\ UNCHANGED <<disk, logdata, hn, hsector, cache, boot>> /\ busy' = FALSE
          /\ pc[p] = "end"
      BY <1>6, Zenon DEF CommitEnd, durable
    <3>2. n = 0 /\ hn = 0
      BY <1>0, <3>1, Zenon DEF Header, TransLabel
    <3>3. dirty = {}
      <4>1. Filled = 0 /\ \A b \in dirty : \E i \in 1..Filled : sector[i] = b
        BY <1>0, <3>2, Zenon DEF Buffers
      <4>2. 1..0 = {}
        OBVIOUS
      <4> QED
        BY <4>1, <4>2
    <3> QED
      BY <3>1, <3>2, <3>3, Zenon
  <2>2. Recovered = disk /\ View = disk
    BY <2>1, RecoveredBlock, CleanView, Zenon
  <2>3. Recovered' = Recovered /\ View' = View
    BY <2>1, Zenon DEF Recovered, View
  <2> QED
    BY <1>0, <2>1, <2>2, <2>3, Zenon DEF Atomic!End, Current
<1> QED
  BY <1>1, <1>2, <1>3, <1>4, <1>5, <1>6, Zenon

(* Recovery changes nothing that the atomic disk shows.                    *)
LEMMA RefineRecover ==
  ASSUME LogInv, RecoverRead \/ RecoverInstall \/ RecoverClear
  PROVE  Stutter
<1> USE LogAssumption DEF LogInv, Index
<1>0. n \in Nat /\ hn \in Nat /\ tail \in Nat /\ tail >= 1
  BY DEF TypeOK
<1>1. CASE RecoverRead
  BY <1>1, Zenon DEF RecoverRead, durable, Stutter, Recovered, Current
<1>2. CASE RecoverInstall /\ ~Installed(tail)
  <2>1. /\ UNCHANGED <<boot, busy, n, logdata, hn, hsector, sector>>
        /\ boot = "install" /\ InstallBlock(tail) /\ tail \in 1..n
        /\ hn = n /\ hsector[tail] = sector[tail] /\ sector[tail] \in Block
    <3>1. /\ UNCHANGED <<boot, busy, n, logdata, hn, hsector, sector>>
          /\ boot = "install" /\ InstallBlock(tail) /\ ~(tail > n)
      BY <1>2 DEF RecoverInstall, Installed
    <3>2. hn = n /\ \A i \in 1..n : hsector[i] = sector[i]
      BY <3>1, Zenon DEF Header
    <3>3. tail \in 1..n
      BY ONLY <1>0, <3>1
    <3>4. hsector[tail] \in Block
      BY <3>2, <3>3, Zenon DEF Distinct
    <3> QED
      BY <3>1, <3>2, <3>3, <3>4, Zenon
  <2>2. disk' = [disk EXCEPT ![sector[tail]] = logdata[tail]]
    BY <2>1 DEF InstallBlock
  <2>3. Recovered' = Recovered
    BY <2>1, <2>2, Zenon DEF Recovered, TypeOK
  <2> QED
    BY <2>1, <2>3, Zenon DEF Stutter, Current
<1>3. CASE RecoverInstall /\ Installed(tail)
  <2>1. UNCHANGED <<disk, logdata, hn, hsector, busy>> /\ boot = "install" /\ boot' = "clear"
    BY <1>3, Zenon DEF RecoverInstall
  <2> QED
    BY <2>1, Zenon DEF Stutter, Current, Recovered
<1>4. CASE RecoverClear
  <2>1. /\ UNCHANGED <<disk, cache, busy>> /\ hn' = 0 /\ boot = "clear" /\ boot' = "done"
        /\ \A i \in 1..hn : disk[hsector[i]] = logdata[i]
        /\ dirty = {}
    BY <1>4, Zenon DEF RecoverClear, WriteHead, Header, Buffers
  <2>2. Recovered = disk /\ View = disk
    BY <2>1, RecoveredBlock, CleanView, Zenon
  <2>3. Recovered' = disk
    BY ONLY <2>1, LogInv, RecoverRead \/ RecoverInstall \/ RecoverClear DEF Recovered,
       TypeOK
  <2>4. View' = View
    BY <2>1, Zenon DEF View
  <2> QED
    BY ONLY <2>1, <2>2, <2>3, <2>4 DEF Stutter, Current
<1> QED
  BY <1>1, <1>2, <1>3, <1>4

(* The steps that enter a transaction, count a log block, fill or evict a   *)
(* buffer, and the crash.                                                  *)
LEMMA RefineOther ==
  ASSUME LogInv,
         \/ \E p \in Proc : EnterSyscall(p) \/ begin_trans(p) \/ LogCount(p)
         \/ \E b \in Block : Bread(b) \/ Evict(b)
         \/ Crash
  PROVE  Atomic!Begin \/ Atomic!Crash \/ Stutter
<1> USE DEF LogInv
<1>1. ASSUME NEW p \in Proc, EnterSyscall(p) \/ LogCount(p) PROVE Stutter
  BY ONLY <1>1 DEF EnterSyscall, LogCount, durable, Stutter, Recovered, Current, View
<1>2. ASSUME NEW p \in Proc, begin_trans(p) PROVE Atomic!Begin
  <2>1. UNCHANGED <<disk, logdata, hn, hsector, cache, boot>> /\ ~busy /\ busy' = TRUE
    BY ONLY <1>2 DEF begin_trans, durable
  <2> QED
    BY <2>1, Zenon DEF Atomic!Begin, Recovered, Current, View
<1>3. ASSUME NEW b \in Block, Bread(b) \/ Evict(b) PROVE Stutter
  <2>1. /\ UNCHANGED <<disk, logdata, hn, hsector, busy, boot>>
        /\ \A c \in Block : c # b => cache'[c] = cache[c]
    BY <1>3, Zenon DEF Bread, Evict, durable, TypeOK
  <2>2. View'[b] = View[b]
    BY <1>3, <2>1, Zenon DEF Bread, Evict, View, TypeOK, Buffers
  <2>3. View' = View
    BY <2>1, <2>2, Zenon DEF View
  <2> QED
    BY <2>1, <2>3, Zenon DEF Stutter, Recovered, Current
<1>4. CASE Crash
  BY <1>4, Zenon DEF Crash, durable, Atomic!Crash, Recovered, Current
<1> QED
  BY <1>1, <1>2, <1>3, <1>4, Zenon

(* log.c implements the atomic disk: every behaviour of the log, with a     *)
(* crash after any step of a transaction, of its commit or of a recovery,   *)
(* is a behaviour of a disk whose transactions happen as a whole.           *)
THEOREM LogRefinement == Spec => ImplementsAtomicDisk
<1>1. Init => Atomic!Init
  BY RefineInit
<1>2. LogInv /\ LogInv' /\ [Next]_vars => [Atomic!Next]_(Atomic!vars)
  <2> SUFFICES ASSUME LogInv, LogInv', [Next]_vars
               PROVE  Atomic!Next \/ Stutter
    BY DEF Stutter, Atomic!vars
  <2>1. CASE UNCHANGED vars
    BY <2>1, Zenon DEF vars, durable, Stutter, Recovered, Current, View
  <2>2. ASSUME NEW p \in Proc, ProcStep(p) PROVE Atomic!Next \/ Stutter
    BY <2>2, RefineWrite, RefineCommit, RefineOther, Zenon DEF ProcStep, Atomic!Next
  <2>3. CASE \E b \in Block : Bread(b) \/ Evict(b)
    BY <2>3, RefineOther DEF Atomic!Next
  <2>4. CASE RecoverRead \/ RecoverInstall \/ RecoverClear
    BY <2>4, RefineRecover
  <2>5. CASE Crash
    BY <2>5, RefineOther DEF Atomic!Next
  <2> QED
    BY <2>1, <2>2, <2>3, <2>4, <2>5 DEF Next
<1> QED
  BY <1>1, <1>2, LogInvariance, PTL DEF Spec, ImplementsAtomicDisk, Atomic!Spec

(* begin_trans lets one process at a time into a transaction, whatever the   *)
(* others do and whenever the machine crashes.                              *)
THEOREM LogAlone == Spec => []OneTransaction
<1>1. LogInv => OneTransaction
  BY DEF LogInv
<1> QED
  BY <1>1, LogInvariance, PTL
=============================================================================
