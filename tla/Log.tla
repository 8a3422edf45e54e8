-------------------------------- MODULE Log ---------------------------------
(***************************************************************************)
(* The redo log of log.c, between the file system and the disk, with       *)
(* crashes at every point of a transaction, of its commit and of the        *)
(* recovery itself.                                                        *)
(*                                                                         *)
(* On disk: the home blocks, the log blocks and the header.  In memory,     *)
(* lost in a crash: the buffer cache, log.lh, log.busy and every process.   *)
(* A buffer that log_write has marked B_DIRTY is not evicted.  bwrite is    *)
(* synchronous and writes one sector atomically, so every disk write is a   *)
(* step.  Log blocks and header are only ever written through the cache,    *)
(* so the model reads them from disk.                                      *)
(***************************************************************************)
EXTENDS Integers

CONSTANTS
  Proc,      \* processes making system calls that write
  Block,     \* home sectors
  Val,       \* contents of a sector
  NoVal,     \* not in the buffer cache
  NoBlock,   \* a header entry that was never written
  LogCap     \* blocks a transaction may hold: min(LOGSIZE, log.size - 1)

ASSUME LogAssumption ==
  /\ NoVal \notin Val /\ NoBlock \notin Block
  /\ LogCap \in Nat \ {0}

Index == 1..LogCap

VARIABLES
  disk,             \* home blocks
  logdata,          \* log blocks: log.start + i
  hn, hsector,      \* the on-disk header
  cache, dirty,     \* valid buffers of home blocks; those marked B_DIRTY
  n, sector,        \* log.lh
  busy,             \* log.busy
  pc, idx,          \* each process; the local i of log_write
  boot,             \* progress of recover_from_log in the first process
  tail              \* the local of install_trans, of the one process in it

durable == <<disk, logdata, hn, hsector>>
vars == <<durable, cache, dirty, n, sector, busy, pc, idx, boot, tail>>

Label == {"out", "begin", "trans", "append", "head", "install", "clear", "end"}

(* A formatted disk: the log is empty.  The machine has just been started. *)
Init ==
  /\ disk \in [Block -> Val]
  /\ logdata \in [Index -> Val]
  /\ hn = 0 /\ hsector = [i \in Index |-> NoBlock]
  /\ cache = [b \in Block |-> NoVal] /\ dirty = {}
  /\ n = 0 /\ sector = [i \in Index |-> NoBlock]
  /\ busy = FALSE
  /\ pc = [p \in Proc |-> "out"]
  /\ idx = [p \in Proc |-> 1]
  /\ boot = "read"
  /\ tail = 1

-----------------------------------------------------------------------------
(* The buffer cache as the log sees it: bread of a block fills a buffer;   *)
(* bget may recycle any buffer that is not dirty.                          *)
Bread(b) ==
  /\ cache[b] = NoVal
  /\ cache' = [cache EXCEPT ![b] = disk[b]]
  /\ UNCHANGED <<durable, dirty, n, sector, busy, pc, idx, boot, tail>>

M_Evict_Dirty(b) ==
  /\ cache[b] # NoVal
  /\ cache' = [cache EXCEPT ![b] = NoVal]
  /\ UNCHANGED <<durable, dirty, n, sector, busy, pc, idx, boot, tail>>
Evict(b) ==
  /\ cache[b] # NoVal /\ b \notin dirty
  /\ cache' = [cache EXCEPT ![b] = NoVal]
  /\ UNCHANGED <<durable, dirty, n, sector, busy, pc, idx, boot, tail>>

-----------------------------------------------------------------------------
(* begin_trans: under log.lock, sleeping while another transaction runs.   *)
EnterSyscall(p) ==
  /\ boot = "done" /\ pc[p] = "out"
  /\ pc' = [pc EXCEPT ![p] = "begin"]
  /\ UNCHANGED <<durable, cache, dirty, n, sector, busy, idx, boot, tail>>

begin_trans(p) ==
  /\ pc[p] = "begin"
  /\ ~busy /\ busy' = TRUE
  /\ pc' = [pc EXCEPT ![p] = "trans"]
  /\ UNCHANGED <<durable, cache, dirty, n, sector, idx, boot, tail>>

(* A file-system write: bread, change the data, log_write, brelse.  The     *)
(* index is that of an earlier write of the block in this transaction, or   *)
(* the next free one.  The log block reaches the disk before lh.n counts it *)
(* (log_write sleeps in bwrite).                                           *)
LogIndex(b, i) ==
  \/ i <= n /\ sector[i] = b
  \/ i = n + 1 /\ \A j \in 1..n : sector[j] # b

log_write(p, b, v, i) ==
  /\ pc[p] = "trans"
  /\ n < LogCap
  /\ LogIndex(b, i)
  /\ cache' = [cache EXCEPT ![b] = v]
  /\ dirty' = dirty \cup {b}
  /\ sector' = [sector EXCEPT ![i] = b]
  /\ logdata' = [logdata EXCEPT ![i] = v]
  /\ idx' = [idx EXCEPT ![p] = i]
  /\ pc' = [pc EXCEPT ![p] = "append"]
  /\ UNCHANGED <<disk, hn, hsector, n, busy, boot, tail>>

LogCount(p) ==
  /\ pc[p] = "append"
  /\ n' = IF idx[p] = n + 1 THEN n + 1 ELSE n
  /\ pc' = [pc EXCEPT ![p] = "trans"]
  /\ UNCHANGED <<durable, cache, dirty, sector, busy, idx, boot, tail>>

-----------------------------------------------------------------------------
(* write_head with lh.n = k: entries past k keep their old value.          *)
WriteHead(k) ==
  /\ hn' = k
  /\ hsector' = [i \in Index |-> IF i <= k THEN sector[i] ELSE hsector[i]]

(* One turn of the loop of install_trans: copy a log block to its home, on *)
(* disk and in its buffer, which is clean afterwards.                      *)
InstallBlock(t) ==
  LET b == sector[t]
  IN /\ disk' = [disk EXCEPT ![b] = logdata[t]]
     /\ cache' = [cache EXCEPT ![b] = logdata[t]]
     /\ dirty' = dirty \ {b}

Installed(t) == t > n

(* commit_trans.                                                           *)
commit_trans(p) ==
  /\ pc[p] = "trans"
  /\ pc' = [pc EXCEPT ![p] = IF n > 0 THEN "head" ELSE "end"]
  /\ UNCHANGED <<durable, cache, dirty, n, sector, busy, idx, boot, tail>>

CommitHead(p) ==
  /\ pc[p] = "head"
  /\ WriteHead(n)
  /\ tail' = 1
  /\ pc' = [pc EXCEPT ![p] = "install"]
  /\ UNCHANGED <<disk, logdata, cache, dirty, n, sector, busy, idx, boot>>

CommitInstall(p) ==
  /\ pc[p] = "install"
  /\ \/ /\ ~Installed(tail)
        /\ InstallBlock(tail)
        /\ tail' = tail + 1
        /\ UNCHANGED <<n, pc>>
     \/ /\ Installed(tail)
        /\ n' = 0
        /\ pc' = [pc EXCEPT ![p] = "clear"]
        /\ UNCHANGED <<disk, cache, dirty, tail>>
  /\ UNCHANGED <<logdata, hn, hsector, sector, busy, idx, boot>>

CommitClear(p) ==
  /\ pc[p] = "clear"
  /\ WriteHead(n)
  /\ pc' = [pc EXCEPT ![p] = "end"]
  /\ UNCHANGED <<disk, logdata, cache, dirty, n, sector, busy, idx, boot, tail>>

CommitEnd(p) ==
  /\ pc[p] = "end"
  /\ busy' = FALSE
  /\ pc' = [pc EXCEPT ![p] = "out"]
  /\ UNCHANGED <<durable, cache, dirty, n, sector, idx, boot, tail>>

-----------------------------------------------------------------------------
(* recover_from_log, called by the first process before any other runs.    *)
RecoverRead ==
  /\ boot = "read"
  /\ n' = hn
  /\ sector' = [i \in Index |-> IF i <= hn THEN hsector[i] ELSE sector[i]]
  /\ tail' = 1
  /\ boot' = "install"
  /\ UNCHANGED <<durable, cache, dirty, busy, pc, idx>>

M_RecoverInstall_ClearFirst ==
  /\ boot = "install"
  /\ n' = 0
  /\ boot' = "clear"
  /\ UNCHANGED <<durable, cache, dirty, tail, sector, busy, pc, idx>>
RecoverInstall ==
  /\ boot = "install"
  /\ \/ /\ ~Installed(tail)
        /\ InstallBlock(tail)
        /\ tail' = tail + 1
        /\ UNCHANGED <<n, boot>>
     \/ /\ Installed(tail)
        /\ n' = 0
        /\ boot' = "clear"
        /\ UNCHANGED <<disk, cache, dirty, tail>>
  /\ UNCHANGED <<logdata, hn, hsector, sector, busy, pc, idx>>

RecoverClear ==
  /\ boot = "clear"
  /\ WriteHead(n)
  /\ boot' = "done"
  /\ UNCHANGED <<disk, logdata, cache, dirty, n, sector, busy, pc, idx, tail>>

(* Power fails and the machine restarts: memory is zeroed.                 *)
Crash ==
  /\ cache' = [b \in Block |-> NoVal] /\ dirty' = {}
  /\ n' = 0 /\ sector' = [i \in Index |-> NoBlock]
  /\ busy' = FALSE
  /\ pc' = [p \in Proc |-> "out"]
  /\ idx' = [p \in Proc |-> 1]
  /\ boot' = "read"
  /\ tail' = 1
  /\ UNCHANGED durable

ProcStep(p) ==
  \/ EnterSyscall(p) \/ begin_trans(p)
  \/ \E b \in Block, v \in Val, i \in Index : log_write(p, b, v, i)
  \/ LogCount(p)
  \/ commit_trans(p) \/ CommitHead(p) \/ CommitInstall(p)
  \/ CommitClear(p) \/ CommitEnd(p)

Next ==
  \/ \E p \in Proc : ProcStep(p)
  \/ \E b \in Block : Bread(b) \/ Evict(b)
  \/ RecoverRead \/ RecoverInstall \/ RecoverClear
  \/ Crash

Spec == Init /\ [][Next]_vars

-----------------------------------------------------------------------------
TypeOK ==
  /\ disk \in [Block -> Val]
  /\ logdata \in [Index -> Val]
  /\ hn \in 0..LogCap
  /\ hsector \in [Index -> Block \cup {NoBlock}]
  /\ cache \in [Block -> Val \cup {NoVal}]
  /\ dirty \subseteq Block
  /\ n \in 0..LogCap
  /\ sector \in [Index -> Block \cup {NoBlock}]
  /\ busy \in BOOLEAN
  /\ pc \in [Proc -> Label]
  /\ idx \in [Proc -> Index]
  /\ boot \in {"read", "install", "clear", "done"}
  /\ tail \in 1..LogCap + 1

(* What recovery would leave on the disk, and what reads return now.       *)
Recovered ==
  [b \in Block |->
     IF \E i \in 1..hn : hsector[i] = b
     THEN logdata[CHOOSE i \in 1..hn : hsector[i] = b] ELSE disk[b]]

View == [b \in Block |-> IF cache[b] = NoVal THEN disk[b] ELSE cache[b]]

Current == IF boot = "done" THEN View ELSE Recovered

(* The log implements a disk with atomic transactions: the write of a      *)
(* non-empty header is the commit, a crash anywhere (in recovery too)       *)
(* leaves exactly the committed state, and no other step changes what is    *)
(* committed or what reads return.                                         *)
Atomic == INSTANCE AtomicDisk WITH
            stable <- Recovered,
            current <- Current,
            open <- busy

ImplementsAtomicDisk == Atomic!Spec

InTrans(p) == pc[p] \notin {"out", "begin"}

(* begin_trans lets one process at a time into a transaction.              *)
OneTransaction == \A p, q \in Proc : InTrans(p) /\ InTrans(q) => p = q

-----------------------------------------------------------------------------
(* Why it works, part by part.                                             *)
In(l) == \E p \in Proc : pc[p] = l

(* The header names a block once, and so does the log in memory (the entry *)
(* that log_write has filled and not yet counted included).                *)
Filled == IF \E p \in Proc : pc[p] = "append" /\ idx[p] = n + 1 THEN n + 1 ELSE n

Distinct(f, k) ==
  \A i \in 1..k : f[i] \in Block /\ \A j \in 1..k : f[i] = f[j] => i = j

(* A transaction is open exactly while some process is in one; nobody is   *)
(* before recovery is over.                                                *)
Opened ==
  /\ busy <=> \E p \in Proc : InTrans(p)
  /\ boot # "done" => \A p \in Proc : pc[p] = "out"

(* Clean buffers equal the disk; dirty ones are those in the log and not   *)
(* yet installed, and equal their log block.                               *)
Buffers ==
  /\ \A b \in Block : cache[b] # NoVal /\ b \notin dirty => cache[b] = disk[b]
  /\ \A b \in dirty : \E i \in 1..Filled : sector[i] = b
  /\ In("install") =>
       \A i \in 1..n : sector[i] \in dirty <=> i >= tail
  /\ ~In("install") /\ boot = "done" => \A i \in 1..Filled : sector[i] \in dirty
  /\ \A i \in 1..Filled : sector[i] \in dirty => cache[sector[i]] = logdata[i]
  /\ boot # "done" => dirty = {}

(* The on-disk header is non-empty only between the commit and the end of  *)
(* the installation, when it agrees with the log in memory and the blocks   *)
(* up to tail are home.                                                    *)
Header ==
  /\ boot = "done" /\ ~In("install") /\ ~In("clear") => hn = 0
  /\ In("install") \/ boot = "install" =>
       /\ hn = n
       /\ \A i \in 1..n : hsector[i] = sector[i]
       /\ tail <= n + 1
       /\ \A i \in 1..n : i < tail => disk[sector[i]] = logdata[i]
  /\ In("clear") \/ boot = "clear" =>
       /\ n = 0
       /\ \A i \in 1..hn : disk[hsector[i]] = logdata[i]
  /\ In("end") \/ boot = "read" \/ (~busy /\ boot = "done") => n = 0
  /\ \A p \in Proc :
       /\ pc[p] = "append" => idx[p] <= n + 1 /\ n < LogCap

(* The inductive invariant of log.c: one transaction at a time, buffers and *)
(* the log in memory agree, and the header on disk is empty except during   *)
(* an installation that it describes.                                      *)
LogInv ==
  /\ TypeOK /\ OneTransaction /\ Opened
  /\ Distinct(hsector, hn) /\ Distinct(sector, Filled)
  /\ Buffers /\ Header
=============================================================================
