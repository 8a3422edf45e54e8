------------------------------ MODULE Content -------------------------------
(***************************************************************************)
(* The content of inodes: block allocation, bmap, readi, writei and itrunc  *)
(* of fs.c under fileread and filewrite of file.c.  All of it runs under    *)
(* the inode's lock, and what writes in a transaction, so a transaction is  *)
(* one step; a long write is several, and other calls come between them.    *)
(*                                                                         *)
(* fs is the file system: the bitmap, the blocks, the inodes in memory and  *)
(* on disk, and the sectors a transaction has written to the log, in order. *)
(* fs.b is the block that balloc or bmap returned.  An address takes the    *)
(* room of one byte, so NINDIRECT = BSIZE.                                  *)
(*                                                                         *)
(* The log is at the end of the disk, behind the data blocks, and mkfs does *)
(* not mark its blocks in the bitmap: balloc gives them out once the data   *)
(* blocks are used up.  From then on the log and the files overwrite each   *)
(* other, and the model goes no further.                                   *)
(***************************************************************************)
EXTENDS Integers, Sequences, SequencesExt, FiniteSets, FiniteSetsExt

CONSTANTS
  Inode,         \* files
  Byte,          \* Byte[i][n]: what a write of n bytes to file i writes
  NBlock,        \* data blocks; the LOGSIZE blocks of the log follow them
  BSIZE, NDIRECT, LOGSIZE,
  Sizes          \* Sizes[i]: bytes of a write or read

NINDIRECT == BSIZE
MAXFILE == NDIRECT + NINDIRECT
LogBlock == NBlock + 1..NBlock + LOGSIZE
AnyBlock == 1..NBlock + LOGSIZE     \* those below sb.size that mkfs leaves free
BITMAP == 0        \* the sector of the bitmap
INODES == -1       \* the sector of the inodes
Zero == [x \in 0..BSIZE - 1 |-> 0]
Stale == [x \in 0..BSIZE - 1 |-> 1]       \* what a free block holds
NoAddrs == [a \in 0..NDIRECT |-> 0]

VARIABLES
  fs,
  off,           \* offset of the open file on each inode
  job,           \* the filewrite under way: inode, value, bytes left
  text,          \* what the file should hold
  stop           \* why the machine, or the model, has stopped

vars == <<fs, off, job, text, stop>>
NoJob == [i |-> 0, v |-> 0, n |-> 0]

Init ==
  /\ fs = [used |-> {}, blk |-> [b \in AnyBlock |-> Stale],
           addrs |-> [i \in Inode |-> NoAddrs], size |-> [i \in Inode |-> 0],
           daddrs |-> [i \in Inode |-> NoAddrs], dsize |-> [i \in Inode |-> 0],
           wrote |-> <<>>, b |-> 0]
  /\ off = [i \in Inode |-> 0]
  /\ job = NoJob
  /\ text = [i \in Inode |-> <<>>]
  /\ stop = "no"

-----------------------------------------------------------------------------
Log(s, sector) == [s EXCEPT !.wrote = Append(@, sector)]
iupdate(s, i) ==
  Log([s EXCEPT !.daddrs[i] = s.addrs[i], !.dsize[i] = s.size[i]], INODES)

(* The first free block, marked and cleared.  There is one: "balloc: out of *)
(* blocks" comes when the log's blocks are used up as well.                *)
balloc(s) ==
  LET b == Min(AnyBlock \ s.used)
  IN Log(Log([s EXCEPT !.used = @ \cup {b}, !.blk[b] = Zero, !.b = b], BITMAP), b)

bfree(s, b) == Log([s EXCEPT !.used = @ \ {b}, !.blk[b] = Stale], BITMAP)

bmap(s, i, bn) ==
  LET direct(a) == IF s.addrs[i][a] # 0 THEN [s EXCEPT !.b = s.addrs[i][a]]
                   ELSE LET t == balloc(s) IN [t EXCEPT !.addrs[i][a] = t.b]
      t == direct(NDIRECT)   \* with the indirect block
      n == bn - NDIRECT
  IN IF bn < NDIRECT THEN direct(bn)
     ELSE IF t.blk[t.b][n] # 0 THEN [t EXCEPT !.b = t.blk[t.b][n]]
     ELSE LET u == balloc(t) IN Log([u EXCEPT !.blk[t.b][n] = u.b], t.b)

(* The blocks of the n > 0 bytes from offset o, in order.                  *)
Span(o, n) == [k \in 1..((o + n - 1) \div BSIZE) - (o \div BSIZE) + 1 |-> (o \div BSIZE) + k - 1]

(* writei: the file system it leaves.                                      *)
Fits(i, o, n) == o <= fs.size[i] /\ o + n <= MAXFILE * BSIZE

Grown(s, i, end) ==
  IF end > s.size[i] THEN iupdate([s EXCEPT !.size[i] = end], i) ELSE s

writei(i, v, o, n) ==
  LET put(s, bn) ==
        LET t == bmap(s, i, bn)
            data == [x \in 0..BSIZE - 1 |->
                       IF o <= bn * BSIZE + x /\ bn * BSIZE + x < o + n THEN v ELSE t.blk[t.b][x]]
        IN Log([t EXCEPT !.blk[t.b] = data], t.b)
  IN Grown(FoldLeft(put, [fs EXCEPT !.wrote = <<>>], Span(o, n)), i, o + n)

(* readi allocates nothing: every block below the size is there.           *)
readi(i, o, n) ==
  LET m == IF o + n > fs.size[i] THEN fs.size[i] - o ELSE n
  IN [k \in 1..m |-> fs.blk[bmap(fs, i, (o + k - 1) \div BSIZE).b][(o + k - 1) % BSIZE]]

Listed(i) == {fs.addrs[i][a] : a \in 0..NDIRECT - 1} \ {0}
Indirect(i) ==
  LET a == fs.addrs[i][NDIRECT]
  IN IF a = 0 THEN {} ELSE {fs.blk[a][x] : x \in 0..BSIZE - 1} \ {0}

M_Freed_NotIndirect(i) == Listed(i) \cup Indirect(i)
Freed(i) == Listed(i) \cup Indirect(i) \cup ({fs.addrs[i][NDIRECT]} \ {0})

itrunc(i) ==
  LET s == FoldSet(LAMBDA b, t : bfree(t, b), [fs EXCEPT !.wrote = <<>>], Freed(i))
  IN iupdate([s EXCEPT !.addrs[i] = NoAddrs, !.size[i] = 0], i)

(* log_write finds the transaction too big when the log, one sector of     *)
(* which is the header, is full; it looks before it sees that a sector is   *)
(* in the log already.                                                     *)
TooBig(wrote) ==
  \E k \in 1..Len(wrote) : Cardinality(Range(SubSeq(wrote, 1, k - 1))) >= LOGSIZE - 1
Commit(s) ==
  /\ fs' = [s EXCEPT !.b = 0, !.wrote = <<>>]
  /\ stop' = CASE TooBig(s.wrote) -> "too big a transaction"
               [] s.used \cap LogBlock # {} -> "log block given out"
               [] OTHER -> stop

-----------------------------------------------------------------------------
(* filewrite, a few blocks per transaction.                                *)
M_MaxChunk_NoSlop == ((LOGSIZE - 1 - 1) \div 2) * BSIZE
MaxChunk == ((LOGSIZE - 1 - 1 - 2) \div 2) * BSIZE

StartWrite(i, n) ==
  /\ stop = "no" /\ job = NoJob
  /\ job' = [i |-> i, v |-> Byte[i][n], n |-> n]
  /\ UNCHANGED <<fs, off, text, stop>>

Chunk ==
  /\ stop = "no" /\ job.n > 0
  /\ LET i == job.i o == off[i] n == IF job.n > MaxChunk THEN MaxChunk ELSE job.n
         s == writei(i, job.v, o, n)
     IN IF ~Fits(i, o, n)
        THEN job' = NoJob /\ UNCHANGED <<fs, off, text, stop>>
        ELSE /\ Commit(s)
             /\ off' = [off EXCEPT ![i] = @ + n]
             /\ job' = IF job.n = n THEN NoJob ELSE [job EXCEPT !.n = @ - n]
             /\ text' = [text EXCEPT ![i] =
                  [k \in 1..(IF o + n > Len(@) THEN o + n ELSE Len(@)) |->
                     IF o < k /\ k <= o + n THEN job.v ELSE @[k]]]

fileread(i, n) ==
  /\ stop = "no" /\ off[i] <= fs.size[i]
  /\ off' = [off EXCEPT ![i] = @ + Len(readi(i, off[i], n))]
  /\ UNCHANGED <<fs, job, text, stop>>

(* The file is opened again, from the beginning.                           *)
Reopen(i) ==
  /\ stop = "no" /\ job.i # i
  /\ off' = [off EXCEPT ![i] = 0]
  /\ UNCHANGED <<fs, job, text, stop>>

(* The last iput of an unlinked file, whose inode is then used again.      *)
Unlinked(i) ==
  /\ stop = "no" /\ job.i # i /\ fs.size[i] > 0
  /\ Commit(itrunc(i))
  /\ off' = [off EXCEPT ![i] = 0]
  /\ text' = [text EXCEPT ![i] = <<>>]
  /\ UNCHANGED job

Stopped == stop # "no" /\ UNCHANGED vars

Next ==
  \/ Stopped \/ Chunk
  \/ \E i \in Inode : \/ Reopen(i) \/ Unlinked(i)
                      \/ \E n \in Sizes[i] : StartWrite(i, n) \/ fileread(i, n)

Spec == Init /\ [][Next]_vars

-----------------------------------------------------------------------------
(* Every block of a file is a data block: fs.h puts the log behind the     *)
(* data blocks, and log.c takes the blocks from sb.size - sb.nlog on for    *)
(* its own (initlog), while balloc looks for a free block up to sb.size.    *)
FilesOffLog == fs.used \cap LogBlock = {}

(* What is read, from any offset and of any length, is what was written,   *)
(* through direct and indirect blocks and across blocks freed and reused,   *)
(* as long as balloc has not given out a block of the log.                 *)
ReadsBack ==
  FilesOffLog => \A i \in Inode :
    /\ fs.size[i] = Len(text[i])
    /\ \A o \in 0..fs.size[i], n \in Sizes[i] :
         readi(i, o, n) = SubSeq(text[i], o + 1, IF o + n > Len(text[i]) THEN Len(text[i]) ELSE o + n)

(* After every transaction, and so after a crash, the blocks marked in the  *)
(* bitmap are those of the files, each used once, and the inodes on disk    *)
(* know of them: writei updates the inode only when the file grows.  (The   *)
(* blocks of the log are not marked; once one is given out, the model ends.) *)
BlocksRight ==
  FilesOffLog =>
  /\ fs.used = UNION {Freed(i) : i \in Inode}
  /\ Cardinality(fs.used) =
       FoldSet(LAMBDA i, k : k + Cardinality({a \in 0..NDIRECT : fs.addrs[i][a] # 0})
                               + (IF fs.addrs[i][NDIRECT] = 0 THEN 0
                                  ELSE Cardinality({x \in 0..BSIZE - 1 : fs.blk[fs.addrs[i][NDIRECT]][x] # 0})),
               0, Inode)
  /\ fs.daddrs = fs.addrs /\ fs.dsize = fs.size

(* log_write never finds a transaction too big: what filewrite does at a   *)
(* time fits in the log, with the blocks it allocates on the way.           *)
TransactionFits == stop # "too big a transaction"
=============================================================================
