-------------------------------- MODULE Mkfs --------------------------------
(***************************************************************************)
(* mkfs.c, which lays out the disk image that fs.c of the kernel reads.     *)
(* A byte of the image is known by the inode and the offset it was written  *)
(* for; an inode's addrs and its indirect block map slots to blocks.        *)
(***************************************************************************)
EXTENDS Integers, Sequences, FiniteSets, SequencesExt

CONSTANTS
  BSIZE, DIRENT,        \* bytes of a block; of a directory entry
  NDIRECT, NINDIRECT,
  Meta,                 \* blocks before the data: boot, super, inodes, bitmap
  nblocks, nlog,        \* data blocks, and behind them the blocks of the log
  BPB,                  \* bits of a bitmap block; the image has one
  Lens, MaxFiles        \* lengths of the files; number of files on the command line

Root == 1
MAXFILE == NDIRECT + NINDIRECT
size == Meta + nblocks + nlog

VARIABLES
  inode,       \* inodes in the order of ialloc: size, addrs, indirect
  data,        \* <<block, offset>> -> <<inum, offset in the file>>
  freeblock, usedblocks,
  bitmap,      \* blocks marked in use
  stage        \* "files", "done", or "abort" after a failed assertion

vars == <<inode, data, freeblock, usedblocks, bitmap, stage>>

Put(f, x, v) == [y \in DOMAIN f \cup {x} |-> IF y = x THEN v ELSE f[y]]

-----------------------------------------------------------------------------
(* The image as iappend passes it on; ok is cleared by its assertion.      *)
Image == [inode |-> inode, data |-> data, free |-> freeblock, used |-> usedblocks, ok |-> TRUE]
ialloc(g) == [g EXCEPT !.inode = Append(@, [size |-> 0, addrs |-> <<>>, ind |-> <<>>])]

(* A block for slot k of the table f of an inode, unless it has one.       *)
Fill(g, i, f, k) ==
  IF k \in DOMAIN g.inode[i][f] THEN g
  ELSE [g EXCEPT !.inode[i][f] = Put(@, k, g.free), !.free = @ + 1, !.used = @ + 1]

BlockFor(g, i, fbn) ==
  IF fbn < NDIRECT THEN Fill(g, i, "addrs", fbn)
  ELSE Fill(Fill(g, i, "addrs", NDIRECT), i, "ind", fbn - NDIRECT)

(* What the kernel's bmap finds.                                           *)
BlockOf(ino, fbn) == IF fbn < NDIRECT THEN ino.addrs[fbn] ELSE ino.ind[fbn - NDIRECT]
HasBlock(ino, fbn) ==
  IF fbn < NDIRECT THEN fbn \in DOMAIN ino.addrs
  ELSE NDIRECT \in DOMAIN ino.addrs /\ fbn - NDIRECT \in DOMAIN ino.ind

(* The bytes of one call of iappend, one after the other.                  *)
M_AppendByte_NextBlock(g, i) ==
  LET off == g.inode[i].size
      fbn == (off + 1) \div BSIZE
      h == BlockFor(g, i, fbn)
  IN IF fbn >= MAXFILE THEN [g EXCEPT !.ok = FALSE]
     ELSE [h EXCEPT !.data = Put(@, <<BlockOf(h.inode[i], fbn), off % BSIZE>>, <<i, off>>),
                    !.inode[i].size = off + 1]
AppendByte(g, i) ==
  LET off == g.inode[i].size
      fbn == off \div BSIZE
      h == BlockFor(g, i, fbn)
  IN IF fbn >= MAXFILE THEN [g EXCEPT !.ok = FALSE]
     ELSE [h EXCEPT !.data = Put(@, <<BlockOf(h.inode[i], fbn), off % BSIZE>>, <<i, off>>),
                    !.inode[i].size = off + 1]
iappend(g, i, n) == FoldLeft(LAMBDA a, k : AppendByte(a, i), g, [k \in 1..n |-> k])

Write(g) ==
  /\ inode' = g.inode /\ data' = g.data
  /\ freeblock' = g.free /\ usedblocks' = g.used

-----------------------------------------------------------------------------
(* main: the root with "." and ".."; one file of the command line after    *)
(* the other; the end, where the size of the root is rounded up.           *)
Init ==
  LET g == iappend(ialloc([inode |-> <<>>, data |-> <<>>, free |-> Meta, used |-> Meta,
                           ok |-> TRUE]), Root, 2 * DIRENT)
  IN /\ inode = g.inode /\ data = g.data
     /\ freeblock = g.free /\ usedblocks = g.used
     /\ bitmap = {} /\ stage = "files"

AddFile(len) ==
  /\ stage = "files" /\ Len(inode) <= MaxFiles
  /\ LET inum == Len(inode) + 1
         g == iappend(iappend(ialloc(Image), Root, DIRENT), inum, len)
     IN Write(g) /\ stage' = IF g.ok THEN "files" ELSE "abort"
  /\ UNCHANGED bitmap

RootSize(off) == ((off \div BSIZE) + 1) * BSIZE

(* balloc marks the blocks used so far, and no others: not those of the    *)
(* log.  Its assertion is the only test of usedblocks.                     *)
balloc(used) == 0..(used - 1)

Finish ==
  /\ stage = "files"
  /\ inode' = [inode EXCEPT ![Root].size = RootSize(@)]
  /\ IF usedblocks < BPB THEN bitmap' = balloc(usedblocks) /\ stage' = "done"
     ELSE stage' = "abort" /\ UNCHANGED bitmap
  /\ UNCHANGED <<data, freeblock, usedblocks>>

Stopped == stage # "files" /\ UNCHANGED vars

Next == (\E n \in Lens : AddFile(n)) \/ Finish \/ Stopped

Spec == Init /\ [][Next]_vars

-----------------------------------------------------------------------------
Used(i) == {inode[i].addrs[k] : k \in DOMAIN inode[i].addrs} \cup
           {inode[i].ind[k] : k \in DOMAIN inode[i].ind}
Holds(b, o, byte) == <<b, o>> \in DOMAIN data /\ data[<<b, o>>] = byte
Entries == Len(inode) + 1      \* "." and ".." and one for each file

LogBlocks == (size - nlog)..(size - 1)

(* The finished image marks in its bitmap exactly the blocks before the     *)
(* data and those that belong to a file, and no block belongs to two files  *)
(* or twice to one: the kernel's balloc gives out no block of a file and    *)
(* loses none.  The log's blocks are marked only where files have run into  *)
(* them, which mkfs does not test, and which does not happen exactly when   *)
(* the files need no more than the nblocks of the superblock.               *)
BitmapRight ==
  stage = "done" =>
    /\ bitmap = (0..(Meta - 1)) \cup UNION {Used(i) : i \in DOMAIN inode}
    /\ Cardinality(bitmap) = Meta + FoldLeft(LAMBDA n, x : n + Cardinality(DOMAIN x.addrs)
                                                             + Cardinality(DOMAIN x.ind),
                                             0, inode)
    /\ bitmap \cap LogBlocks = {} <=> usedblocks <= Meta + nblocks

(* Byte k of every file is where the bmap of the kernel looks for it, and   *)
(* the root reads as entries only: its size is a multiple of that of an     *)
(* entry, and all of its bytes lie in blocks it has.  (When the entries end *)
(* with a block, RootSize counts a block more, which the root does not      *)
(* have.)                                                                   *)
KernelReads ==
  stage = "done" =>
    /\ \A i \in DOMAIN inode : \A k \in 0..((IF i = Root THEN Entries * DIRENT ELSE inode[i].size) - 1) :
         /\ HasBlock(inode[i], k \div BSIZE)
         /\ Holds(BlockOf(inode[i], k \div BSIZE), k % BSIZE, <<i, k>>)
    /\ inode[Root].size % BSIZE = 0
    /\ inode[Root].size >= Entries * DIRENT
    /\ (Entries * DIRENT) % BSIZE # 0 =>
         \A b \in 0..((inode[Root].size \div BSIZE) - 1) : HasBlock(inode[Root], b)
=============================================================================
