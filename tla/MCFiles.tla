------------------------------- MODULE MCFiles ------------------------------
(***************************************************************************)
(* The log, the buffers it pins, the inodes and directories on two small   *)
(* trees, the contents of files, the image that mkfs lays out, and the     *)
(* shell.  A behaviour is one of one of them; while it is not one of the   *)
(* log, the log is at rest.                                                *)
(***************************************************************************)
EXTENDS Log, Samples

CONSTANT v1

VARIABLES
  sel,   \* the component that runs; and its variables, in the order of its module:
  x1, x2, x3, x4, x5, x6, x7, x8, x9, x10, x11, x12, x13, x14, x15, x16

xs == <<x1, x2, x3, x4, x5, x6, x7, x8, x9, x10, x11, x12, x13, x14, x15,
        x16>>
all == <<sel, vars, xs>>

(* Command lines for the shell: a | b | c, (a; b) > f | c < g, a | b &; c,  *)
(* a | with no program behind it, a change of directory and a lone (.      *)
Run(cmd) == [cd |-> FALSE, err |-> FALSE, cmd |-> cmd]
Sh == INSTANCE ShParse WITH MAXARGS <- 3
Lines ==
  LET a == Sh!Exec(<<"a">>) b == Sh!Exec(<<"b">>) c == Sh!Exec(<<"c">>) none == Sh!Exec(<<>>)
  IN {Run(Sh!Pipe(a, Sh!Pipe(b, c))),
      Run(Sh!Pipe(Sh!Redir(Sh!List(a, b), "f", 1), Sh!Redir(c, "g", 0))),
      Run(Sh!List(Sh!Back(Sh!Pipe(a, b)), c)), Run(Sh!Pipe(a, none)),
      [cd |-> TRUE, err |-> FALSE, cmd |-> none], [cd |-> FALSE, err |-> TRUE, cmd |-> none]}

(* The processes are interchangeable.                                      *)
Symmetry == Permutations(Proc)

F == INSTANCE Fs WITH
  Proc <- Proc, Name <- {"a", "b"}, NInode <- 4, MaxCalls <- 4,
  Trees <- {FileTree}, Paths <- FilePaths,
  Ops <- {"open", "creat", "close", "mkdir", "chdir", "link", "unlink", "exit"},
  disk <- x1, cache <- x2, trans <- x3, q <- x4, cwd <- x5, file <- x6,
  calls <- x7, adrift <- x8, panic <- x9
D == INSTANCE Fs WITH
  Proc <- Proc, Name <- {"a", "b"}, NInode <- 4, MaxCalls <- 4,
  Trees <- {DirTree}, Paths <- DirPaths,
  Ops <- {"creat", "mkdir", "chdir", "unlink", "exit"},
  disk <- x1, cache <- x2, trans <- x3, q <- x4, cwd <- x5, file <- x6,
  calls <- x7, adrift <- x8, panic <- x9
C == INSTANCE Content WITH
  Inode <- {1, 2}, Byte <- WriteBytes, NBlock <- 5, BSIZE <- 2, NDIRECT <- 1,
  LOGSIZE <- 6, Sizes <- WriteSizes,
  fs <- x1, off <- x2, job <- x3, text <- x4, stop <- x5
M == INSTANCE Mkfs WITH
  BSIZE <- 4, DIRENT <- 2, NDIRECT <- 1, NINDIRECT <- 2, Meta <- 2,
  nblocks <- 9, nlog <- 2, BPB <- 16, Lens <- {0, 1, 4, 5, 12, 13},
  MaxFiles <- 4,
  inode <- x1, data <- x2, freeblock <- x3, usedblocks <- x4, bitmap <- x5,
  stage <- x6
B == INSTANCE Disk WITH
  Proc <- {"w", "r"}, Writer <- "w", Sector <- 1..3,
  Val <- [s \in 1..3 |-> {0}], NBUF <- 3, WHold <- 2, LogCap <- 1,
  Failing <- {}, None <- NoVal,
  mru <- x1, sector <- x2, data <- x3, busy <- x4, valid <- x5, dirty <- x6,
  queue <- x7, dev <- x8, disk <- x9, most <- x10, pinned <- x11, lost <- x12,
  pc <- x13, want <- x14, held <- x15, chan <- x16
S == INSTANCE ShRun WITH
  Lines <- Lines, MaxLines <- 2, MAXARGS <- 3,
  procs <- x1, zombies <- x2, typed <- x3

-----------------------------------------------------------------------------
MCInit ==
  /\ Init
  /\ \/ sel = "log" /\ x1 = 0 /\ x2 = 0 /\ x3 = 0 /\ x4 = 0 /\ x5 = 0
        /\ x6 = 0 /\ x7 = 0 /\ x8 = 0 /\ x9 = 0 /\ x10 = 0 /\ x11 = 0
        /\ x12 = 0 /\ x13 = 0 /\ x14 = 0 /\ x15 = 0 /\ x16 = 0
     \/ sel = "fs" /\ F!Init /\ x10 = 0 /\ x11 = 0 /\ x12 = 0 /\ x13 = 0
        /\ x14 = 0 /\ x15 = 0 /\ x16 = 0
     \/ sel = "dots" /\ D!Init /\ x10 = 0 /\ x11 = 0 /\ x12 = 0 /\ x13 = 0
        /\ x14 = 0 /\ x15 = 0 /\ x16 = 0
     \/ sel = "content" /\ C!Init /\ x6 = 0 /\ x7 = 0 /\ x8 = 0 /\ x9 = 0
        /\ x10 = 0 /\ x11 = 0 /\ x12 = 0 /\ x13 = 0 /\ x14 = 0 /\ x15 = 0
        /\ x16 = 0
     \/ sel = "mkfs" /\ M!Init /\ x7 = 0 /\ x8 = 0 /\ x9 = 0 /\ x10 = 0
        /\ x11 = 0 /\ x12 = 0 /\ x13 = 0 /\ x14 = 0 /\ x15 = 0 /\ x16 = 0
     \/ sel = "buffers" /\ B!Init
     \/ sel = "shell" /\ S!Init /\ x4 = 0 /\ x5 = 0 /\ x6 = 0 /\ x7 = 0
        /\ x8 = 0 /\ x9 = 0 /\ x10 = 0 /\ x11 = 0 /\ x12 = 0 /\ x13 = 0
        /\ x14 = 0 /\ x15 = 0 /\ x16 = 0
  /\ sel # "log" => disk = [b \in Block |-> v1] /\ logdata = [i \in Index |-> v1]

MCNext ==
  \/ sel = "log" /\ Next /\ UNCHANGED <<sel, xs>>
  \/ sel = "fs" /\ F!Next /\ UNCHANGED <<sel, vars, x10, x11, x12, x13, x14,
     x15, x16>>
  \/ sel = "dots" /\ D!Next /\ UNCHANGED <<sel, vars, x10, x11, x12, x13, x14,
     x15, x16>>
  \/ sel = "content" /\ C!Next /\ UNCHANGED <<sel, vars, x6, x7, x8, x9, x10,
     x11, x12, x13, x14, x15, x16>>
  \/ sel = "mkfs" /\ M!Next /\ UNCHANGED <<sel, vars, x7, x8, x9, x10, x11,
     x12, x13, x14, x15, x16>>
  \/ sel = "buffers" /\ B!Next /\ UNCHANGED <<sel, vars>>
  \/ sel = "shell" /\ S!Next /\ UNCHANGED <<sel, vars, x4, x5, x6, x7, x8, x9,
     x10, x11, x12, x13, x14, x15, x16>>

MCSpec == MCInit /\ [][MCNext]_all

-----------------------------------------------------------------------------
(* However lookups, links and removals interleave, the cache has one entry *)
(* per inode, link counts count the names, no name leads to a freed inode, *)
(* an inode that has lost its last name is freed by whoever drops the last *)
(* reference, and the panics of iput and sys_unlink are out of reach.  Two *)
(* exceptions: an inode entered in a directory that was removed after the  *)
(* lookup has no name that counts (adrift), and ".." of a removed directory*)
(* may lead to a freed inode, where ilock panics (fs.c, sysfile.c).        *)
InodesRight ==
  /\ sel = "fs" => F!CacheRight /\ F!LinksRight /\ F!NoDanglingName /\ F!Reclaimed /\ F!ChecksHold
  /\ sel = "dots" => D!CacheRight /\ D!LinksRight /\ D!NoDanglingName /\ D!Reclaimed /\ D!ChecksHold


(* Until balloc gives out a block of the log, a read returns what was last *)
(* written at the offset, and a block marked in use belongs to one file,   *)
(* once (fs.c, file.c).                                                    *)
ContentRight == sel = "content" => C!ReadsBack /\ C!BlocksRight

(* The chunks of filewrite never overflow the log (file.c, log.c "too big a*)
(* transaction").                                                          *)
TransactionFits == sel = "content" => C!TransactionFits

(* The image of mkfs marks the blocks that are in use, those of the log    *)
(* excepted, and the kernel's bmap finds every byte of every file where    *)
(* mkfs put it (mkfs.c, fs.c).                                             *)
ImageRight == sel = "mkfs" => M!BitmapRight /\ M!KernelReads

(* Every program of a command line starts with the descriptors the line    *)
(* says, and no process of the shell waits for ever for another (sh.c).    *)
ShellRight == sel = "shell" => S!FdsRight /\ S!NothingHangs
=============================================================================
