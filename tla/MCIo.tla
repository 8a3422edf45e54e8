-------------------------------- MODULE MCIo --------------------------------
(***************************************************************************)
(* What must eventually happen below the processes: a small instance of the*)
(* buffer cache with its disk, one of a pipe, and the start of the         *)
(* processors.  A behaviour is one of one of them.                         *)
(***************************************************************************)
EXTENDS Pipe

CONSTANTS w, r

VARIABLES
  sel,   \* the component that runs; and its variables, in the order of its module:
  x1, x2, x3, x4, x5, x6, x7, x8, x9, x10, x11, x12, x13, x14, x15, x16

xs == <<x1, x2, x3, x4, x5, x6, x7, x8, x9, x10, x11, x12, x13, x14, x15,
        x16>>
all == <<sel, vars, xs>>

(* What a write to the pipe is given, and how many calls each process makes. *)
MCWrites == {<<0>>, <<1, 0, 1>>}
MCCalls == [p \in Proc |-> IF p \in Reader THEN 3 ELSE 1]

D == INSTANCE Disk WITH
  Proc <- {w, r}, Writer <- w, Sector <- 1..3,
  Val <- [s \in 1..3 |-> IF s = 1 THEN {0, 1} ELSE {0}], NBUF <- 2,
  WHold <- 2, LogCap <- 1, Failing <- {1},
  mru <- x1, sector <- x2, data <- x3, busy <- x4, valid <- x5, dirty <- x6,
  queue <- x7, dev <- x8, disk <- x9, most <- x10, pinned <- x11, lost <- x12,
  pc <- x13, want <- x14, held <- x15, chan <- x16
B == INSTANCE Boot WITH
  Kinds <- {"MPBUS", "other"}, Ids <- 0..2, MaxTable <- 3,
  table <- x1, p <- x2, ismp <- x3, lapic <- x4, ncpu <- x5, cpuId <- x6,
  stage <- x7, c <- x8, nstack <- x9, slot <- x10, woken <- x11, stack <- x12,
  started <- x13

vD == D!vars
vB == B!vars

-----------------------------------------------------------------------------
MCInit ==
  /\ Init
  /\ \/ sel = "pipe" /\ x1 = 0 /\ x2 = 0 /\ x3 = 0 /\ x4 = 0 /\ x5 = 0
        /\ x6 = 0 /\ x7 = 0 /\ x8 = 0 /\ x9 = 0 /\ x10 = 0 /\ x11 = 0
        /\ x12 = 0 /\ x13 = 0 /\ x14 = 0 /\ x15 = 0 /\ x16 = 0
     \/ sel = "disk" /\ D!Init
     \/ sel = "boot" /\ B!Init /\ x14 = 0 /\ x15 = 0 /\ x16 = 0

MCNext ==
  \/ sel = "pipe" /\ Next /\ UNCHANGED <<sel, xs>>
  \/ sel = "disk" /\ D!Next /\ UNCHANGED <<sel, vars>>
  \/ sel = "boot" /\ B!Next /\ UNCHANGED <<sel, vars, x14, x15, x16>>

MCSpec ==
  /\ MCInit /\ [][MCNext]_all
  /\ \A p \in {w, r} :
       /\ WF_vD(sel = "disk" /\ D!Bget(p)) /\ WF_vD(sel = "disk" /\ (D!iderw(p) \/ D!IoWoken(p)))
       /\ SF_vD(sel = "disk" /\ D!brelse(p)) /\ SF_vD(sel = "disk" /\ D!brelse(p) /\ Len(x15[p]) = 1)
  /\ WF_vD(sel = "disk" /\ \E ok \in BOOLEAN : D!ideintr(ok))
  /\ \A p \in Proc : WF_vars(sel = "pipe" /\ Step(p))
  /\ WF_vB(sel = "boot" /\ B!Next)

-----------------------------------------------------------------------------
(* The cache and the disk queue implement a store that gives every reader  *)
(* the last value written to the sector (bio.c, ide.c).                    *)
ImplementsStore ==
  /\ sel = "disk" => D!Store!Init
  /\ [][sel = "disk" => [D!Store!Next]_(D!Store!vars)]_all

(* Whoever sleeps in bget or iderw is woken (bio.c, ide.c).                *)
SleeperWoken == \A p \in {w, r} : []<>(sel = "disk" => D!Awake(p) \/ D!Panicked)

(* Every other processor starts on a stack of its own (main.c).            *)
OwnStack == sel = "boot" => B!OwnStack

(* On a table of known entries the boot processor starts all others and    *)
(* goes on to its scheduler (mp.c, main.c).                                *)
BootFinishes == []<>(sel = "boot" => B!Booted)
=============================================================================
