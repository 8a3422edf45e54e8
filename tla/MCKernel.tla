------------------------------ MODULE MCKernel ------------------------------
(***************************************************************************)
(* The kernel without its file system: processes that sleep for a while,   *)
(* the spinlocks, the arguments of system calls, the memory, the table of  *)
(* open files and the terminal; and functions of the programs: the parser  *)
(* of the shell, the allocator, the strings and grep.  A behaviour is one  *)
(* of one of them.                                                         *)
(***************************************************************************)
EXTENDS Spinlock, Sequences

CONSTANTS c0, p1

VARIABLES
  sel,   \* the component that runs; and its variables, in the order of its module:
  x1, x2, x3, x4, x5, x6, x7, x8, x9, x10, x11, x12, x13, x14, x15, x16

xs == <<x1, x2, x3, x4, x5, x6, x7, x8, x9, x10, x11, x12, x13, x14, x15,
        x16>>
all == <<sel, vars, xs>>

S == INSTANCE Proc WITH
  NPROC <- 2, CPU <- Cpu, BootCpu <- c0, NoCpu <- NoCpu,
  Calls <- {"fork", "exit", "wait", "kill", "sleep"}, MaxPid <- 3,
  MaxSleep <- 2,
  state <- x1, pid <- x2, parent <- x3, chan <- x4, killed <- x5,
  kstack <- x6, pc <- x7, ret <- x8, np <- x9, due <- x10, nextpid <- x11,
  ptlock <- x12, tickslock <- x13, proc <- x14, scan <- x15, intr <- x16
A == INSTANCE Syscall WITH
  WORD <- 16, KERNBASE <- 8, IntSize <- 2, MaxArg <- 2, Naps <- {0, 1, 5, 12},
  Late <- 3,
  sz <- x1, want <- x2, ok <- x3, ticks <- x4, ticks0 <- x5, n <- x6,
  elapsed <- x7, sleeping <- x8
M == INSTANCE Memory WITH
  Proc <- Proc, First <- p1, PGSIZE <- 2, NPT <- 2, KERNBASE <- 10, End <- 3,
  PHYSTOP <- 28, Programs <- {<<2>>, <<1, 3>>},
  free <- x1, lost <- x2, torn <- x3, space <- x4, sz <- x5, life <- x6,
  panic <- x7
O == INSTANCE File WITH
  Proc <- Proc, First <- p1, NOFILE <- 2, NFILE <- 3, NPAGE <- 1,
  ofile <- x1, ref <- x2, type <- x3, pipe <- x4, end <- x5, open <- x6,
  used <- x7, iref <- x8, pc <- x9, f0 <- x10, f1 <- x11, work <- x12
C == INSTANCE Console WITH
  Reader <- Proc, None <- NoCpu, Plain <- {"x"}, Newline <- "\n", Eof <- "^D",
  INPUT_BUF <- 2, Wrap <- 4, MaxRead <- 3,
  buf <- x1, r <- x2, w <- x3, e <- x4, lock <- x5, pc <- x6, asleep <- x7,
  killed <- x8, left <- x9, target <- x10, text <- x11
K == INSTANCE Kbd WITH
  MaxDown <- 3,
  shift <- x1, down <- x2, caps <- x3, wire <- x4, key <- x5, char <- x6
G == INSTANCE Cga WITH
  COLS <- 2, ROWS <- 3, Char <- {"a", "b"}, Blank <- " ",
  pos <- x1, crt <- x2, shown <- x3
U == INSTANCE Umalloc WITH
  Bytes <- {1, 8, 9, 17}, HeaderSize <- 8, More <- 4, Heap <- 12,
  ptr <- x1, size <- x2, freep <- x3, brk <- x4, live <- x5
T == INSTANCE Text WITH
  Chars <- {1, 2}, MaxLen <- 4, Bits <- 8,
  s <- x1, t <- x2, xx <- x3
W == INSTANCE ShLines WITH
  Letters <- {"a"}, MaxLine <- 5, MAXARGS <- 3,
  line <- x1, cmd <- x2
R == INSTANCE Grep WITH
  Letters <- {"a"}, MaxRe <- 4, MaxText <- 3,
  re <- x1, text <- x2

(* What the proofs about the console assume, for this instance.             *)
ASSUME ConsoleConstants == C!ConsoleAssumption

-----------------------------------------------------------------------------
MCInit ==
  /\ Init
  /\ \/ sel = "lock" /\ x1 = 0 /\ x2 = 0 /\ x3 = 0 /\ x4 = 0 /\ x5 = 0
        /\ x6 = 0 /\ x7 = 0 /\ x8 = 0 /\ x9 = 0 /\ x10 = 0 /\ x11 = 0
        /\ x12 = 0 /\ x13 = 0 /\ x14 = 0 /\ x15 = 0 /\ x16 = 0
     \/ sel = "sleep" /\ S!Init
     \/ sel = "args" /\ A!Init /\ x9 = 0 /\ x10 = 0 /\ x11 = 0 /\ x12 = 0
        /\ x13 = 0 /\ x14 = 0 /\ x15 = 0 /\ x16 = 0
     \/ sel = "memory" /\ M!Init /\ x8 = 0 /\ x9 = 0 /\ x10 = 0 /\ x11 = 0
        /\ x12 = 0 /\ x13 = 0 /\ x14 = 0 /\ x15 = 0 /\ x16 = 0
     \/ sel = "file" /\ O!Init /\ x13 = 0 /\ x14 = 0 /\ x15 = 0 /\ x16 = 0
     \/ sel = "console" /\ C!Init /\ x12 = 0 /\ x13 = 0 /\ x14 = 0 /\ x15 = 0
        /\ x16 = 0
     \/ sel = "kbd" /\ K!Init /\ x7 = 0 /\ x8 = 0 /\ x9 = 0 /\ x10 = 0
        /\ x11 = 0 /\ x12 = 0 /\ x13 = 0 /\ x14 = 0 /\ x15 = 0 /\ x16 = 0
     \/ sel = "cga" /\ G!Init /\ x4 = 0 /\ x5 = 0 /\ x6 = 0 /\ x7 = 0
        /\ x8 = 0 /\ x9 = 0 /\ x10 = 0 /\ x11 = 0 /\ x12 = 0 /\ x13 = 0
        /\ x14 = 0 /\ x15 = 0 /\ x16 = 0
     \/ sel = "malloc" /\ U!Init /\ x6 = 0 /\ x7 = 0 /\ x8 = 0 /\ x9 = 0
        /\ x10 = 0 /\ x11 = 0 /\ x12 = 0 /\ x13 = 0 /\ x14 = 0 /\ x15 = 0
        /\ x16 = 0
     \/ sel = "text" /\ T!Init /\ x4 = 0 /\ x5 = 0 /\ x6 = 0 /\ x7 = 0
        /\ x8 = 0 /\ x9 = 0 /\ x10 = 0 /\ x11 = 0 /\ x12 = 0 /\ x13 = 0
        /\ x14 = 0 /\ x15 = 0 /\ x16 = 0
     \/ sel = "lines" /\ W!Init /\ x3 = 0 /\ x4 = 0 /\ x5 = 0 /\ x6 = 0
        /\ x7 = 0 /\ x8 = 0 /\ x9 = 0 /\ x10 = 0 /\ x11 = 0 /\ x12 = 0
        /\ x13 = 0 /\ x14 = 0 /\ x15 = 0 /\ x16 = 0
     \/ sel = "grep" /\ R!Init /\ x3 = 0 /\ x4 = 0 /\ x5 = 0 /\ x6 = 0
        /\ x7 = 0 /\ x8 = 0 /\ x9 = 0 /\ x10 = 0 /\ x11 = 0 /\ x12 = 0
        /\ x13 = 0 /\ x14 = 0 /\ x15 = 0 /\ x16 = 0

MCNext ==
  \/ sel = "lock" /\ Next /\ UNCHANGED <<sel, xs>>
  \/ sel = "sleep" /\ S!Next /\ UNCHANGED <<sel, vars>>
  \/ sel = "args" /\ A!Next /\ UNCHANGED <<sel, vars, x9, x10, x11, x12, x13,
     x14, x15, x16>>
  \/ sel = "memory" /\ M!Next /\ UNCHANGED <<sel, vars, x8, x9, x10, x11, x12,
     x13, x14, x15, x16>>
  \/ sel = "file" /\ O!Next /\ UNCHANGED <<sel, vars, x13, x14, x15, x16>>
  \/ sel = "console" /\ C!Next /\ UNCHANGED <<sel, vars, x12, x13, x14, x15,
     x16>>
  \/ sel = "kbd" /\ K!Next /\ UNCHANGED <<sel, vars, x7, x8, x9, x10, x11,
     x12, x13, x14, x15, x16>>
  \/ sel = "cga" /\ G!Next /\ UNCHANGED <<sel, vars, x4, x5, x6, x7, x8, x9,
     x10, x11, x12, x13, x14, x15, x16>>
  \/ sel = "malloc" /\ U!Next /\ UNCHANGED <<sel, vars, x6, x7, x8, x9, x10,
     x11, x12, x13, x14, x15, x16>>
  \/ sel = "text" /\ T!Next /\ UNCHANGED <<sel, vars, x4, x5, x6, x7, x8, x9,
     x10, x11, x12, x13, x14, x15, x16>>
  \/ sel = "lines" /\ W!Next /\ UNCHANGED <<sel, vars, x3, x4, x5, x6, x7, x8,
     x9, x10, x11, x12, x13, x14, x15, x16>>
  \/ sel = "grep" /\ R!Next /\ UNCHANGED <<sel, vars, x3, x4, x5, x6, x7, x8,
     x9, x10, x11, x12, x13, x14, x15, x16>>

MCSpec == MCInit /\ [][MCNext]_all

-----------------------------------------------------------------------------
(* All calls on processes together, in two slots on two CPUs: no process   *)
(* sleeps on &ticks past its time, none is left in wait with a zombie child*)
(* or killed, and the inductive invariant of the table holds (sysproc.c,   *)
(* trap.c, proc.c).                                                        *)
SleepRight == sel = "sleep" => S!NoTickMissed /\ S!WaiterWoken /\ S!TableInv

(* With arithmetic modulo the word: what fetchint, fetchstr and argptr     *)
(* accept lies in the memory of the process (for a block, when its size is *)
(* positive), and sys_sleep(n) returns after n ticks also when ticks wraps *)
(* around (syscall.c, sysproc.c).                                          *)
SyscallRight == sel = "args" => A!ArgsInside /\ A!SleepsItsTicks

(* Whatever allocation fails in fork, exec and sbrk, every page is free,   *)
(* has one user, or is one that setupkvm, allocuvm or copyuvm could not use*)
(* when memory ran out and lost; and until allocuvm has ignored a failing  *)
(* mappages, the pages below p->sz and only they are mapped and the panics *)
(* of vm.c are out of reach (kalloc.c, vm.c, exec.c).                      *)
MemoryRight == sel = "memory" => M!PagesRight /\ M!SizeRight /\ M!ChecksHold

(* The count of a struct file is that of its users, a pipe is freed when   *)
(* both of its ends are closed, and every open inode is put back once,     *)
(* although fileclose works on a copy of an entry it has already freed     *)
(* (file.c, pipe.c, sysfile.c).                                            *)
FilesRight == sel = "file" => O!RefRight /\ O!PipeRight /\ O!InodeRight

(* consoleintr and consoleread implement line input: what is read is what  *)
(* was typed, erased characters excepted, and only when a line, an end of  *)
(* file or a full buffer is there (console.c).                             *)
ImplementsLineInput ==
  /\ sel = "console" => C!Lines!Init
  /\ [][sel = "console" => [C!Lines!Next]_(C!Lines!vars)]_all

(* However keys, erasures and readers interleave, the input ring holds the *)
(* complete input and behind it one line without a newline, and no reader  *)
(* sleeps beside complete input: the inductive invariant of the proofs     *)
(* (console.c).                                                            *)
ConsoleInv == sel = "console" => C!ConsoleInv

(* kbdgetc takes a modifier for pressed from the press of its key, and     *)
(* never after both of its keys are up; it returns the character of the key*)
(* under the modifiers it has (kbd.c).                                     *)
KeyboardRight == sel = "kbd" => K!NoStuckModifier /\ K!DecodesKey

(* Whatever characters, newlines and backspaces cgaputc is given, the      *)
(* screen shows the last lines they make, with the cursor on it            *)
(* (console.c).                                                            *)
ScreenRight == sel = "cga" => G!CursorOnScreen /\ G!ScreenShows

(* Every unit of the heap is in one block, free or in use, and the free    *)
(* list stays a circle in address order without neighbours that touch      *)
(* (umalloc.c).                                                            *)
HeapRight == sel = "malloc" => U!HeapRight /\ U!ListRight

(* memmove moves overlapping bytes as they were, strcmp and strncmp order  *)
(* as dictionaries do, strncpy and safestrcpy write nothing beyond n,      *)
(* printint prints the number, and atoi reads it back when it has no sign  *)
(* (string.c, ulib.c, printf.c, console.c).                                *)
StringsRight == sel = "text" => T!MovesBytes /\ T!OrdersStrings /\ T!CopiesBounded /\ T!PrintsNumber

(* parsecmd accepts the lines of the shell's grammar, with the tree the    *)
(* grammar gives them, and ends every word of it (sh.c).                   *)
ParsesGrammar == sel = "lines" => W!ParsesGrammar /\ W!WordsTerminated

(* match finds a pattern exactly where its meaning says (grep.c).          *)
MatchesMeaning == sel = "grep" => R!MatchesMeaning
=============================================================================
