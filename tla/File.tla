-------------------------------- MODULE File --------------------------------
(***************************************************************************)
(* The open-file table of file.c with the descriptor tables of the          *)
(* processes (sysfile.c, fork and exit) and the life of pipes (pipealloc,   *)
(* pipeclose).  Every use of ftable.lock, of the page allocator or of a     *)
(* pipe's lock is a step.                                                  *)
(*                                                                         *)
(* work[p] is what process p has still to do in its system call: close a    *)
(* file, close one end of a pipe, drop the reference to an inode.           *)
(***************************************************************************)
EXTENDS Integers, Sequences, FiniteSets

CONSTANTS
  Proc, First,     \* process slots; the process that runs first
  NOFILE,          \* descriptors of a process
  NFILE,           \* entries of the file table
  NPAGE            \* pages that pipes may be given

None == 0
Fd == 1..NOFILE
File == 1..NFILE
Page == 1..NPAGE
Ends == {"r", "w"}

VARIABLES
  ofile,                   \* descriptor tables
  ref, type, pipe, end,    \* struct file
  open, used,              \* open ends of each pipe; its page is allocated
  iref,                    \* references the file table has given to inodes
  pc, f0, f1, work         \* processes

table == <<ref, type, pipe, end>>
pipes == <<open, used>>
vars == <<ofile, table, pipes, iref, pc, f0, f1, work>>

Init ==
  /\ ofile = [p \in Proc |-> [d \in Fd |-> None]]
  /\ ref = [f \in File |-> 0]
  /\ type = [f \in File |-> "FD_NONE"]
  /\ pipe = [f \in File |-> None]
  /\ end = [f \in File |-> "r"]
  /\ open = [g \in Page |-> {}] /\ used = {}
  /\ iref = 0
  /\ pc = [p \in Proc |-> IF p = First THEN "user" ELSE "unborn"]
  /\ f0 = [p \in Proc |-> None] /\ f1 = [p \in Proc |-> None]
  /\ work = [p \in Proc |-> <<>>]

Running(p) == pc[p] = "user" /\ work[p] = <<>>
Goto(p, l) == pc' = [pc EXCEPT ![p] = l]
Lowest(S) == CHOOSE x \in S : \A y \in S : x <= y

(* filealloc and fdalloc take the first free entry.                        *)
FreeFiles == {f \in File : ref[f] = 0}
FreeFds(p) == {d \in Fd : ofile[p][d] = None}

Close(f) == <<"close", f>>

-----------------------------------------------------------------------------
(* sys_pipe: two files, a page, two descriptors.                           *)
PipeFile0(p) ==
  /\ Running(p) /\ FreeFiles # {}
  /\ LET f == Lowest(FreeFiles)
     IN ref' = [ref EXCEPT ![f] = 1] /\ f0' = [f0 EXCEPT ![p] = f]
  /\ Goto(p, "pipe1")
  /\ UNCHANGED <<ofile, type, pipe, end, pipes, iref, f1, work>>

PipeFile1(p) ==
  /\ pc[p] = "pipe1"
  /\ IF FreeFiles = {}
     THEN /\ Goto(p, "user")
          /\ work' = [work EXCEPT ![p] = <<Close(f0[p])>>]
          /\ f0' = [f0 EXCEPT ![p] = None]
          /\ UNCHANGED <<ref, f1>>
     ELSE /\ LET f == Lowest(FreeFiles)
             IN ref' = [ref EXCEPT ![f] = 1] /\ f1' = [f1 EXCEPT ![p] = f]
          /\ Goto(p, "pipe2")
          /\ UNCHANGED <<f0, work>>
  /\ UNCHANGED <<ofile, type, pipe, end, pipes, iref>>

(* Neither a page, nor descriptors: everything taken so far is given back. *)
PipePage(p, g) ==
  /\ pc[p] = "pipe2" /\ (g = None \/ (g \in Page \ used /\ g = Lowest(Page \ used)))
  /\ LET a == f0[p] b == f1[p] fds == FreeFds(p) d == Lowest(fds)
         ok == g # None /\ Cardinality(fds) >= 2
     IN /\ IF g = None THEN UNCHANGED <<type, pipe, end, pipes>>
           ELSE /\ open' = [open EXCEPT ![g] = Ends] /\ used' = used \cup {g}
                /\ type' = [type EXCEPT ![a] = "FD_PIPE", ![b] = "FD_PIPE"]
                /\ pipe' = [pipe EXCEPT ![a] = g, ![b] = g]
                /\ end' = [end EXCEPT ![a] = "r", ![b] = "w"]
        /\ IF ok
           THEN /\ ofile' = [ofile EXCEPT ![p][d] = a, ![p][Lowest(fds \ {d})] = b]
                /\ UNCHANGED work
           ELSE /\ work' = [work EXCEPT ![p] = <<Close(a), Close(b)>>]
                /\ UNCHANGED ofile
  /\ f0' = [f0 EXCEPT ![p] = None] /\ f1' = [f1 EXCEPT ![p] = None]
  /\ Goto(p, "user")
  /\ UNCHANGED <<ref, iref>>

(* sys_open, once it has a locked inode: a file without a descriptor is     *)
(* closed again while its type is still FD_NONE.                           *)
sys_open(p) ==
  /\ Running(p) /\ FreeFiles # {}
  /\ LET f == Lowest(FreeFiles)
     IN /\ ref' = [ref EXCEPT ![f] = 1]
        /\ IF FreeFds(p) = {}
           THEN /\ work' = [work EXCEPT ![p] = <<Close(f)>>]
                /\ UNCHANGED <<ofile, type, iref>>
           ELSE /\ ofile' = [ofile EXCEPT ![p][Lowest(FreeFds(p))] = f]
                /\ type' = [type EXCEPT ![f] = "FD_INODE"]
                /\ iref' = iref + 1
                /\ UNCHANGED work
  /\ UNCHANGED <<pipe, end, pipes, pc, f0, f1>>

sys_dup(p, d) ==
  /\ Running(p) /\ ofile[p][d] # None /\ FreeFds(p) # {}
  /\ ofile' = [ofile EXCEPT ![p][Lowest(FreeFds(p))] = ofile[p][d]]
  /\ ref' = [ref EXCEPT ![ofile[p][d]] = @ + 1]
  /\ UNCHANGED <<type, pipe, end, pipes, iref, pc, f0, f1, work>>

sys_close(p, d) ==
  /\ Running(p) /\ ofile[p][d] # None
  /\ work' = [work EXCEPT ![p] = <<Close(ofile[p][d])>>]
  /\ ofile' = [ofile EXCEPT ![p][d] = None]
  /\ UNCHANGED <<table, pipes, iref, pc, f0, f1>>

-----------------------------------------------------------------------------
(* fork copies the descriptors: filedup of each.  exit closes them.        *)
Count(p, f) == Cardinality({d \in Fd : ofile[p][d] = f})

fork(p, c) ==
  /\ Running(p) /\ pc[c] = "unborn"
  /\ ofile' = [ofile EXCEPT ![c] = ofile[p]]
  /\ ref' = [f \in File |-> ref[f] + Count(p, f)]
  /\ Goto(c, "user")
  /\ UNCHANGED <<type, pipe, end, pipes, iref, f0, f1, work>>

exit(p) ==
  /\ Running(p) /\ p # First
  /\ LET fds == {d \in Fd : ofile[p][d] # None}
         closes == [i \in 1..Cardinality(fds) |->
                      Close(ofile[p][CHOOSE d \in fds : Cardinality({x \in fds : x < d}) = i - 1])]
     IN work' = [work EXCEPT ![p] = closes]
  /\ ofile' = [ofile EXCEPT ![p] = [d \in Fd |-> None]]
  /\ Goto(p, "unborn")
  /\ UNCHANGED <<table, pipes, iref, f0, f1>>

-----------------------------------------------------------------------------
(* fileclose: the last reference frees the entry, which another process    *)
(* may take at once; then its pipe or its inode is released.               *)
LastClose(f) ==
  /\ ref' = [ref EXCEPT ![f] = 0]
  /\ type' = [type EXCEPT ![f] = "FD_NONE"]

Then(f) ==
  CASE type[f] = "FD_PIPE" -> <<<<"pipeclose", pipe[f], end[f]>>>>
    [] type[f] = "FD_INODE" -> <<<<"iput", f>>>>
    [] OTHER -> <<>>

fileclose(p) ==
  /\ work[p] # <<>> /\ Head(work[p])[1] = "close"
  /\ LET f == Head(work[p])[2]
     IN IF ref[f] > 1
        THEN /\ ref' = [ref EXCEPT ![f] = @ - 1]
             /\ work' = [work EXCEPT ![p] = Tail(@)]
             /\ UNCHANGED type
        ELSE /\ LastClose(f)
             /\ work' = [work EXCEPT ![p] = Then(f) \o Tail(@)]
  /\ UNCHANGED <<ofile, pipe, end, pipes, iref, pc, f0, f1>>

M_FreePipe_EitherEnd(g) == used' = used \ {g}
FreePipe(g) == used' = IF open'[g] = {} THEN used \ {g} ELSE used

pipeclose(p) ==
  /\ work[p] # <<>> /\ Head(work[p])[1] = "pipeclose"
  /\ LET g == Head(work[p])[2]
     IN /\ open' = [open EXCEPT ![g] = @ \ {Head(work[p])[3]}]
        /\ FreePipe(g)
  /\ work' = [work EXCEPT ![p] = Tail(@)]
  /\ UNCHANGED <<ofile, table, iref, pc, f0, f1>>

iput(p) ==
  /\ work[p] # <<>> /\ Head(work[p])[1] = "iput"
  /\ iref' = iref - 1
  /\ work' = [work EXCEPT ![p] = Tail(@)]
  /\ UNCHANGED <<ofile, table, pipes, pc, f0, f1>>

Next ==
  \E p \in Proc :
    \/ PipeFile0(p) \/ PipeFile1(p) \/ \E g \in Page \cup {None} : PipePage(p, g)
    \/ sys_open(p) \/ \E d \in Fd : sys_dup(p, d) \/ sys_close(p, d)
    \/ (\E c \in Proc : work[c] = <<>> /\ fork(p, c)) \/ exit(p)
    \/ fileclose(p) \/ pipeclose(p) \/ iput(p)

Spec == Init /\ [][Next]_vars

-----------------------------------------------------------------------------
Todo(x) == {<<p, i>> \in Proc \X (1..NOFILE + 1) : i <= Len(work[p]) /\ work[p][i] = x}

(* The reference count of a file is the number of descriptors, of calls    *)
(* that are creating it and of calls that have yet to close it; so the      *)
(* panics of filedup and fileclose are out of reach and no entry is lost.   *)
RefRight ==
  \A f \in File :
    ref[f] = Cardinality({<<p, d>> \in Proc \X Fd : ofile[p][d] = f})
             + Cardinality({p \in Proc : f0[p] = f}) + Cardinality({p \in Proc : f1[p] = f})
             + Cardinality(Todo(Close(f)))

(* An end of a pipe is open exactly while a file in use, or a call that is *)
(* about to close it, stands for it; no end is closed twice, and the page   *)
(* is allocated until both are closed and not freed again, whatever the     *)
(* order in which the processes sharing it close, fork and exit.            *)
PipeRight ==
  \A g \in Page, e \in Ends :
    LET files == {f \in File : ref[f] > 0 /\ type[f] = "FD_PIPE" /\ pipe[f] = g /\ end[f] = e}
    IN /\ Cardinality(files) + Cardinality(Todo(<<"pipeclose", g, e>>)) =
            (IF e \in open[g] THEN 1 ELSE 0)
       /\ g \in used <=> open[g] # {}

(* Every open of an inode is matched by one iput.                          *)
InodeRight ==
  iref = Cardinality({f \in File : type[f] = "FD_INODE"})
         + Cardinality(UNION {Todo(<<"iput", f>>) : f \in File})
=============================================================================
