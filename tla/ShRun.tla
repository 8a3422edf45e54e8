------------------------------- MODULE ShRun --------------------------------
(***************************************************************************)
(* The shell running its commands: main and runcmd of sh.c, over the        *)
(* descriptors that fork copies and that open, dup and pipe choose.         *)
(*                                                                         *)
(* A process is named by its place in the family: the shell is <<>>, its    *)
(* n-th child <<n>>.  A descriptor holds "tty", a file or one end of a      *)
(* pipe, and a pipe is named after its PIPE command.  A program exits at    *)
(* any time if it does not read a pipe; if it does, at the end of file.     *)
(***************************************************************************)
EXTENDS ShParse, FiniteSets, FiniteSetsExt

CONSTANTS
  Lines,       \* lines that may be typed: whether it is a cd, whether it has a
               \* syntax error, and otherwise the command that parsecmd returns
  MaxLines     \* lines typed

Closed == [is |-> "none"]
Tty == [is |-> "tty"]
File(w) == [is |-> "file", name |-> w]
End(cmd, e) == [is |-> "pipe", of |-> cmd, end |-> e]
Fd == 0..6
Idle == Exec(<<>>)

VARIABLES
  procs,       \* living processes: command, step, descriptors, children
  zombies,     \* processes that wait to be waited for
  typed        \* the number of lines

vars == <<procs, zombies, typed>>

(* main has opened the console three times.                                *)
Init ==
  /\ procs = [p \in {<<>>} |-> [cmd |-> Idle, at |-> "main", kids |-> 0,
                                 fd |-> [d \in Fd |-> IF d < 3 THEN Tty ELSE Closed]]]
  /\ zombies = {} /\ typed = 0

-----------------------------------------------------------------------------
(* close, open and dup, on a table of descriptors.                         *)
close(fd, d) == [fd EXCEPT ![d] = Closed]
open(fd, x) == [fd EXCEPT ![Min({d \in Fd : fd[d] = Closed})] = x]
Free(fd) == {d \in Fd : fd[d] = Closed}

Set(p, r) == procs' = [procs EXCEPT ![p] = r]
(* p forks a child to run cmd with descriptors fd, and goes on as r.       *)
Fork(p, r, cmd, fd) ==
  LET child == Append(p, r.kids + 1)
      new == [cmd |-> cmd, at |-> "runcmd", kids |-> 0, fd |-> fd]
  IN procs' = [x \in DOMAIN procs \cup {child} |->
                 IF x = child THEN new
                 ELSE IF x = p THEN [r EXCEPT !.kids = @ + 1] ELSE procs[x]]

(* exit: init waits for the children left behind.                          *)
exit(p) ==
  /\ procs' = [x \in DOMAIN procs \ {p} |-> procs[x]]
  /\ zombies' = {z \in zombies \cup {p} : z # <<>> /\ Front(z) \in DOMAIN procs \ {p}}

Children(p) == {x \in DOMAIN procs \cup zombies : x # <<>> /\ Front(x) = p}

(* wait: reap a child and go on as r.  NothingHangs says that there is one.*)
wait(p, r) == \E z \in zombies \cap Children(p) : zombies' = zombies \ {z} /\ Set(p, r)

(* fork1 gives up when there is no process left.                           *)
Fork1(p, r, cmd, fd) == (Fork(p, r, cmd, fd) /\ UNCHANGED zombies) \/ exit(p)

-----------------------------------------------------------------------------
(* main: a line that changes directory is obeyed by the shell itself; any   *)
(* other is parsed and run by a child, which a syntax error ends.           *)
main(l) ==
  /\ <<>> \in DOMAIN procs /\ procs[<<>>].at = "main" /\ typed < MaxLines
  /\ typed' = typed + 1
  /\ LET sh == procs[<<>>]
     IN IF l.cd THEN UNCHANGED <<procs, zombies>>
        ELSE Fork1(<<>>, [sh EXCEPT !.at = "wait"], IF l.err THEN Idle ELSE l.cmd, sh.fd)

mainwait ==
  /\ <<>> \in DOMAIN procs /\ procs[<<>>].at = "wait"
  /\ wait(<<>>, [procs[<<>>] EXCEPT !.at = "main"])
  /\ UNCHANGED typed

(* After pipe(p) the ends are p[0] and p[1]; each child of PIPE moves one   *)
(* of them to descriptor 1 or 0 and closes both, and the parent closes both *)
(* once it has forked twice.                                                *)
At(c, e, fd) == CHOOSE d \in Fd : fd[d] = End(c, e)
Moved(c, e, d, fd) ==
  close(close(open(close(fd, d), End(c, e)), At(c, "r", fd)), At(c, "w", fd))
LeftFds(c, fd) == Moved(c, "w", 1, fd)
RightFds(c, fd) == Moved(c, "r", 0, fd)
M_ParentFds_KeepsWrite(c, fd) == close(fd, At(c, "r", fd))
ParentFds(c, fd) == close(close(fd, At(c, "r", fd)), At(c, "w", fd))

(* runcmd.  The two forks of PIPE are two steps, after which both ends are  *)
(* closed; while they last, p holds both ends.                              *)
runcmd(p) ==
  /\ procs[p].at = "runcmd"
  /\ LET r == procs[p] c == r.cmd fd == r.fd
     IN CASE c.type = "EXEC" ->
               \/ exit(p)
               \/ c.argv # <<>> /\ Set(p, [r EXCEPT !.at = "program"]) /\ UNCHANGED zombies
          [] c.type = "REDIR" ->
               \/ exit(p)
               \/ /\ Set(p, [r EXCEPT !.cmd = c.cmd, !.fd = open(close(fd, c.fd), File(c.file))])
                  /\ UNCHANGED zombies
          [] c.type = "LIST" -> Fork1(p, [r EXCEPT !.at = "listwait"], c.left, fd)
          [] c.type = "BACK" -> Fork1(p, [r EXCEPT !.at = "exit"], c.cmd, fd)
          [] c.type = "PIPE" ->
               LET both == open(open(fd, End(c, "r")), End(c, "w"))
               IN Fork1(p, [r EXCEPT !.at = "pipe", !.fd = both], c.left, LeftFds(c, both))
  /\ UNCHANGED typed

Resume(p) ==
  /\ LET r == procs[p] c == r.cmd
     IN CASE r.at = "listwait" -> wait(p, [r EXCEPT !.at = "runcmd", !.cmd = c.right])
          [] r.at = "pipe" ->
               Fork1(p, [r EXCEPT !.at = "pipewait", !.fd = ParentFds(c, r.fd)], c.right, RightFds(c, r.fd))
          [] r.at = "pipewait" -> wait(p, [r EXCEPT !.at = "pipewait2"])
          [] r.at = "pipewait2" -> wait(p, [r EXCEPT !.at = "exit"])
          [] r.at = "exit" -> exit(p)
          [] OTHER -> FALSE
  /\ UNCHANGED typed

Writers(cmd) == {x \in DOMAIN procs : \E d \in Fd : procs[x].fd[d] = End(cmd, "w")}

(* A program, external to the shell, ends.                                 *)
Program(p) ==
  /\ procs[p].at = "program"
  /\ procs[p].fd[0].is = "pipe" => Writers(procs[p].fd[0].of) = {}
  /\ exit(p)
  /\ UNCHANGED typed

Finished ==
  \/ typed = MaxLines /\ \A p \in DOMAIN procs : p = <<>> /\ procs[p].at = "main"
  \/ DOMAIN procs = {}

Next ==
  \/ \E l \in Lines : main(l)
  \/ mainwait
  \/ \E p \in DOMAIN procs : runcmd(p) \/ Resume(p) \/ Program(p)
  \/ Finished /\ UNCHANGED vars

Spec == Init /\ [][Next]_vars

-----------------------------------------------------------------------------
(* What a line asks for: its programs with their input and output.         *)
RECURSIVE Wanted(_, _, _)
Wanted(c, in, out) ==
  CASE c.type = "EXEC" -> {<<c.argv, in, out>>}
    [] c.type = "REDIR" -> IF c.fd = 0 THEN Wanted(c.cmd, File(c.file), out)
                           ELSE Wanted(c.cmd, in, File(c.file))
    [] c.type = "PIPE" -> Wanted(c.left, in, End(c, "w")) \cup Wanted(c.right, End(c, "r"), out)
    [] c.type = "BACK" -> Wanted(c.cmd, in, out)
    [] OTHER -> Wanted(c.left, in, out) \cup Wanted(c.right, in, out)

(* A program runs with the input and output that the line gives it, on      *)
(* descriptors 0 and 1, and with no other descriptor but 2: close, open and *)
(* dup always hit the descriptor that runcmd means.                         *)
FdsRight ==
  \A p \in DOMAIN procs : procs[p].at = "program" =>
    LET fd == procs[p].fd
    IN /\ \E l \in Lines : <<procs[p].cmd.argv, fd[0], fd[1]>> \in Wanted(l.cmd, Tty, Tty)
       /\ fd[2] = Tty /\ \A d \in Fd : d > 2 => fd[d] = Closed

(* p waits for a child that has not exited, or for a writer of its pipe.    *)
Blocked(p) ==
  \/ /\ procs[p].at \in {"wait", "listwait", "pipewait", "pipewait2"}
     /\ zombies \cap Children(p) = {}
  \/ /\ procs[p].at = "program" /\ procs[p].fd[0].is = "pipe"
     /\ Writers(procs[p].fd[0].of) # {}

(* The processes of a command line never all wait for each other: a reader  *)
(* of a pipe sees the end of file, since no process keeps the writing end,  *)
(* the reader itself least of all, and every wait has its child.            *)
NothingHangs ==
  LET kids == DOMAIN procs \ {<<>>} IN kids # {} => \E p \in kids : ~Blocked(p)
=============================================================================
