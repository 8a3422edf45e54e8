------------------------------ MODULE ShParse -------------------------------
(***************************************************************************)
(* The command parser of sh.c.  A line is a sequence of characters; a word  *)
(* is given by the positions of its first character and of the character    *)
(* behind it, as the pointers argv and eargv are.  A parser returns the     *)
(* position it has reached, the command, and the error it has met.          *)
(***************************************************************************)
EXTENDS Integers, Sequences, SequencesExt

CONSTANT MAXARGS

White == {" "}
Symbols == {"<", "|", ">", "&", ";", "(", ")"}

Exec(argv) == [type |-> "EXEC", argv |-> argv]
Redir(cmd, file, fd) == [type |-> "REDIR", cmd |-> cmd, file |-> file, fd |-> fd]
Pipe(l, r) == [type |-> "PIPE", left |-> l, right |-> r]
List(l, r) == [type |-> "LIST", left |-> l, right |-> r]
Back(cmd) == [type |-> "BACK", cmd |-> cmd]
Result(at, cmd) == [at |-> at, cmd |-> cmd, err |-> "no"]
Error(at, e) == [at |-> at, cmd |-> Exec(<<>>), err |-> e]

-----------------------------------------------------------------------------
(* The first position from i on of a character outside S.                  *)
Past(l, i, S) ==
  CHOOSE j \in i..Len(l) + 1 : (j > Len(l) \/ l[j] \notin S) /\ \A k \in i..j - 1 : l[k] \in S
Skip(l, i) == Past(l, i, White)
CharAt(l, i) == IF i > Len(l) THEN "" ELSE l[i]
peek(l, i, toks) == CharAt(l, Skip(l, i)) \in toks

gettoken(l, i) ==
  LET j == Skip(l, i) c == CharAt(l, j)
      word == c \notin Symbols \cup {""}
      append == c = ">" /\ CharAt(l, j + 1) = ">"
      end == IF word THEN Past(l, j, Range(l) \ (White \cup Symbols))
             ELSE IF append THEN j + 2 ELSE IF c = "" THEN j ELSE j + 1
  IN [tok |-> IF word THEN "a" ELSE IF append THEN "+" ELSE c,
      q |-> j, eq |-> end, at |-> Skip(l, end)]

-----------------------------------------------------------------------------
(* parseredirs: the redirections from i on, around what wrap has gathered. *)
RECURSIVE parseredirs(_, _, _)
parseredirs(l, i, wrap) ==
  IF ~peek(l, i, {"<", ">"}) THEN [at |-> i, wrap |-> wrap, err |-> "no"]
  ELSE LET t == gettoken(l, i) f == gettoken(l, t.at)
       IN IF f.tok # "a" THEN [at |-> f.at, wrap |-> wrap, err |-> "missing file for redirection"]
          ELSE parseredirs(l, f.at, Append(wrap, [file |-> <<f.q, f.eq>>, fd |-> IF t.tok = "<" THEN 0 ELSE 1]))

Wrapped(cmd, wrap) == FoldLeft(LAMBDA c, r : Redir(c, r.file, r.fd), cmd, wrap)

(* parseexec behind its first redirections: an argument, with the           *)
(* redirections behind it, at a time.                                       *)
RECURSIVE Args(_, _, _)
Args(l, argv, r) ==
  IF r.err # "no" THEN Error(r.at, r.err)
  ELSE IF peek(l, r.at, {"|", ")", "&", ";"}) THEN Result(r.at, Wrapped(Exec(argv), r.wrap))
  ELSE LET t == gettoken(l, r.at)
       IN CASE t.tok = "" -> Result(r.at, Wrapped(Exec(argv), r.wrap))
            [] t.tok \notin {"", "a"} -> Error(t.at, "syntax")
            [] t.tok = "a" /\ Len(argv) + 1 >= MAXARGS -> Error(t.at, "too many args")
            [] OTHER -> Args(l, Append(argv, <<t.q, t.eq>>), parseredirs(l, t.at, r.wrap))

RECURSIVE Backs(_, _)
Backs(l, r) == IF r.err = "no" /\ peek(l, r.at, {"&"})
               THEN Backs(l, Result(gettoken(l, r.at).at, Back(r.cmd))) ELSE r

(* r is what has been parsed before the operator and s what follows it.    *)
Join(r, s, Op(_, _)) == IF s.err # "no" THEN s ELSE Result(s.at, Op(r.cmd, s.cmd))
EndBlock(r, w) == IF w.err # "no" THEN Error(w.at, w.err) ELSE Result(w.at, Wrapped(r.cmd, w.wrap))
Nested(l, r) ==
  IF r.err # "no" THEN r
  ELSE IF ~peek(l, r.at, {")"}) THEN Error(r.at, "syntax - missing )")
  ELSE EndBlock(r, parseredirs(l, gettoken(l, r.at).at, <<>>))

RECURSIVE parseline(_, _)
RECURSIVE parsepipe(_, _)
parseblock(l, i) == Nested(l, parseline(l, gettoken(l, i).at))
parseexec(l, i) ==
  IF peek(l, i, {"("}) THEN parseblock(l, i) ELSE Args(l, <<>>, parseredirs(l, i, <<>>))
PipeFrom(l, r) ==
  IF r.err # "no" \/ ~peek(l, r.at, {"|"}) THEN r
  ELSE Join(r, parsepipe(l, gettoken(l, r.at).at), Pipe)
parsepipe(l, i) == PipeFrom(l, parseexec(l, i))
LineFrom(l, r) ==
  IF r.err # "no" \/ ~peek(l, r.at, {";"}) THEN r
  ELSE Join(r, parseline(l, gettoken(l, r.at).at), List)
parseline(l, i) == LineFrom(l, Backs(l, parsepipe(l, i)))

M_parsecmd_Leftovers(l) == parseline(l, 1)
parsecmd(l) ==
  LET r == parseline(l, 1)
  IN IF r.err = "no" /\ Skip(l, r.at) <= Len(l) THEN Error(r.at, "syntax") ELSE r

(* nulterminate: the positions it overwrites.                              *)
RECURSIVE nulterminate(_)
nulterminate(cmd) ==
  CASE cmd.type = "EXEC" -> {cmd.argv[k][2] : k \in 1..Len(cmd.argv)}
    [] cmd.type = "REDIR" -> nulterminate(cmd.cmd) \cup {cmd.file[2]}
    [] cmd.type = "BACK" -> nulterminate(cmd.cmd)
    [] OTHER -> nulterminate(cmd.left) \cup nulterminate(cmd.right)
=============================================================================
