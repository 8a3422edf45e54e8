------------------------------ MODULE ShLines -------------------------------
(***************************************************************************)
(* What parsecmd of sh.c makes of every short line, against a reference     *)
(* grammar.  A line is typed one character after the other, and parsed as   *)
(* far as it goes.                                                          *)
(***************************************************************************)
EXTENDS ShParse

CONSTANTS Letters, MaxLine

VARIABLES line, cmd

vars == <<line, cmd>>

Init == line = <<>> /\ cmd = parsecmd(<<>>)
Type(l) == line' = l /\ cmd' = parsecmd(l)
Next ==
  \/ Len(line) < MaxLine /\ \E c \in Letters \cup White \cup Symbols : Type(Append(line, c))
  \/ Len(line) = MaxLine /\ Type(<<>>)
Spec == Init /\ [][Next]_vars

-----------------------------------------------------------------------------
(* The tokens of a line, and the words of a command.                        *)
RECURSIVE Tokens(_, _)
Tokens(l, i) == LET t == gettoken(l, i) IN IF t.tok = "" THEN <<>> ELSE <<t>> \o Tokens(l, t.at)

RECURSIVE Words(_)
Words(c) ==
  CASE c.type = "EXEC" -> Range(c.argv)
    [] c.type = "REDIR" -> Words(c.cmd) \cup {c.file}
    [] c.type = "BACK" -> Words(c.cmd)
    [] OTHER -> Words(c.left) \cup Words(c.right)

(* nulterminate ends every word where it should and cuts none short,        *)
(* although the character it overwrites may be an operator or the first of  *)
(* two words that stand side by side.                                       *)
WordsTerminated ==
  cmd.err = "no" =>
    LET nul == nulterminate(cmd.cmd)
    IN \A w \in Words(cmd.cmd) : w[2] \in nul /\ \A k \in w[1]..w[2] - 1 : k \notin nul

(* What a reference grammar over the tokens derives, as a set of commands:  *)
(* & binds weaker than |, ; weaker than &, and both | and ; group to the     *)
(* right.                                                                   *)
Tok(ts, k) == ts[k].tok
Simple(ts) ==     \* words and redirections in any order
  LET file(k) == k > 1 /\ Tok(ts, k - 1) \in {"<", ">", "+"}
      ok == \A k \in 1..Len(ts) :
              \/ Tok(ts, k) = "a"
              \/ Tok(ts, k) \in {"<", ">", "+"} /\ k < Len(ts) /\ Tok(ts, k + 1) = "a"
      args == SelectSeq([k \in 1..Len(ts) |-> [t |-> ts[k], arg |-> ~file(k) /\ Tok(ts, k) = "a"]],
                        LAMBDA x : x.arg)
      files == SelectSeq([k \in 1..Len(ts) |-> [t |-> ts[k], file |-> file(k),
                            fd |-> IF k > 1 /\ Tok(ts, k - 1) = "<" THEN 0 ELSE 1]], LAMBDA x : x.file)
      redirs == [k \in 1..Len(files) |-> [file |-> <<files[k].t.q, files[k].t.eq>>, fd |-> files[k].fd]]
  IN IF ok /\ Len(args) < MAXARGS
     THEN {Wrapped(Exec([k \in 1..Len(args) |-> <<args[k].t.q, args[k].t.eq>>]), redirs)} ELSE {}
Around(cmds, tails) ==     \* redirections behind a block
  {Wrapped(c, [k \in 1..Len(tails) \div 2 |->
     [file |-> <<tails[2 * k].q, tails[2 * k].eq>>, fd |-> IF tails[2 * k - 1].tok = "<" THEN 0 ELSE 1]]) : c \in cmds}

RECURSIVE LineOf(_)
RECURSIVE PipeOf(_)
BlockOf(ts) ==
  UNION {Around(LineOf(SubSeq(ts, 2, k - 1)), SubSeq(ts, k + 1, Len(ts))) :
           k \in {k \in 2..Len(ts) : /\ Tok(ts, 1) = "(" /\ Tok(ts, k) = ")"
                                     /\ (Len(ts) - k) % 2 = 0
                                     /\ \A j \in k + 1..Len(ts) :
                                          IF (j - k) % 2 = 1 THEN Tok(ts, j) \in {"<", ">", "+"}
                                          ELSE Tok(ts, j) = "a"}}
OneOf(ts) == Simple(ts) \cup BlockOf(ts)
PipeOf(ts) ==
  OneOf(ts) \cup
  UNION {{Pipe(a, b) : a \in OneOf(SubSeq(ts, 1, k - 1)), b \in PipeOf(SubSeq(ts, k + 1, Len(ts)))} :
           k \in {k \in 1..Len(ts) : Tok(ts, k) = "|"}}
RECURSIVE BackOf(_)
BackOf(ts) ==
  IF ts # <<>> /\ Tok(ts, Len(ts)) = "&" THEN {Back(c) : c \in BackOf(SubSeq(ts, 1, Len(ts) - 1))}
  ELSE PipeOf(ts)
LineOf(ts) ==
  BackOf(ts) \cup
  UNION {{List(a, b) : a \in BackOf(SubSeq(ts, 1, k - 1)), b \in LineOf(SubSeq(ts, k + 1, Len(ts)))} :
           k \in {k \in 1..Len(ts) : Tok(ts, k) = ";"}}

(* parsecmd accepts the lines of the grammar and no others, and builds the  *)
(* one command that the grammar gives.                                      *)
ParsesGrammar ==
  LineOf(Tokens(line, 1)) = IF cmd.err = "no" THEN {cmd.cmd} ELSE {}
=============================================================================
