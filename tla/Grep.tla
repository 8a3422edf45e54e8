-------------------------------- MODULE Grep --------------------------------
(***************************************************************************)
(* The pattern matcher of grep.c, on every short pattern and line.          *)
(***************************************************************************)
EXTENDS Integers, Sequences, SequencesExt

CONSTANTS Letters, MaxRe, MaxText

VARIABLES re, text
vars == <<re, text>>

RECURSIVE matchhere(_, _), matchstar(_, _, _), MatchFrom(_, _)

M_matchhere_DollarAnywhere(r, t) ==
  IF r = <<>> THEN TRUE
  ELSE IF Len(r) > 1 /\ r[2] = "*" THEN matchstar(r[1], SubSeq(r, 3, Len(r)), t)
  ELSE IF r[1] = "$" THEN t = <<>>
  ELSE t # <<>> /\ (r[1] = "." \/ r[1] = t[1]) /\ matchhere(Tail(r), Tail(t))
matchhere(r, t) ==
  IF r = <<>> THEN TRUE
  ELSE IF Len(r) > 1 /\ r[2] = "*" THEN matchstar(r[1], SubSeq(r, 3, Len(r)), t)
  ELSE IF r = <<"$">> THEN t = <<>>
  ELSE t # <<>> /\ (r[1] = "." \/ r[1] = t[1]) /\ matchhere(Tail(r), Tail(t))

matchstar(c, r, t) ==
  \/ matchhere(r, t)
  \/ t # <<>> /\ (t[1] = c \/ c = ".") /\ matchstar(c, r, Tail(t))

MatchFrom(r, t) == matchhere(r, t) \/ (t # <<>> /\ MatchFrom(r, Tail(t)))
match(r, t) == IF r # <<>> /\ r[1] = "^" THEN matchhere(Tail(r), t) ELSE MatchFrom(r, t)

-----------------------------------------------------------------------------
Init == re = <<>> /\ text = <<>>
Next ==
  \/ /\ Len(re) < MaxRe /\ text = <<>>
     /\ \E c \in Letters \cup {"^", ".", "*", "$"} : re' = Append(re, c)
     /\ UNCHANGED text
  \/ /\ Len(text) < MaxText
     /\ \E c \in Letters \cup {"*", "$"} : text' = Append(text, c)
     /\ UNCHANGED re
  \/ re' = <<>> /\ text' = <<>>

Spec == Init /\ [][Next]_vars

-----------------------------------------------------------------------------
(* What a pattern means: items, each for a set of strings, in a row.  A * is *)
(* an operator after any character but another operator *, a $ at the end   *)
(* only.                                                                    *)
RECURSIVE Items(_)
Items(r) ==
  IF r = <<>> THEN <<>>
  ELSE IF Len(r) > 1 /\ r[2] = "*" THEN <<[c |-> r[1], k |-> "star"]>> \o Items(SubSeq(r, 3, Len(r)))
  ELSE IF r = <<"$">> THEN <<[c |-> "$", k |-> "end"]>>
  ELSE <<[c |-> r[1], k |-> "one"]>> \o Items(Tail(r))

Fits(item, t, i, j) ==     \* item stands for characters i+1..j of t
  LET ok(x) == item.c = "." \/ item.c = x
  IN CASE item.k = "star" -> i <= j /\ \A x \in (i + 1)..j : ok(t[x])
       [] item.k = "end" -> i = j /\ i = Len(t)
       [] OTHER -> j = i + 1 /\ ok(t[j])

Means(r, t) ==
  LET anchored == r # <<>> /\ r[1] = "^"
      is == Items(IF anchored THEN Tail(r) ELSE r)
  IN \E cut \in [0..Len(is) -> 0..Len(t)] :
       /\ anchored => cut[0] = 0
       /\ \A n \in DOMAIN is : Fits(is[n], t, cut[n - 1], cut[n])

(* match says yes exactly when some stretch of the line can be divided      *)
(* among the items of the pattern, for all patterns and lines: matchstar    *)
(* gives back what it took too greedily.                                    *)
MatchesMeaning == match(re, text) <=> Means(re, text)
=============================================================================
