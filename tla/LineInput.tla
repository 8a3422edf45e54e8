----------------------------- MODULE LineInput ------------------------------
(***************************************************************************)
(* What the console promises to readers: typed characters can be edited     *)
(* until their line is complete; complete lines are read in order.          *)
(***************************************************************************)
EXTENDS Integers, Sequences

CONSTANTS Reader, Plain, Newline, Eof, Cap

VARIABLES
  ready,    \* complete input, not yet read
  line,     \* the line being typed
  text      \* what each reader's call has read so far

vars == <<ready, line, text>>

Init == ready = <<>> /\ line = <<>> /\ text = [p \in Reader |-> <<>>]

Type(c) ==
  /\ Len(ready) + Len(line) < Cap
  /\ IF c \in {Newline, Eof} \/ Len(ready) + Len(line) + 1 = Cap
     THEN ready' = ready \o Append(line, c) /\ line' = <<>>
     ELSE line' = Append(line, c) /\ UNCHANGED ready
  /\ UNCHANGED text

Erase ==
  /\ line # <<>>
  /\ line' \in {<<>>, SubSeq(line, 1, Len(line) - 1)}
  /\ UNCHANGED <<ready, text>>

Start(p) == text' = [text EXCEPT ![p] = <<>>] /\ UNCHANGED <<ready, line>>

(* A read takes characters up to a newline, never an end of file.          *)
Take(p) ==
  /\ \E k \in 1..Len(ready) :
       /\ \A i \in 1..k : ready[i] # Eof /\ (ready[i] = Newline => i = k)
       /\ text' = [text EXCEPT ![p] = @ \o SubSeq(ready, 1, k)]
       /\ ready' = SubSeq(ready, k + 1, Len(ready))
  /\ UNCHANGED line

(* An end of file is consumed by the read that returns no character.       *)
End(p) ==
  /\ ready # <<>> /\ Head(ready) = Eof /\ text[p] = <<>>
  /\ ready' = Tail(ready)
  /\ UNCHANGED <<line, text>>

Next ==
  \/ Erase \/ \E c \in Plain \cup {Newline, Eof} : Type(c)
  \/ \E p \in Reader : Start(p) \/ Take(p) \/ End(p)

Spec == Init /\ [][Next]_vars
=============================================================================
