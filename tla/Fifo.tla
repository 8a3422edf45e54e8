-------------------------------- MODULE Fifo --------------------------------
(***************************************************************************)
(* What pipe.c promises: a bounded queue of bytes.  A read takes some of    *)
(* the oldest bytes in order, and finds the end of the stream only when the *)
(* queue is empty and the write end closed.                                *)
(***************************************************************************)
EXTENDS Integers, Sequences

CONSTANTS Reader, Byte, Cap

VARIABLES
  q,        \* the bytes written and not yet read
  open,     \* the write end is open
  got, eof  \* what each reader's last read returned; it was end of file

vars == <<q, open, got, eof>>

Init == q = <<>> /\ open = TRUE /\ got = [p \in Reader |-> <<>>] /\ eof = {}

Put ==
  /\ open
  /\ \E k \in 1..Cap - Len(q) : \E s \in [1..k -> Byte] : q' = q \o s
  /\ UNCHANGED <<open, got, eof>>

Get(p) ==
  /\ \E k \in 1..Len(q) :
       /\ got' = [got EXCEPT ![p] = SubSeq(q, 1, k)]
       /\ q' = SubSeq(q, k + 1, Len(q))
  /\ UNCHANGED <<open, eof>>

(* A read starts; a read meets the end of the stream.                      *)
Start(p) ==
  /\ got' = [got EXCEPT ![p] = <<>>] /\ eof' = eof \ {p}
  /\ UNCHANGED <<q, open>>
Eof(p) ==
  /\ q = <<>> /\ ~open
  /\ eof' = eof \cup {p}
  /\ UNCHANGED <<q, open, got>>

Close == open' = FALSE /\ UNCHANGED <<q, got, eof>>

Next == Put \/ Close \/ \E p \in Reader : Get(p) \/ Start(p) \/ Eof(p)

Spec == Init /\ [][Next]_vars
=============================================================================
