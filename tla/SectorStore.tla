---------------------------- MODULE SectorStore -----------------------------
(***************************************************************************)
(* What bio.c and ide.c promise to the kernel: a store of sectors, each     *)
(* used by one process at a time, in which a sector always holds what was   *)
(* last written to it.                                                     *)
(***************************************************************************)
CONSTANTS Proc, Sector, Val   \* Val[s]: what sector s may hold

VARIABLES
  contents,   \* what each sector holds
  using       \* the sectors each process has between bread and brelse

vars == <<contents, using>>

Init ==
  /\ \A s \in Sector : contents[s] \in Val[s]
  /\ using = [p \in Proc |-> {}]

Get(p, s) ==
  /\ \A q \in Proc : s \notin using[q]
  /\ using' = [using EXCEPT ![p] = @ \cup {s}]
  /\ UNCHANGED contents

Put(p, s) ==
  /\ s \in using[p]
  /\ using' = [using EXCEPT ![p] = @ \ {s}]
  /\ UNCHANGED contents

Store(p, s, v) ==
  /\ s \in using[p]
  /\ contents' = [contents EXCEPT ![s] = v]
  /\ UNCHANGED using

Next == \E p \in Proc, s \in Sector :
          Get(p, s) \/ Put(p, s) \/ \E v \in Val[s] : Store(p, s, v)

Spec == Init /\ [][Next]_vars
=============================================================================
