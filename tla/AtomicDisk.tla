----------------------------- MODULE AtomicDisk -----------------------------
(***************************************************************************)
(* What log.c promises to the file system: a disk whose blocks change only *)
(* by whole transactions.  stable is what survives a crash, current is     *)
(* what reads return; transactions run one at a time.                      *)
(***************************************************************************)
CONSTANTS Block, Val

VARIABLES
  stable,   \* the last committed contents
  current,  \* the contents with the writes of the open transaction
  open      \* a transaction is open

vars == <<stable, current, open>>

TypeOK ==
  /\ stable \in [Block -> Val]
  /\ current \in [Block -> Val]
  /\ open \in BOOLEAN

Init ==
  /\ stable \in [Block -> Val]
  /\ current = stable
  /\ open = FALSE

Begin ==
  /\ ~open /\ open' = TRUE
  /\ UNCHANGED <<stable, current>>

Write(b, v) ==
  /\ open
  /\ current' = [current EXCEPT ![b] = v]
  /\ UNCHANGED <<stable, open>>

Commit ==
  /\ open
  /\ stable' = current
  /\ UNCHANGED <<current, open>>

(* A transaction ends only once everything it wrote is committed.          *)
End ==
  /\ open /\ open' = FALSE
  /\ stable = current
  /\ UNCHANGED <<stable, current>>

(* A crash undoes the open transaction as a whole and nothing else.        *)
Crash ==
  /\ current' = stable
  /\ open' = FALSE
  /\ UNCHANGED stable

Next ==
  \/ Begin \/ Commit \/ End \/ Crash
  \/ \E b \in Block, v \in Val : Write(b, v)

Spec == Init /\ [][Next]_vars
=============================================================================
