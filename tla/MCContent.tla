----------------------------- MODULE MCContent ------------------------------
(***************************************************************************)
(* Content.tla on a disk that its files fill.                              *)
(***************************************************************************)
EXTENDS Content, Samples
=============================================================================
