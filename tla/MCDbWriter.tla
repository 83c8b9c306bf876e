----------------------------- MODULE MCDbWriter -----------------------------
(***************************************************************************)
(* Batches of two events and a queue of two: a batch fills, a flush fails  *)
(* and is retried, and the two tables interleave.                          *)
(***************************************************************************)
EXTENDS DbWriter
=============================================================================
