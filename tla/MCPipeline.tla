----------------------------- MODULE MCPipeline -----------------------------
(***************************************************************************)
(* A queue of two and four events: the queue fills while the writer is     *)
(* slow, and every prefix of the start-up can meet the signal.             *)
(***************************************************************************)
EXTENDS Pipeline
=============================================================================
