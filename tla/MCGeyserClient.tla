--------------------------- MODULE MCGeyserClient ---------------------------
(***************************************************************************)
(* The real cache size and backoff limit, and two messages per call.       *)
(***************************************************************************)
EXTENDS GeyserClient
=============================================================================
