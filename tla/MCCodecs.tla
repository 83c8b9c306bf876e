------------------------------ MODULE MCCodecs ------------------------------
(***************************************************************************)
(* Bytes at the edges of a byte and of a digit, characters with and        *)
(* without low bits, paddings and characters to skip anywhere, needles     *)
(* that repeat their first byte and needles that do not, and numbers below *)
(* and above those of every message.                                       *)
(***************************************************************************)
EXTENDS Codecs

(* A program id of 32 different bytes, one byte into a log blob: the       *)
(* portable search locates it, the SSE2 and AVX2 ones do not.              *)
ProgramId == [k \in 1 .. PROGRAM_ID_LEN |-> k]
Blob == <<0>> \o ProgramId

ASSUME VectorSearchMisses ==
  /\ fast_memmem(Blob, ProgramId, 1) = {1}
  /\ fast_memmem(Blob, ProgramId, 16) = {} /\ fast_memmem(Blob, ProgramId, 32) = {}
=============================================================================
