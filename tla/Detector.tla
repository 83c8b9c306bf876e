------------------------------ MODULE Detector ------------------------------
(***************************************************************************)
(* src/protocol_detector.c.  A program id and an account key are sequences *)
(* of bytes; a key that is NULL or empty is <<>>.                          *)
(***************************************************************************)
EXTENDS Integers, Sequences

PROGRAM_ID_LEN == 32

MatchAt(haystack, needle, pos) ==
  /\ pos + Len(needle) <= Len(haystack)
  /\ SubSeq(haystack, pos + 1, pos + Len(needle)) = needle

(* The candidates of a block are the offsets at which the block and the    *)
(* needle have the same byte: one bit of mask each.                        *)
Mask(haystack, needle, block, i) ==
  {bit \in 0 .. block - 1 : haystack[i + bit + 1] = needle[bit + 1]}

(* A candidate that is not compared.                                       *)
Scan_NoCompare(haystack, needle, block, i) ==
  LET mask == Mask(haystack, needle, block, i)
  IN {i + bit : bit \in {b \in mask : \A c \in mask : b <= c}}

(* while (mask): the first candidate of the block at i where the needle    *)
(* is.  In the AVX2 form block and needle are equally long, and a full     *)
(* mask is answered with i itself, which is its first candidate.           *)
Scan(haystack, needle, block, i) ==
  LET found == {bit \in Mask(haystack, needle, block, i) : MatchAt(haystack, needle, i + bit)}
  IN {i + bit : bit \in {b \in found : \A c \in found : b <= c}}

(* fast_memmem: the position of a match, counted from 0, or none.  block   *)
(* is 32 with AVX2, 16 with SSE2 and 1 in the portable form.               *)
fast_memmem(haystack, needle, block) ==
  LET len == Len(haystack)
      from[i \in 0 .. len + block] ==
        IF i + Len(needle) > len THEN {}
        ELSE LET hit == Scan(haystack, needle, block, i)
             IN IF hit # {} THEN hit ELSE from[i + block]
  IN IF needle = <<>> \/ len < Len(needle) THEN {} ELSE from[0]

protocol_detector_match_program(pattern, data, block) ==
  pattern.enabled /\ fast_memmem(data, pattern.program_id, block) # {}

(* A pattern of the detector; the id of one that is not enabled stays zero. *)
Pattern(program_id, enabled) ==
  [enabled |-> enabled,
   program_id |-> IF enabled THEN program_id ELSE [k \in 1 .. PROGRAM_ID_LEN |-> 0]]

protocol_detector_init(pumpfun, pumpfun_enabled, raydium, raydium_enabled) ==
  [pumpfun |-> Pattern(pumpfun, pumpfun_enabled),
   raydium |-> Pattern(raydium, raydium_enabled)]

Is(pattern, account) ==
  pattern.enabled /\ Len(account) = PROGRAM_ID_LEN /\ account = pattern.program_id

(* The program looked for first wins over the order of the accounts.       *)
protocol_detector_match_accounts_PumpfunFirst(detector, accounts) ==
  CASE \E i \in DOMAIN accounts : Is(detector.pumpfun, accounts[i]) -> "PUMPFUN"
    [] \E i \in DOMAIN accounts : Is(detector.raydium, accounts[i]) -> "RAYDIUM"
    [] OTHER -> "NONE"

(* The loop over the accounts; the first one that is a program decides.    *)
protocol_detector_match_accounts(detector, accounts) ==
  LET from[i \in 1 .. Len(accounts) + 1] ==
        CASE i > Len(accounts) -> "NONE"
          [] i <= Len(accounts) /\ accounts[i] # <<>> /\ Is(detector.pumpfun, accounts[i]) -> "PUMPFUN"
          [] i <= Len(accounts) /\ accounts[i] # <<>> /\ ~Is(detector.pumpfun, accounts[i])
             /\ Is(detector.raydium, accounts[i]) -> "RAYDIUM"
          [] OTHER -> from[i + 1]
  IN from[1]
=============================================================================
