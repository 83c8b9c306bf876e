------------------------------ MODULE MCIngest ------------------------------
(***************************************************************************)
(* Environments with the program ids of .env.example, none, the same one   *)
(* twice, ids of the wrong length and ids that are not Base58; updates     *)
(* that lack any of the fields the handler needs, that repeat and mix the  *)
(* members of the oneof, that carry numbers nobody knows; every order of   *)
(* up to three keys, one more than are looked at, and of up to two lines   *)
(* on both sides of every size that matters.                               *)
(***************************************************************************)
EXTENDS Ingest

PumpfunText ==
  <<5, 13, 14, 7, 49, 49, 37, 35, 51, 40, 24, 4, 12, 43, 57, 46, 45, 7, 21, 54, 52, 6, 7, 40,
    24, 53, 38, 11, 18, 52, 34, 17, 0, 3, 20, 4, 52, 10, 13, 54, 14, 5, 22>>
RaydiumText ==
  <<5, 6, 4, 43, 22, 30, 8, 20, 16, 26, 42, 25, 1, 57, 51, 0, 48, 38, 49, 0, 21, 31, 16, 52,
    57, 37, 19, 30, 38, 23, 20, 8, 16, 1, 3, 54, 14, 25, 27, 51, 0, 20, 47, 7>>
SystemText == [k \in 1 .. 32 |-> 0]   \* the system program, 32 zero bytes

PumpfunId == base58_decode(PumpfunText, 32, TRUE).out
RaydiumId == base58_decode(RaydiumText, 32, TRUE).out

Env(pumpfun, raydium, from_slot, queue_capacity) ==
  [pumpfun |-> pumpfun, raydium |-> raydium, from_slot |-> from_slot,
   queue_capacity |-> queue_capacity]

MCEnvs ==
  {Env(PumpfunText, RaydiumText, 0, 65536), Env(PumpfunText, <<>>, Unset, Unset),
   Env(<<>>, RaydiumText, 7, 0), Env(PumpfunText, PumpfunText, Unset, 1023),
   Env(<<>>, <<>>, 7, Unset), Env(SystemText, RaydiumText, Unset, 1024),
   Env(Tail(PumpfunText), <<>>, Unset, Unset), Env(PumpfunText, Append(RaydiumText, 1), 0, Unset),
   Env(<<>>, [RaydiumText EXCEPT ![9] = 60], Unset, Unset)}

SeqsUpTo(S, n) == UNION {[1 .. k -> S] : k \in 0 .. n}

Keys == {PumpfunId, RaydiumId, SystemText, Tail(PumpfunId), <<>>}

Data(len, padding, has_target) ==
  [prefixed |-> TRUE, len |-> len, padding |-> padding, skipped |-> 0, has_target |-> has_target]
Noisy(len, padding, skipped) == [Data(len, padding, FALSE) EXCEPT !.skipped = skipped]

(* Characters for 249, 250 (a trade), 512 and 513, 577 (a swap), 609, 768  *)
(* and 769 bytes; lines that are no groups of four, or have characters     *)
(* that are skipped; one with nothing behind the prefix, one without it.   *)
Lines ==
  {Data(332, 0, FALSE), Data(336, 2, FALSE), Data(684, 1, FALSE), Data(683, 2, FALSE),
   Data(772, 2, FALSE), Data(812, 0, TRUE), Data(1024, 0, FALSE), Data(1027, 2, FALSE),
   Data(1028, 2, FALSE), Noisy(336, 0, 3), Noisy(684, 2, 1), Noisy(1024, 0, 600),
   Data(0, 0, FALSE), [Data(336, 2, FALSE) EXCEPT !.prefixed = FALSE]}

Long == [k \in 1 .. 64 |-> 255]                          \* 88 characters
Short == [k \in 1 .. 64 |-> IF k = 1 THEN 1 ELSE 200]    \* 87 characters
MCSignatures == {Long, Short, <<>>}

Paths == {<<1>>, <<1, 1>>, <<1, 3>>, <<1, 3, 2>>, <<1, 3, 2, 2>>, <<1, 4>>, <<1, 4, 6>>,
          <<2>>, <<1, 19>>, <<1, 3, 2, 4>>}
Closed == {S \in SUBSET Paths : \A p \in S : Len(p) = 1 \/ Parent(p) \in S}

Body(paths, keys, lines, signature) ==
  [p \in paths |-> CASE p = <<1, 1>> -> signature
                     [] p = <<1, 3, 2, 2>> -> keys
                     [] p = <<1, 4, 6>> -> lines
                     [] p = <<2>> -> 7
                     [] OTHER -> "there"]

Part(tag, body) == [tag |-> tag, wiretype |-> "length_prefixed", body |-> body]
Transaction(paths, keys, lines, signature) == Part(4, Body(paths, keys, lines, signature))

Trade == <<Data(336, 2, FALSE)>>
Whole == Transaction(Paths, <<PumpfunId>>, Trade, Short)
Parts == {Whole, Transaction({<<2>>}, <<>>, <<>>, <<>>), Part(6, <<>>), Part(1, <<>>), Part(11, <<>>),
          Part(99, <<>>), [Part(99, <<>>) EXCEPT !.wiretype = "varint"],
          [Part(9, <<>>) EXCEPT !.wiretype = "varint"]}

MCUpdates ==
  {<<Transaction(paths, <<PumpfunId>>, Trade, Short)>> : paths \in Closed}
    \cup {<<Transaction(Paths, keys, Trade, Long)>> : keys \in SeqsUpTo(Keys, 3) \ {<<>>}}
    \cup {<<Transaction(Paths, <<key>>, lines, Short)>> :
            key \in {PumpfunId, RaydiumId}, lines \in SeqsUpTo(Lines, 2) \ {<<>>}}
    \cup {<<Transaction(Paths, <<PumpfunId>>, Trade, signature)>> : signature \in MCSignatures}
    \cup (SeqsUpTo(Parts, 3) \ {<<>>})
=============================================================================
