------------------------------- MODULE Base64 -------------------------------
(***************************************************************************)
(* src/base64.c.  A character is a number: below 64 it is the character of *)
(* the alphabet with that index, 64 is '=', anything else is a character   *)
(* the decoder skips.                                                      *)
(***************************************************************************)
EXTENDS Integers, Sequences

Pad == 64
Skipped == 128  \* 0x80

(* base64_init_table; '=' stands for the bits 000000.                      *)
decode_table(char) == CASE char \in 0 .. 63 -> char
                        [] char = Pad       -> 0
                        [] OTHER            -> Skipped

(* The last group not counted when it is not whole.                        *)
decoded_size_Floor(len, padding) == (len \div 4) * 3 - padding

(* base64_decoded_size of a text of this length that ends with this many   *)
(* paddings; at most two are looked at.                                    *)
decoded_size(len, padding) == ((len + 3) \div 4) * 3 - padding

Padding(input) ==
  LET len == Len(input)
      at(k) == IF len >= k /\ input[len + 1 - k] = Pad THEN 1 ELSE 0
  IN at(1) + at(2)

base64_decoded_size(input) == decoded_size(Len(input), Padding(input))

(* The bytes that len characters of the table give.                        *)
produced_by(len) == (len * 6) \div 8

(* Characters that are not in the table contribute a zero.                 *)
TakeChar_NoSkip(state, char) ==
  LET buffer == (state.buffer * 64 + (decode_table(char) % Skipped)) % 65536
      bits == state.bits + 6
  IN IF bits >= 8
     THEN [buffer |-> buffer, bits |-> bits - 8,
           out |-> Append(state.out, (buffer \div 2^(bits - 8)) % 256)]
     ELSE [buffer |-> buffer, bits |-> bits, out |-> state.out]

(* One character.  Of the 32 bits of buffer the low 16 are kept: a byte is *)
(* taken from bits 13 to 0 at most.                                        *)
TakeChar(state, char) ==
  LET val == decode_table(char)
      buffer == (state.buffer * 64 + val) % 65536
      bits == state.bits + 6
  IN CASE val = Skipped -> state
       [] val < Skipped /\ bits >= 8 ->
            [buffer |-> buffer, bits |-> bits - 8,
             out |-> Append(state.out, (buffer \div 2^(bits - 8)) % 256)]
       [] OTHER -> [buffer |-> buffer, bits |-> bits, out |-> state.out]

(* base64_decode: the return value, and the bytes written.                 *)
base64_decode(input, out_cap) ==
  LET taken[i \in 0 .. Len(input)] ==
        IF i = 0 THEN [buffer |-> 0, bits |-> 0, out |-> <<>>]
                 ELSE TakeChar(taken[i - 1], input[i])
  IN IF out_cap < base64_decoded_size(input)
     THEN [ret |-> -1, out |-> <<>>]
     ELSE [ret |-> 0, out |-> taken[Len(input)].out]
=============================================================================
