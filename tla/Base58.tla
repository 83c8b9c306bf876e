------------------------------- MODULE Base58 -------------------------------
(***************************************************************************)
(* src/base58.c.  A byte is a number below 256.  A character is a number   *)
(* too: below 58 it is the character of ALPHABET with that index ('1' is   *)
(* 0), anything else is a character outside the alphabet.  Both directions *)
(* convert between positional systems in place, with one multiply-and-add  *)
(* pass over a scratch array for each digit of the input, and treat the    *)
(* leading zeros apart.                                                    *)
(***************************************************************************)
EXTENDS Integers, Sequences

(* base58_init_map *)
MAP(char) == IF char \in 0 .. 57 THEN char ELSE -1

(* The zeros at the front of a sequence.                                   *)
LeadingZeros(s) ==
  LET zeros[k \in 0 .. Len(s)] == IF k < Len(s) /\ s[k + 1] = 0 THEN zeros[k + 1] ELSE k
  IN zeros[0]

Scratch(n) == [k \in 1 .. n |-> 0]

(* A pass under way: what is carried, and the cells it has been over.      *)
PassState == [carry : Int, cells : Seq(Int)]

(* carry += radix * tmp[j]; tmp[j] = carry % base; carry /= base           *)
Cell(value, radix, base) ==
  [s \in PassState |->
     LET x == s.carry + radix * value
     IN [carry |-> x \div base, cells |-> <<x % base>> \o s.cells]]

(* for (j = tmp_len - 1; j >= 0; --j): the pass over the scratch array.    *)
(* What is carried out of its first cell is lost.                          *)
MultiplyAdd(radix, base, digit) ==
  [tmp \in Seq(Int) |->
     LET pass[k \in 0 .. Len(tmp)] ==
           IF k = 0 THEN [carry |-> digit, cells |-> <<>>]
                    ELSE Cell(tmp[Len(tmp) + 1 - k], radix, base)[pass[k - 1]]
     IN pass[Len(tmp)].cells]

(* The loop over the digits behind the leading zeros.                      *)
Convert(digits, zeros, radix, base, tmp_len) ==
  LET loop[i \in 0 .. Len(digits)] ==
        IF i <= zeros THEN Scratch(tmp_len)
                      ELSE MultiplyAdd(radix, base, digits[i])[loop[i - 1]]
  IN loop[Len(digits)]

Stripped(s) == SubSeq(s, LeadingZeros(s) + 1, Len(s))

(* The scratch array one cell too short, as if the length were rounded     *)
(* down.                                                                   *)
EncodedRoom_Floor(len) == (len * 138) \div 100

(* tmp_len of base58_encode *)
EncodedRoom(len) == (len * 138) \div 100 + 1

(* The leading zeros left out.                                             *)
Text_NoZeros(input) ==
  Stripped(Convert(input, LeadingZeros(input), 256, 58, EncodedRoom(Len(input))))

(* The characters base58_encode writes before the terminator.              *)
Text(input) ==
  LET zeros == LeadingZeros(input)
  IN Scratch(zeros) \o Stripped(Convert(input, zeros, 256, 58, EncodedRoom(Len(input))))

(* base58_encode: the return value, and out when it is not negative.       *)
(* calloc says whether there is memory for the scratch array.              *)
base58_encode(input, out_len, calloc) ==
  LET out == Text(input)
  IN IF ~calloc \/ Len(out) + 1 > out_len THEN [ret |-> -1, out |-> <<>>]
                                          ELSE [ret |-> Len(out), out |-> out]

(* base58_decode, likewise.                                                *)
base58_decode(input, out_len, calloc) ==
  LET zeros == LeadingZeros(input)
      digits == [i \in DOMAIN input |-> MAP(input[i])]
      tmp == Convert(digits, zeros, 58, 256, (Len(input) * 733) \div 1000 + 1)
      out == Scratch(zeros) \o Stripped(tmp)
  IN IF ~calloc \/ (\E i \in zeros + 1 .. Len(input) : digits[i] < 0) \/ Len(out) > out_len
     THEN [ret |-> -1, out |-> <<>>]
     ELSE [ret |-> Len(out), out |-> out]
=============================================================================
