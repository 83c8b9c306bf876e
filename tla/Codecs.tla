------------------------------- MODULE Codecs -------------------------------
(***************************************************************************)
(* The pure parts of the client against reference definitions.  A state is *)
(* an input of one of them, built up one element at a time, so that TLC    *)
(* visits every input up to a bound.                                       *)
(***************************************************************************)
EXTENDS Base58, Base64, Detector, Parsers, Bindings, FiniteSets

CONSTANTS Bytes,        \* bytes an input of Base58 is made of
          Chars,        \* characters an input of Base64 is made of
          Letters,      \* bytes of haystacks and needles
          Tags,         \* field numbers a peer may send
          MaxBytes, MaxChars, MaxHaystack,   \* bounds: lengths of the inputs
          MaxSwap,      \* bound: decoded bytes given to raydium_parse_swap
          NeedleLen     \* stands for PROGRAM_ID_LEN in the search

ASSUME CodecsAssumption ==
  /\ Bytes \subseteq 0 .. 255 /\ Chars \subseteq Nat /\ Tags \subseteq Nat
  /\ NeedleLen \in {4 * k : k \in 1 .. 8}

VARIABLES codec, data

vars == <<codec, data>>

Init ==
  /\ codec \in {"base58", "base64", "search", "swap", "subscribe_request", "subscribe_update"}
  /\ data = <<>>

Grow(c, elements, max) ==
  /\ codec = c /\ Len(data) < max
  /\ \E x \in elements : data' = Append(data, x)
  /\ UNCHANGED codec

GrowBytes == Grow("base58", Bytes, MaxBytes)
GrowText == Grow("base64", Chars, MaxChars)
GrowHaystack == Grow("search", Letters, MaxHaystack)
GrowSwap == Grow("swap", {0}, MaxSwap)

(* A parser goes down into a field only when it holds a message.           *)
GrowPath ==
  /\ codec \in {"subscribe_request", "subscribe_update"}
  /\ MessageAt(codec, data) # NoMessage
  /\ \E n \in Tags : data' = Append(data, n)
  /\ UNCHANGED codec

(* The next input starts from nothing.                                     *)
StartOver == data # <<>> /\ data' = <<>> /\ UNCHANGED codec

Next == GrowBytes \/ GrowText \/ GrowHaystack \/ GrowSwap \/ GrowPath \/ StartOver

Spec == Init /\ [][Next]_vars

-----------------------------------------------------------------------------
(* Base58                                                                  *)

Value(digits, base) ==
  LET value[k \in 0 .. Len(digits)] ==
        IF k = 0 THEN 0 ELSE base * value[k - 1] + digits[k]
  IN value[Len(digits)]

(* The text base58_encode writes (base58.c:70-107) denotes the same number *)
(* as the bytes, has as many leading zeros, and no digit of the number is  *)
(* carried out of the scratch array.                                       *)
Base58Positional ==
  codec = "base58" =>
    /\ Value(Text(data), 58) = Value(data, 256)
    /\ LeadingZeros(Text(data)) = LeadingZeros(data)

(* The input repeated to the length of a key or of a signature.            *)
Stretched(n) == [k \in 1 .. n |-> data[((k - 1) % Len(data)) + 1]]

(* A program id or a key always fits the 64-byte buffers it is encoded     *)
(* into (geyser_client.c:252-253, YUREI_MAX_PUBKEY_TEXT), and a program id *)
(* or a signature comes back from base58_decode as it was: the estimates   *)
(* 138/100 and 733/1000 are enough at full length (base58.c:33, 75).       *)
Base58RoundTrip ==
  (codec = "base58" /\ data # <<>>) =>
    /\ base58_encode(Stretched(32), 64, TRUE).ret > 0
    /\ \A x \in {data, Stretched(32), Stretched(64)} :
         base58_decode(Text(x), Len(x), TRUE) = [ret |-> Len(x), out |-> x]

-----------------------------------------------------------------------------
(* Base64                                                                  *)

WellFormed(text) ==
  /\ Len(text) % 4 = 0
  /\ \A i \in DOMAIN text : text[i] < Pad \/ (text[i] = Pad /\ i > Len(text) - Padding(text))

(* The bytes of a text by groups of four characters.                       *)
GroupByte(text, i) ==
  LET g == 4 * (i \div 3)
      sextet(k) == text[g + k] % Pad
      group == Value(<<sextet(1), sextet(2), sextet(3), sextet(4)>>, 64)
  IN (group \div 256^(2 - (i % 3))) % 256

(* What base64_decode writes (base64.c:34-57): a well-formed text gives    *)
(* the bytes of its groups.  Any text gives six bits for each character    *)
(* that is not skipped, so the bytes produced exceed the size the capacity *)
(* was compared with by the paddings at most.                              *)
Base64Reference ==
  codec = "base64" =>
    LET size == base64_decoded_size(data)
        bytes == base64_decode(data, size).out
    IN /\ WellFormed(data) =>
            /\ Len(bytes) = size + Padding(data)
            /\ \A i \in 1 .. size : bytes[i] = GroupByte(data, i - 1)
       /\ Len(bytes) = produced_by(Cardinality({i \in DOMAIN data : data[i] <= Pad}))
       /\ Len(bytes) <= size + Padding(data)

-----------------------------------------------------------------------------
(* The search and the parser                                               *)

Needles == [1 .. NeedleLen -> Letters]
Blocks == {1, NeedleLen \div 2, NeedleLen}  \* portable, SSE2, AVX2

(* fast_memmem (protocol_detector.c:15-58) answers with a match or not at  *)
(* all, and with none later than the first that starts a block of the form *)
(* the build selects.  In the portable form that is the first match, which *)
(* is what README.md:8, 135 and 151 promise of every form; a vector form   *)
(* may miss a match between two blocks, which this does not call correct.  *)
SearchSound ==
  codec = "search" =>
    \A needle \in Needles, block \in Blocks :
      LET hit == fast_memmem(data, needle, block)
          at(pos) == MatchAt(data, needle, pos)
      IN /\ \A pos \in hit : pos \in 0 .. Len(data) /\ at(pos)
         /\ \A pos \in 0 .. Len(data) :
              (at(pos) /\ pos % block = 0) => \E first \in hit : hit = {first} /\ first <= pos

(* raydium_parse_swap (raydium_parser.c:28-93) accepts exactly the buffers *)
(* that hold the whole layout, although the keys in the middle are read    *)
(* without looking whether they are there.                                 *)
SwapLengthExact ==
  codec = "swap" =>
    \A has_target \in BOOLEAN :
      raydium_parse_swap(Len(data), has_target)
        <=> Len(data) >= 4 * 8 + 17 * 32 + 1 + (IF has_target THEN 32 ELSE 0)

-----------------------------------------------------------------------------
(* The bindings                                                            *)

(* In every message a request or an update can contain, the ranges lead    *)
(* from a number to the field that has it and from an unknown number to    *)
(* none, and packing the member that a path of numbers was unpacked into   *)
(* gives the path again (geyser.pb-c.c, solana-storage.pb-c.c).            *)
BindingsConsistent ==
  (codec \in {"subscribe_request", "subscribe_update"} /\ data # <<>>) =>
    LET m == Descriptors[MessageAt(codec, SubSeq(data, 1, Len(data) - 1))]
        n == data[Len(data)]
        i == Lookup(m, n)
    IN /\ (i = NotFound) <=> \A k \in DOMAIN m.fields : m.fields[k].number # n
       /\ i # NotFound => m.fields[i].number = n
       /\ Known(codec, data) => Numbers(codec, Members(codec, data)) = data
=============================================================================
