---------------------------- MODULE CodecsProofs ----------------------------
(***************************************************************************)
(* Theorems about Codecs: what the pure parts compute, for inputs of every *)
(* length and over every set of elements.                                  *)
(***************************************************************************)
EXTENDS Codecs, OperatorProofs

Elements == Bytes \cup Chars \cup Letters \cup Tags \cup {0}

(* An input is a sequence, and the one of the search consists of letters,  *)
(* the one of a codec of what the codec reads.                             *)
Typed ==
  /\ data \in Seq(Elements)
  /\ codec = "search" => data \in Seq(Letters)
  /\ codec \in {"subscribe_request", "subscribe_update"} => data \in Seq(Tags)
  /\ codec = "base64" => data \in Seq(Chars)

(* A path goes on from messages only.                                      *)
Descends ==
  (codec \in {"subscribe_request", "subscribe_update"} /\ data # <<>>) =>
    MessageAt(codec, SubSeq(data, 1, Len(data) - 1)) # NoMessage

LEMMA TypedHolds == Spec => []Typed
<1>1. Init => Typed
  BY DEF Init, Typed
<1>2. Typed /\ [Next]_vars => Typed'
  <2> SUFFICES ASSUME Typed, [Next]_vars PROVE Typed'
    OBVIOUS
  <2> USE DEF Typed
  <2>1. CASE GrowBytes
    BY <2>1 DEF GrowBytes, Grow, Elements
  <2>2. CASE GrowText
    BY <2>2 DEF GrowText, Grow, Elements
  <2>3. CASE GrowHaystack
    BY <2>3 DEF GrowHaystack, Grow, Elements
  <2>4. CASE GrowSwap
    BY <2>4 DEF GrowSwap, Grow, Elements
  <2>5. CASE GrowPath
    BY <2>5 DEF GrowPath, Elements
  <2>6. CASE StartOver
    BY <2>6 DEF StartOver
  <2>7. CASE UNCHANGED vars
    BY <2>7 DEF vars
  <2> QED
    BY <2>1, <2>2, <2>3, <2>4, <2>5, <2>6, <2>7 DEF Next
<1> QED
  BY <1>1, <1>2, PTL DEF Spec

(* raydium_parse_swap (raydium_parser.c:28-93) accepts exactly the buffers *)
(* that hold the whole layout, of whatever length: the reads whose failure *)
(* is ignored never let a short buffer pass.                               *)
THEOREM SwapExact == Spec => []SwapLengthExact
<1>1. Typed => SwapLengthExact
  <2> SUFFICES ASSUME Typed, NEW has_target \in BOOLEAN
               PROVE  raydium_parse_swap(Len(data), has_target)
                        <=> Len(data) >= 4 * 8 + 17 * 32 + 1 + (IF has_target THEN 32 ELSE 0)
    BY DEF SwapLengthExact
  <2>1. Len(data) \in Nat
    BY DEF Typed
  <2>2. EndOf(SwapReads(has_target)) = 4 * 8 + 17 * 32 + 1 + (IF has_target THEN 32 ELSE 0)
    BY DEF EndOf, SwapReads
  <2> QED
    BY <2>1, <2>2, SwapLength
<1> QED
  BY <1>1, TypedHolds, PTL

(* fast_memmem (protocol_detector.c:15-58), in each of its three forms and *)
(* for haystacks of every length, answers with a match, and with none      *)
(* later than the first at the start of a block: the first match, in the   *)
(* portable form.                                                          *)
THEOREM SearchCorrect == Spec => []SearchSound
<1>1. Typed => SearchSound
  <2> SUFFICES ASSUME Typed, codec = "search", NEW needle \in Needles, NEW block \in Blocks
               PROVE  LET hit == fast_memmem(data, needle, block)
                          at(pos) == MatchAt(data, needle, pos)
                      IN /\ \A pos \in hit : pos \in 0 .. Len(data) /\ at(pos)
                         /\ \A pos \in 0 .. Len(data) :
                              (at(pos) /\ pos % block = 0) =>
                                \E first \in hit : hit = {first} /\ first <= pos
    BY DEF SearchSound
  <2> DEFINE seen == Seen(data, needle, block)
  <2>1. NeedleLen \in Nat /\ NeedleLen > 0 /\ block \in Nat /\ block > 0 /\ block <= NeedleLen
    <3>1. PICK k \in 1 .. 8 : NeedleLen = 4 * k
      BY CodecsAssumption
    <3> QED
      BY <3>1 DEF Blocks
  <2>2. needle \in Seq(Letters) /\ Len(needle) = NeedleLen
    BY <2>1 DEF Needles
  <2>3. data \in Seq(Letters)
    BY DEF Typed
  <2>4. fast_memmem(data, needle, block) = First(seen)
    BY <2>1, <2>2, <2>3, SearchFinds
  <2>5. /\ seen \subseteq 0 .. Len(data) /\ Len(data) \in Nat
        /\ \A pos \in seen : MatchAt(data, needle, pos)
        /\ \A pos \in 0 .. Len(data) :
             (MatchAt(data, needle, pos) /\ pos % block = 0) => pos \in seen
    BY <2>3 DEF Seen
  <2> HIDE DEF seen
  <2>6. ASSUME NEW pos \in seen
        PROVE  \E first \in First(seen) : First(seen) = {first} /\ first <= pos
    <3>1. seen \in SUBSET Nat /\ seen # {}
      BY <2>5, <2>6
    <3>2. PICK p \in seen : \A q \in seen : p <= q
      BY <3>1, LeastElement
    <3>3. ASSUME NEW x \in First(seen) PROVE x = p
      <4>1. x \in Nat /\ p \in Nat /\ x <= p /\ p <= x
        BY <3>1, <3>2 DEF First
      <4> QED
        BY <4>1
    <3>4. First(seen) = {p}
      BY <3>2, <3>3 DEF First
    <3> QED
      BY <2>6, <3>2, <3>4
  <2>7. First(seen) \subseteq seen
    BY DEF First
  <2> QED
    BY <2>4, <2>5, <2>6, <2>7
<1> QED
  BY <1>1, TypedHolds, PTL

LEMMA DescendsHolds == Spec => []Descends
<1>1. Init => Descends
  BY DEF Init, Descends
<1>2. Typed /\ Descends /\ [Next]_vars => Descends'
  <2> SUFFICES ASSUME Typed, Descends, [Next]_vars PROVE Descends'
    OBVIOUS
  <2>1. CASE GrowBytes \/ GrowText \/ GrowHaystack \/ GrowSwap
    BY <2>1 DEF GrowBytes, GrowText, GrowHaystack, GrowSwap, Grow, Descends
  <2>2. CASE GrowPath
    <3>1. PICK n \in Tags : data' = Append(data, n)
      BY <2>2 DEF GrowPath
    <3>2. data \in Seq(Elements) /\ n \in Elements
      BY DEF Typed, Elements
    <3>3. SubSeq(data', 1, Len(data') - 1) = data
      BY <3>1, <3>2
    <3>4. MessageAt(codec, data) # NoMessage /\ codec' = codec
      BY <2>2 DEF GrowPath
    <3> QED
      BY <3>3, <3>4 DEF Descends
  <2>3. CASE StartOver
    BY <2>3 DEF StartOver, Descends
  <2>4. CASE UNCHANGED vars
    BY <2>4 DEF vars, Descends
  <2> QED
    BY <2>1, <2>2, <2>3, <2>4 DEF Next
<1> QED
  BY <1>1, <1>2, TypedHolds, PTL DEF Spec

(* On every path of numbers into a request or an update, of every depth    *)
(* and with numbers of every size, the ranges of the generated descriptors *)
(* (geyser.pb-c.c, solana-storage.pb-c.c) lead to the field that has the   *)
(* number and to none if no field has it, and the members on the way lead  *)
(* back to the numbers.                                                    *)
THEOREM BindingsCorrect == Spec => []BindingsConsistent
<1>1. Typed /\ Descends => BindingsConsistent
  <2> DEFINE parent == MessageAt(codec, SubSeq(data, 1, Len(data) - 1))
             m == Descriptors[parent]
             n == data[Len(data)]
             i == Lookup(m, n)
  <2> SUFFICES ASSUME Typed, Descends,
                      codec \in {"subscribe_request", "subscribe_update"}, data # <<>>
               PROVE  /\ (i = NotFound) <=> \A k \in DOMAIN m.fields : m.fields[k].number # n
                      /\ i # NotFound => m.fields[i].number = n
                      /\ Known(codec, data) => Numbers(codec, Members(codec, data)) = data
    BY DEF BindingsConsistent
  <2>1. data \in Seq(Nat)
    <3>1. data \in Seq(Tags)
      BY DEF Typed
    <3>4. Tags \subseteq Nat
      BY CodecsAssumption
    <3>2. \A k \in 1 .. Len(data) : data[k] \in Nat
      <4>1. \A k \in 1 .. Len(data) : data[k] \in Tags
        BY <3>1
      <4>2. \A x \in Tags : x \in Nat
        BY <3>4
      <4> QED
        BY <4>1, <4>2
    <3>3. data = [k \in 1 .. Len(data) |-> data[k]] /\ Len(data) \in Nat
      BY <3>1
    <3> QED
      BY <3>2, <3>3
  <2>2. codec \in Names
    BY DEF Names, Descriptors
  <2>3. PICK at : Along(at, codec, data)
    BY <2>1, <2>2, AlongDefined
  <2>4. parent \in Names
    <3> DEFINE k == Len(data) - 1
    <3>1. k \in 0 .. Len(data)
      BY <2>1
    <3> HIDE DEF k
    <3>2. MessageAt(codec, SubSeq(data, 1, k)) = at[k]
      BY <2>1, <2>2, <2>3, <3>1, AlongPrefix
    <3>3. at[k] \in Reachable
      BY <2>3, <3>1 DEF Along
    <3> QED
      BY <3>2, <3>3 DEF k, Reachable, Descends
  <2>5. n \in Nat
    BY <2>1
  <2>6. WellFormedTable(m)
    BY <2>4, TablesWellFormed
  <2>7. LookupIs(m, n, i)
    BY <2>5, <2>6, LookupExact
  <2>8. Known(codec, data) => Numbers(codec, Members(codec, data)) = data
    BY <2>1, <2>2, NumbersOfMembers
  <2> HIDE DEF parent, m, n, i
  <2> QED
    BY <2>7, <2>8 DEF LookupIs
<1> QED
  BY <1>1, TypedHolds, DescendsHolds, PTL

(* What the reference reads is the number of the lemmas.                   *)
LEMMA ValueIsNumber == \A s, b : Value(s, b) = Number(s, b)
  BY DEF Value, Number

(* Inputs of Base58 consist of bytes.                                      *)
LEMMA BytesTyped == Spec => [](codec = "base58" => data \in Seq(Bytes))
<1> DEFINE B == codec = "base58" => data \in Seq(Bytes)
<1>1. Init => B
  BY DEF Init
<1>2. B /\ [Next]_vars => B'
  <2> SUFFICES ASSUME B, [Next]_vars PROVE B'
    OBVIOUS
  <2>1. CASE GrowBytes
    BY <2>1 DEF GrowBytes, Grow
  <2>2. CASE GrowText \/ GrowHaystack \/ GrowSwap \/ GrowPath
    BY <2>2 DEF GrowText, GrowHaystack, GrowSwap, Grow, GrowPath
  <2>3. CASE StartOver
    BY <2>3 DEF StartOver
  <2>4. CASE UNCHANGED vars
    BY <2>4 DEF vars
  <2> QED
    BY <2>1, <2>2, <2>3, <2>4 DEF Next
<1> QED
  BY <1>1, <1>2, PTL DEF Spec

LEMMA BytesAreDigits ==
  ASSUME NEW n \in Nat, NEW s \in [1 .. n -> Bytes]
  PROVE  s \in Digits(256) /\ Len(s) = n
<1>1. \A k \in 1 .. n : s[k] \in 0 .. 256 - 1
  <2>1. Bytes \subseteq 0 .. 256 - 1
    <3>1. Bytes \subseteq 0 .. 255 /\ 256 - 1 = 255
      BY CodecsAssumption
    <3> QED
      BY <3>1
  <2>2. \A k \in 1 .. n : s[k] \in Bytes
    OBVIOUS
  <2> QED
    BY <2>1, <2>2
<1>2. s = [k \in 1 .. n |-> s[k]]
  OBVIOUS
<1>3. [k \in 1 .. n |-> s[k]] \in Seq(0 .. 256 - 1)
  BY <1>1
<1>4. Len(s) = n
  OBVIOUS
<1> QED
  BY <1>2, <1>3, <1>4 DEF Digits

(* For bytes of every number, the text base58_encode writes                *)
(* (base58.c:70-107) denotes the same number and has as many zeros in      *)
(* front: 138 cells for 100 bytes are enough, and no carry is lost.        *)
THEOREM EncodingPositional == Spec => []Base58Positional
<1>1. (codec = "base58" => data \in Seq(Bytes)) => Base58Positional
  <2> SUFFICES ASSUME codec = "base58", data \in Seq(Bytes)
               PROVE  /\ Value(Text(data), 58) = Value(data, 256)
                      /\ LeadingZeros(Text(data)) = LeadingZeros(data)
    BY DEF Base58Positional
  <2>1. data \in [1 .. Len(data) -> Bytes] /\ Len(data) \in Nat
    OBVIOUS
  <2>2. data \in Digits(256)
    BY <2>1, BytesAreDigits
  <2>3. SameNumeral(Text(data), 58, data, 256)
    BY <2>2, TextIs
  <2> QED
    BY <2>3, ValueIsNumber DEF SameNumeral
<1> QED
  BY <1>1, BytesTyped, PTL

(* For bytes of every number, base58_decode gives back what base58_encode  *)
(* wrote (base58.c:29-107), and the text of 32 bytes fits 64.              *)
THEOREM EncodingInvertible == Spec => []Base58RoundTrip
<1>1. (codec = "base58" => data \in Seq(Bytes)) => Base58RoundTrip
  <2> SUFFICES ASSUME codec = "base58", data \in Seq(Bytes), data # <<>>
               PROVE  /\ base58_encode(Stretched(32), 64, TRUE).ret > 0
                      /\ \A x \in {data, Stretched(32), Stretched(64)} :
                           base58_decode(Text(x), Len(x), TRUE) = [ret |-> Len(x), out |-> x]
    BY DEF Base58RoundTrip
  <2>1. data \in [1 .. Len(data) -> Bytes] /\ Len(data) \in Nat /\ Len(data) > 0
    OBVIOUS
  <2>2. ASSUME NEW n \in Nat PROVE Stretched(n) \in Digits(256) /\ Len(Stretched(n)) = n
    <3> DEFINE m == Len(data)
    <3>1. ASSUME NEW k \in 1 .. n PROVE ((k - 1) % m) + 1 \in 1 .. m
      <4>1. k - 1 \in Nat /\ m \in Nat /\ m > 0
        BY <2>1
      <4> HIDE DEF m
      <4>2. (k - 1) % m \in 0 .. m - 1
        BY <4>1, Remainder
      <4> QED
        BY <4>1, <4>2
    <3>2. \A k \in 1 .. n : data[((k - 1) % m) + 1] \in Bytes
      <4> HIDE DEF m
      <4> QED
        BY <2>1, <3>1 DEF m
    <3>3. Stretched(n) \in [1 .. n -> Bytes]
      BY <3>2 DEF Stretched
    <3> QED
      BY <3>3, BytesAreDigits
  <2>3. data \in Digits(256) /\ Stretched(32) \in Digits(256) /\ Stretched(64) \in Digits(256)
    BY <2>1, <2>2, BytesAreDigits
  <2>4. \A x \in {data, Stretched(32), Stretched(64)} :
          base58_decode(Text(x), Len(x), TRUE) = [ret |-> Len(x), out |-> x]
    BY <2>3, DecodeText
  <2>5. base58_encode(Stretched(32), 64, TRUE).ret > 0
    <3> DEFINE key == Stretched(32)
    <3>1. key \in Digits(256) /\ Len(key) = 32
      BY <2>2
    <3> HIDE DEF key
    <3>2. Len(Text(key)) > 0 /\ Len(Text(key)) <= 44
      BY <3>1, KeyText
    <3>3. Len(Text(key)) \in Nat
      <4> DEFINE b == 58
      <4>1. b \in Nat /\ Text(key) \in Digits(b)
        BY <3>1, TextIs DEF SameNumeral
      <4> HIDE DEF b
      <4> QED
        BY <4>1, DigitsAre
    <3>4. ~(Len(Text(key)) + 1 > 64)
      BY <3>2, <3>3
    <3>5. base58_encode(key, 64, TRUE).ret = Len(Text(key))
      BY <3>4 DEF base58_encode
    <3> QED
      BY <3>2, <3>5 DEF key
  <2> QED
    BY <2>4, <2>5
<1> QED
  BY <1>1, BytesTyped, PTL

(* The three bytes of a group of four characters.                          *)
Splits(x, a, b, c, d) ==
  /\ (x \div 65536) % 256 = 4 * a + (b \div 16)
  /\ (x \div 256) % 256 = 16 * (b % 16) + (c \div 4)
  /\ x % 256 = 64 * (c % 4) + d

LEMMA GroupSplits ==
  ASSUME NEW a \in Nat, NEW b \in Nat, NEW c \in Nat, NEW d \in Nat,
         a < 64, b < 64, c < 64, d < 64
  PROVE  Splits(GroupOf(a, b, c, d), a, b, c, d)
<1> DEFINE g == GroupOf(a, b, c, d)
<1>1. g = GroupOf(a, b, c, d)
  OBVIOUS
<1> HIDE DEF g
<1>2. Splits(g, a, b, c, d)
  BY <1>1, GroupBytes DEF Splits
<1> QED
  BY <1>2 DEF g

(* The bytes of a group are those the decoder composes.                    *)
LEMMA GroupByteIs ==
  ASSUME NEW text \in Seq(Nat), NEW i \in Nat, 4 * (i \div 3) + 4 <= Len(text)
  PROVE  GroupByte(text, i) = ByteAt(text, i)
<1> DEFINE g == 4 * (i \div 3)
           a == text[g + 1] % 64
           b == text[g + 2] % 64
           c == text[g + 3] % 64
           d == text[g + 4] % 64
           s == <<a, b, c, d>>
           x == Value(s, 64)
           r == i % 3
<1>1. g \in Nat /\ r \in {0, 1, 2}
  OBVIOUS
<1>2. /\ a \in Nat /\ b \in Nat /\ c \in Nat /\ d \in Nat
      /\ a < 64 /\ b < 64 /\ c < 64 /\ d < 64
  <2> DEFINE n == Len(text)
  <2>1. n \in Nat /\ g + 4 <= n
    OBVIOUS
  <2> HIDE DEF g, n
  <2>2. g + 1 \in 1 .. n /\ g + 2 \in 1 .. n /\ g + 3 \in 1 .. n /\ g + 4 \in 1 .. n
    BY <1>1, <2>1
  <2>3. \A k \in 1 .. n : text[k] \in Nat
    BY DEF n
  <2>4. text[g + 1] \in Nat /\ text[g + 2] \in Nat /\ text[g + 3] \in Nat /\ text[g + 4] \in Nat
    BY <2>2, <2>3
  <2>5. \A z \in Nat : z % 64 \in Nat /\ z % 64 < 64
    OBVIOUS
  <2> QED
    BY <2>4, <2>5
<1>3. GroupByte(text, i) = (x \div 256^(2 - r)) % 256
  BY DEF GroupByte, Pad
<1>4. ByteAt(text, i) = CASE r = 0 -> 4 * a + (b \div 16)
                          [] r = 1 -> 16 * (b % 16) + (c \div 4)
                          [] OTHER -> 64 * (c % 4) + d
  BY DEF ByteAt
<1> HIDE DEF a, b, c, d, g, r
<1>5. x = GroupOf(a, b, c, d)
  <2>1. s \in Seq(Nat) /\ Len(s) = 4 /\ s[1] = a /\ s[2] = b /\ s[3] = c /\ s[4] = d
    BY <1>2
  <2> HIDE DEF s
  <2>2. PICK v : Prefixes(v, s, 64, 4) /\ Number(s, 64) = v[4]
    BY <2>1, NumberDefined, ZenonT(30)
  <2>3. /\ v[0] = 0
        /\ v[1] = 64 * v[0] + s[1] /\ v[2] = 64 * v[1] + s[2]
        /\ v[3] = 64 * v[2] + s[3] /\ v[4] = 64 * v[3] + s[4]
    <3>1. v[0] = 0 /\ \A k \in 1 .. 4 : v[k] = 64 * v[k - 1] + s[k]
      BY <2>2, Zenon DEF Prefixes
    <3>2. /\ 1 \in 1 .. 4 /\ 2 \in 1 .. 4 /\ 3 \in 1 .. 4 /\ 4 \in 1 .. 4
          /\ 1 - 1 = 0 /\ 2 - 1 = 1 /\ 3 - 1 = 2 /\ 4 - 1 = 3
      OBVIOUS
    <3>3. /\ v[1] = 64 * v[1 - 1] + s[1] /\ v[2] = 64 * v[2 - 1] + s[2]
          /\ v[3] = 64 * v[3 - 1] + s[3] /\ v[4] = 64 * v[4 - 1] + s[4]
      BY <3>1, <3>2, Zenon
    <3> QED
      BY <3>1, <3>2, <3>3, Zenon
  <2>4. v[4] = GroupOf(a, b, c, d)
    BY <1>2, <2>1, <2>3 DEF GroupOf
  <2> QED
    BY <2>2, <2>4, ValueIsNumber
<1> HIDE DEF x
<1>6. /\ (x \div 65536) % 256 = 4 * a + (b \div 16)
      /\ (x \div 256) % 256 = 16 * (b % 16) + (c \div 4)
      /\ x % 256 = 64 * (c % 4) + d
      /\ x \in Nat
  <2>1. x \in Nat
    BY <1>2, <1>5 DEF GroupOf
  <2>2. Splits(GroupOf(a, b, c, d), a, b, c, d)
    BY <1>2, GroupSplits
  <2>3. Splits(x, a, b, c, d)
    BY <1>5, <2>2, Zenon
  <2> QED
    BY <2>1, <2>3 DEF Splits
<1>7. CASE r = 0
  <2> DEFINE N == 65536
  <2>1. 256^2 = N /\ (x \div N) % 256 = 4 * a + (b \div 16)
    BY <1>6
  <2> HIDE DEF N
  <2>2. 2 - r = 2
    BY <1>7
  <2>3. 256^(2 - r) = N
    BY <2>1, <2>2, Zenon
  <2> QED
    BY <1>3, <1>4, <1>7, <2>1, <2>3
<1>8. CASE r = 1
  <2>1. 256^(2 - r) = 256
    <3>1. 2 - r = 1 /\ 256^1 = 256
      BY <1>8
    <3> QED
      BY <3>1
  <2> QED
    BY <1>3, <1>4, <1>6, <1>8, <2>1
<1>9. CASE r = 2
  <2>1. 256^(2 - r) = 1
    <3>1. 2 - r = 0 /\ 256^0 = 1
      BY <1>9
    <3> QED
      BY <3>1
  <2>2. x \div 1 = x
    BY <1>6
  <2>3. ~(r = 0) /\ ~(r = 1)
    BY <1>9
  <2> QED
    BY <1>3, <1>4, <1>6, <2>1, <2>2, <2>3
<1> QED
  BY <1>1, <1>7, <1>8, <1>9

(* For texts of every length and of every characters, base64_decode        *)
(* (base64.c:34-57) writes the bytes of the groups of a well-formed text,  *)
(* and for any text the bytes of six bits per character that is not        *)
(* skipped, which exceed the size asked for by the paddings at most.       *)
THEOREM DecodingCorrect == Spec => []Base64Reference
<1>1. Typed => Base64Reference
  <2> DEFINE n == Len(data)
             size == base64_decoded_size(data)
             bytes == base64_decode(data, size).out
             taken == Cardinality({i \in DOMAIN data : data[i] <= Pad})
             pad == Padding(data)
             q == (n + 3) \div 4
             l == Len(bytes)
  <2> SUFFICES ASSUME Typed, codec = "base64"
               PROVE  /\ WellFormed(data) =>
                           /\ l = size + pad
                           /\ \A i \in 1 .. size : bytes[i] = GroupByte(data, i - 1)
                      /\ l = produced_by(taken)
                      /\ l <= size + pad
    BY DEF Base64Reference
  <2>1. data \in Seq(Nat)
    <3>1. data \in Seq(Chars) /\ Chars \subseteq Nat
      BY CodecsAssumption DEF Typed
    <3>2. \A k \in 1 .. Len(data) : data[k] \in Nat
      <4>1. \A k \in 1 .. Len(data) : data[k] \in Chars
        BY <3>1
      <4> QED
        BY <3>1, <4>1
    <3>3. data = [k \in 1 .. Len(data) |-> data[k]] /\ Len(data) \in Nat
      BY <3>1
    <3> QED
      BY <3>2, <3>3
  <2>2. n \in Nat /\ DOMAIN data = 1 .. n
    BY <2>1
  <2>3. pad \in Nat
    <3> HIDE DEF n
    <3> QED
      BY DEF Padding
  <2>4. q \in Nat /\ 4 * q >= n /\ (n % 4 = 0 => n = 4 * q)
    <3> HIDE DEF n
    <3> QED
      BY <2>2
  <2>5. size = q * 3 - pad
    BY DEF base64_decoded_size, decoded_size
  <2> HIDE DEF n, size, pad, q
  <2>6. size \in Int /\ size + pad = 3 * q /\ ~(size < size)
    BY <2>3, <2>4, <2>5
  <2>7. DecodedBy(bytes, data)
    BY <2>1, <2>6, DecodeDefined DEF size
  <2> HIDE DEF bytes
  <2>8. PICK t : Decodes(t, data) /\ bytes = t[n].out
    BY <2>7 DEF DecodedBy, n
  <2> DEFINE h == t[n].bits
  <2>9. n \in 0 .. n /\ t[n] \in DecoderState
    BY <2>2, <2>8 DEF Decodes, n
  <2>10. h \in {0, 2, 4, 6} /\ bytes \in Seq(Nat) /\ l \in Nat
    BY <2>8, <2>9 DEF DecoderState
  <2>11. taken = TakenOf(data, n) /\ taken \in Nat /\ taken <= n
    <3> DEFINE S == {i \in 1 .. n : data[i] <= Pad}
    <3>1. IsFiniteSet(1 .. n) /\ Cardinality(1 .. n) = n
      BY <2>2, FS_Interval
    <3>2. IsFiniteSet(S) /\ Cardinality(S) <= n
      <4>1. S \subseteq 1 .. n
        OBVIOUS
      <4> HIDE DEF S
      <4> QED
        BY <3>1, <4>1, FS_Subset
    <3>3. Cardinality(S) \in Nat
      BY <3>2, FS_CardinalityType
    <3>4. taken = Cardinality(S)
      BY <2>2
    <3> QED
      BY <3>2, <3>3, <3>4 DEF TakenOf
  <2>12. 8 * l + h = 6 * taken
    <3>1. \A k \in 0 .. Len(data) : 8 * Len(t[k].out) + t[k].bits = 6 * TakenOf(data, k)
      BY <2>1, <2>8, BitsKept
    <3> QED
      BY <2>8, <2>9, <2>11, <3>1 DEF n
  <2> HIDE DEF h, l, taken
  <2>13. l = produced_by(taken)
    BY <2>10, <2>11, <2>12 DEF produced_by
  <2>14. l <= size + pad
    <3>1. l <= 3 * q
      BY <2>2, <2>4, <2>10, <2>11, <2>12
    <3> QED
      BY <2>6, <3>1
  <2>15. ASSUME WellFormed(data)
         PROVE  l = size + pad /\ \A i \in 1 .. size : bytes[i] = GroupByte(data, i - 1)
    <3>1. n % 4 = 0 /\ AllTaken(data)
      <4>1. \A i \in 1 .. n : data[i] < Pad \/ data[i] = Pad
        BY <2>2, <2>15 DEF WellFormed
      <4>2. \A i \in 1 .. n : data[i] \in Nat
        BY <2>1 DEF n
      <4>3. \A i \in 1 .. n : data[i] <= Pad
        BY <4>1, <4>2 DEF Pad
      <4> QED
        BY <2>15, <4>3 DEF WellFormed, AllTaken, n
    <3>2. taken = n
      <4>1. \A k \in 0 .. Len(data) : TakenOf(data, k) = k
        BY <2>1, <3>1, TakenAll
      <4> QED
        BY <2>9, <2>11, <4>1 DEF n
    <3>3. l = 3 * q
      BY <2>4, <2>10, <2>12, <3>1, <3>2
    <3>4. Written(t[n], data, n)
      BY <2>1, <2>8, <3>1, DecodeWrites DEF n
    <3>5. ASSUME NEW i \in 1 .. size PROVE bytes[i] = GroupByte(data, i - 1)
      <4>1. i \in 1 .. l /\ i - 1 \in Nat /\ i <= 3 * q
        BY <2>3, <2>4, <2>6, <3>3
      <4>2. bytes[i] = ByteAt(data, i - 1)
        BY <2>8, <3>4, <4>1 DEF Written, l
      <4> DEFINE j == i - 1
      <4>3. j \in Nat /\ j < 3 * q
        BY <2>4, <4>1
      <4> HIDE DEF j
      <4>4. 4 * (j \div 3) + 4 <= Len(data)
        <5>1. j \div 3 \in Nat /\ j \div 3 < q
          BY <2>4, <4>3
        <5>2. n = 4 * q
          BY <2>4, <3>1
        <5> QED
          BY <2>4, <5>1, <5>2 DEF n
      <4>5. GroupByte(data, j) = ByteAt(data, j)
        BY <2>1, <4>3, <4>4, GroupByteIs
      <4> QED
        BY <4>2, <4>5 DEF j
    <3> QED
      BY <2>6, <3>3, <3>5
  <2> QED
    BY <2>13, <2>14, <2>15
<1> QED
  BY <1>1, TypedHolds, PTL
=============================================================================
