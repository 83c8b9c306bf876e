--------------------------- MODULE OperatorProofs ---------------------------
(***************************************************************************)
(* Lemmas about the operators of the pure parts, for inputs of every       *)
(* length.  The loops of the code are recursive functions over intervals;  *)
(* what they compute is proved by induction over the natural numbers,      *)
(* stated here for sets instead of predicates.                             *)
(***************************************************************************)
EXTENDS Config, Base64, Detector, Parsers, Bindings, WellFoundedInduction, FiniteSetTheorems, TLAPS

-----------------------------------------------------------------------------
(* Induction and recursive functions                                       *)

(* Every set of natural numbers that is not empty has a least element.     *)
LEMMA LeastElement ==
  ASSUME NEW S \in SUBSET Nat, S # {}
  PROVE  \E n \in S : \A m \in S : n <= m
<1> DEFINE R == OpToRel(<, Nat)
<1>1. IsWellFoundedOn(R, Nat)
  BY NatLessThanWellFounded
<1>2. \A m, n \in Nat : m < n => <<m, n>> \in R
  BY DEF OpToRel
<1> HIDE DEF R
<1>3. PICK n \in S : \A m \in S : ~(<<m, n>> \in R)
  BY <1>1, WFMin
<1>4. \A m \in S : ~(m < n)
  BY <1>2, <1>3
<1> QED
  BY <1>4

(* Induction, for the set of numbers that have the property.               *)
LEMMA SetInduction ==
  ASSUME NEW S, 0 \in S, \A n \in Nat : n \in S => n + 1 \in S
  PROVE  Nat \subseteq S
<1> SUFFICES ASSUME NEW k \in Nat, k \notin S PROVE FALSE
  OBVIOUS
<1> DEFINE B == {n \in Nat : n \notin S}
<1>1. B \in SUBSET Nat /\ B # {}
  OBVIOUS
<1>2. PICK n \in B : \A m \in B : n <= m
  <2> HIDE DEF B
  <2> QED
    BY <1>1, LeastElement
<1>3. n # 0 /\ n - 1 \in Nat /\ n - 1 \notin B
  BY <1>2
<1>4. n - 1 + 1 \in S
  BY <1>3
<1> QED
  BY <1>2, <1>4

(* Induction along an interval.                                            *)
LEMMA IntervalInduction ==
  ASSUME NEW m \in Nat, NEW S, 0 \in S, \A i \in 1 .. m : i - 1 \in S => i \in S
  PROVE  \A i \in 0 .. m : i \in S
<1> DEFINE T == {k \in Nat : k <= m => k \in S}
<1>1. 0 \in T
  OBVIOUS
<1>2. ASSUME NEW k \in Nat, k \in T PROVE k + 1 \in T
  <2> SUFFICES ASSUME k + 1 <= m PROVE k + 1 \in S
    OBVIOUS
  <2>1. k \in S /\ k + 1 \in 1 .. m /\ (k + 1) - 1 = k
    BY <1>2
  <2> QED
    BY <2>1
<1>3. Nat \subseteq T
  <2> HIDE DEF T
  <2> QED
    BY <1>1, <1>2, SetInduction
<1> QED
  BY <1>3

(* The passes of a loop: what the pass at i makes of a result.             *)
Passes(a, m, V) == [a .. m -> [V -> V]]

(* f has at i what the pass makes of f[i + b], and of c at the end.        *)
Follows(f, a, m, b, E, c) ==
  \A i \in a .. m : /\ i + b <= m => f[i] = E[i][f[i + b]]
                    /\ i + b > m => f[i] = E[i][c]

(* A function of i on an interval may be defined by its value at i + b:    *)
(* this is the shape of a loop that counts upwards in steps of b.  E[i]    *)
(* says what the pass at i makes of the result of the passes behind it.    *)
LEMMA LoopDefined ==
  ASSUME NEW a \in Nat, NEW m \in Nat, NEW b \in Nat, b > 0,
         NEW V, NEW c \in V, NEW E \in Passes(a, m, V)
  PROVE  \E f \in [a .. m -> V] : Follows(f, a, m, b, E, c)
<1> USE DEF Passes, Follows
<1> DEFINE Good(f, i) == f[i] = E[i][IF i + b <= m THEN f[i + b] ELSE c]
           S == {k \in Nat : \E f \in [a .. m -> V] : \A i \in a .. m : i + k > m => Good(f, i)}
<1>1. 0 \in S
  <2>1. [i \in a .. m |-> c] \in [a .. m -> V]
    OBVIOUS
  <2>2. \A i \in a .. m : ~(i + 0 > m)
    OBVIOUS
  <2> QED
    BY <2>1, <2>2
<1>2. ASSUME NEW k \in Nat, k \in S PROVE k + 1 \in S
  <2>1. PICK f \in [a .. m -> V] : \A i \in a .. m : i + k > m => Good(f, i)
    BY <1>2
  <2>2. CASE m - k \notin a .. m
    <3>1. \A i \in a .. m : i + (k + 1) > m => i + k > m
      BY <2>2
    <3>2. \A i \in a .. m : i + (k + 1) > m => Good(f, i)
      BY <2>1, <3>1
    <3> HIDE DEF Good
    <3> QED
      BY <3>2
  <2>3. CASE m - k \in a .. m
    <3> DEFINE n == m - k
               v == E[n][IF n + b <= m THEN f[n + b] ELSE c]
               g == [f EXCEPT ![n] = v]
    <3>1. v \in V
      BY <2>3
    <3>2. g \in [a .. m -> V]
      BY <3>1
    <3>3. \A i \in a .. m : i + (k + 1) > m => Good(g, i)
      <4> SUFFICES ASSUME NEW i \in a .. m, i + (k + 1) > m PROVE Good(g, i)
        OBVIOUS
      <4>1. i + b <= m => g[i + b] = f[i + b]
        OBVIOUS
      <4>2. CASE i = n
        <5>1. g[i] = v
          BY <2>3, <4>2
        <5> QED
          BY <4>1, <4>2, <5>1
      <4>3. CASE i # n
        <5>1. g[i] = f[i] /\ i + k > m
          BY <4>3
        <5>2. Good(f, i)
          BY <2>1, <5>1
        <5> QED
          BY <4>1, <5>1, <5>2
      <4> QED
        BY <4>2, <4>3
    <3> HIDE DEF g
    <3> QED
      BY <3>2, <3>3
  <2> QED
    BY <2>2, <2>3
<1>3. m + 1 \in S
  <2> HIDE DEF S
  <2>1. Nat \subseteq S
    BY <1>1, <1>2, SetInduction
  <2> QED
    BY <2>1
<1> QED
  BY <1>3

(* The most frequent case: a loop from 1 to n and its end.                 *)
LEMMA CountDefined ==
  ASSUME NEW n \in Nat, NEW V, NEW c \in V, NEW E \in Passes(1, n + 1, V)
  PROVE  \E f \in [1 .. n + 1 -> V] : f[n + 1] = E[n + 1][c] /\ \A i \in 1 .. n : f[i] = E[i][f[i + 1]]
<1> DEFINE m == n + 1
           a == 1
           b == 1
<1>1. a \in Nat /\ m \in Nat /\ b \in Nat /\ b > 0 /\ E \in Passes(a, m, V)
  OBVIOUS
<1>2. PICK f \in [a .. m -> V] : Follows(f, a, m, b, E, c)
  <2> HIDE DEF m, a, b
  <2> QED
    BY <1>1, LoopDefined
<1>3. f[n + 1] = E[n + 1][c]
  <2>1. n + 1 \in a .. m /\ n + 1 + b > m
    OBVIOUS
  <2> HIDE DEF a, b, m
  <2> QED
    BY <1>2, <2>1 DEF Follows
<1>4. ASSUME NEW i \in 1 .. n PROVE f[i] = E[i][f[i + 1]]
  <2>1. i \in a .. m /\ i + b <= m /\ i + b = i + 1
    OBVIOUS
  <2> HIDE DEF a, b, m
  <2> QED
    BY <1>2, <2>1 DEF Follows
<1> QED
  BY <1>2, <1>3, <1>4

(* f starts with c, and has at i what the pass makes of f[i - 1].          *)
Continues(f, m, E, c) == f[0] = c /\ \A i \in 1 .. m : f[i] = E[i][f[i - 1]]

(* The same for a loop whose pass at i continues the result at i - 1.      *)
LEMMA FoldDefined ==
  ASSUME NEW m \in Nat, NEW V, NEW c \in V, NEW E \in Passes(1, m, V)
  PROVE  \E f \in [0 .. m -> V] : Continues(f, m, E, c)
<1> USE DEF Passes, Continues
<1> DEFINE S == {k \in Nat : \E f \in [0 .. m -> V] :
                   f[0] = c /\ \A i \in 1 .. m : i <= k => f[i] = E[i][f[i - 1]]}
<1>1. 0 \in S
  <2> DEFINE z == [i \in 0 .. m |-> c]
  <2>1. z \in [0 .. m -> V] /\ z[0] = c
    OBVIOUS
  <2>2. \A i \in 1 .. m : ~(i <= 0)
    OBVIOUS
  <2> HIDE DEF z
  <2> QED
    BY <2>1, <2>2
<1>2. ASSUME NEW k \in Nat, k \in S PROVE k + 1 \in S
  <2>1. PICK f \in [0 .. m -> V] : f[0] = c /\ \A i \in 1 .. m : i <= k => f[i] = E[i][f[i - 1]]
    BY <1>2
  <2>2. CASE k >= m
    <3>1. \A i \in 1 .. m : i <= k
      BY <2>2
    <3>2. \A i \in 1 .. m : i <= k + 1 => f[i] = E[i][f[i - 1]]
      BY <2>1, <3>1
    <3> QED
      BY <2>1, <3>2
  <2>3. CASE k < m
    <3> DEFINE g == [f EXCEPT ![k + 1] = E[k + 1][f[k]]]
    <3>1. g \in [0 .. m -> V]
      BY <2>3
    <3>2. g[0] = c
      BY <2>1
    <3>3. ASSUME NEW i \in 1 .. m, i <= k + 1 PROVE g[i] = E[i][g[i - 1]]
      <4>1. g[i - 1] = f[i - 1]
        BY <3>3
      <4>2. CASE i = k + 1
        BY <4>1, <4>2
      <4>3. CASE i <= k
        BY <2>1, <4>1, <4>3
      <4> QED
        BY <3>3, <4>2, <4>3
    <3> HIDE DEF g
    <3> QED
      BY <3>1, <3>2, <3>3
  <2> QED
    BY <2>2, <2>3
<1>3. m \in S
  <2> HIDE DEF S
  <2>1. Nat \subseteq S
    BY <1>1, <1>2, SetInduction
  <2> QED
    BY <2>1
<1> QED
  BY <1>3

(* A function that does not change from i to i + 1 up to k is the same at  *)
(* 1 and at k.                                                             *)
LEMMA Constant ==
  ASSUME NEW f, NEW k \in Nat \ {0}, \A i \in 1 .. k - 1 : f[i] = f[i + 1]
  PROVE  f[1] = f[k]
<1> DEFINE S == {j \in Nat : j < k => f[1] = f[j + 1]}
<1>1. 0 \in S
  OBVIOUS
<1>2. ASSUME NEW j \in Nat, j \in S PROVE j + 1 \in S
  <2> SUFFICES ASSUME j + 1 < k PROVE f[1] = f[j + 1 + 1]
    OBVIOUS
  <2>1. f[1] = f[j + 1]
    BY <1>2
  <2>2. j + 1 \in 1 .. k - 1
    OBVIOUS
  <2> QED
    BY <2>1, <2>2
<1>3. k - 1 \in S
  <2> HIDE DEF S
  <2> QED
    BY <1>1, <1>2, SetInduction
<1>4. k - 1 < k /\ k - 1 + 1 = k
  OBVIOUS
<1> QED
  BY <1>3, <1>4

-----------------------------------------------------------------------------
(* Remainders                                                              *)

(* Quotient and remainder.                                                 *)
LEMMA Remainder ==
  ASSUME NEW b \in Nat, b > 0, NEW n \in Nat
  PROVE  n % b \in 0 .. b - 1 /\ \E q \in Int : n = b * q + (n % b)
<1> DEFINE r == n % b
<1>1. r \in 0 .. b - 1 /\ n % b = r
  OBVIOUS
<1> HIDE DEF r
<1>2. \E q \in Int : n = b * q + r
  BY <1>1
<1> QED
  BY <1>1, <1>2 DEF r

(* The remainder is determined.                                            *)
LEMMA RemainderUnique ==
  ASSUME NEW b \in Nat, b > 0, NEW p \in Int, NEW q \in Int,
         NEW r \in 0 .. b - 1, NEW s \in 0 .. b - 1, b * p + r = b * q + s
  PROVE  r = s
<1> DEFINE d == p - q
<1>1. d \in Int /\ b * d = s - r
  <2>1. b * p \in Int /\ b * q \in Int /\ b * p - b * q = s - r
    OBVIOUS
  <2>2. b * (p - q) = b * p - b * q
    OBVIOUS
  <2> QED
    BY <2>1, <2>2
<1>2. p = q + d
  OBVIOUS
<1> HIDE DEF d
<1>3. (d >= 1 => b * d >= b) /\ (d <= -1 => b * d <= -b)
  BY <1>1
<1>4. d = 0
  BY <1>1, <1>3
<1> QED
  BY <1>1, <1>2, <1>4

(* Offsets inside a block, and the start of the next block.                *)
LEMMA BlockOffset ==
  ASSUME NEW b \in Nat, b > 0, NEW i \in Nat, i % b = 0, NEW t \in 0 .. b - 1
  PROVE  (i + t) % b = t /\ (i + b) % b = 0
<1>1. PICK q \in Int : i = b * q
  OBVIOUS
<1>2. (i + t) % b = t
  <2> DEFINE r == (i + t) % b
  <2>1. i + t \in Nat
    OBVIOUS
  <2>2. r \in 0 .. b - 1 /\ \E p \in Int : i + t = b * p + r
    BY <2>1, Remainder
  <2> HIDE DEF r
  <2>3. PICK p \in Int : i + t = b * p + r
    BY <2>2
  <2>4. b * q + t = b * p + r
    BY <1>1, <2>3
  <2>5. t = r
    BY <2>2, <2>4, RemainderUnique
  <2> QED
    BY <2>5 DEF r
<1>3. (i + b) % b = 0
  <2> DEFINE r == (i + b) % b
             z == 0
             n == q + 1
  <2>1. i + b \in Nat /\ z \in 0 .. b - 1 /\ n \in Int
    OBVIOUS
  <2>2. r \in 0 .. b - 1 /\ \E p \in Int : i + b = b * p + r
    BY <2>1, Remainder
  <2>3. b * n + z = i + b
    BY <1>1
  <2> HIDE DEF r, n, z
  <2>4. PICK p \in Int : i + b = b * p + r
    BY <2>2
  <2>5. b * n + z = b * p + r
    BY <2>3, <2>4
  <2>6. z = r
    BY <2>1, <2>2, <2>5, RemainderUnique
  <2> QED
    BY <2>6 DEF r, z
<1> QED
  BY <1>2, <1>3

-----------------------------------------------------------------------------
(* The detector                                                            *)

(* A key that is a program id is not empty.                                *)
LEMMA IsNotEmpty ==
  ASSUME NEW pattern, NEW account, Is(pattern, account)
  PROVE  account # <<>>
<1>1. Len(<<>>) = 0
  OBVIOUS
<1>2. Len(account) = 32
  BY DEF Is, PROGRAM_ID_LEN
<1> QED
  BY <1>1, <1>2

(* The loop over the accounts (protocol_detector.c:87-105) answers with    *)
(* the program the first account that is one is, and with none if there is *)
(* no such account.                                                        *)
LEMMA MatchFirst ==
  ASSUME NEW detector, NEW T, NEW accounts \in Seq(T),
         NEW hits, hits = {i \in DOMAIN accounts : \/ Is(detector.pumpfun, accounts[i])
                                                 \/ Is(detector.raydium, accounts[i])}
  PROVE  /\ hits = {} => protocol_detector_match_accounts(detector, accounts) = "NONE"
         /\ \A k \in hits : (\A j \in hits : k <= j) =>
              protocol_detector_match_accounts(detector, accounts)
                = IF Is(detector.pumpfun, accounts[k]) THEN "PUMPFUN" ELSE "RAYDIUM"
<1> DEFINE n == Len(accounts)
           D == 1 .. n + 1
           V == {"NONE", "PUMPFUN", "RAYDIUM"}
           Pump(i) == i <= n /\ accounts[i] # <<>> /\ Is(detector.pumpfun, accounts[i])
           Ray(i) == i <= n /\ accounts[i] # <<>> /\ ~Is(detector.pumpfun, accounts[i])
                       /\ Is(detector.raydium, accounts[i])
           Step(i, v) == CASE i > n -> "NONE" [] Pump(i) -> "PUMPFUN" [] Ray(i) -> "RAYDIUM"
                           [] OTHER -> v
           Def(f) == [i \in D |-> Step(i, f[i + 1])]
           from == CHOOSE f : f = Def(f)
<1>1. protocol_detector_match_accounts(detector, accounts) = from[1]
  BY DEF protocol_detector_match_accounts
<1>2. n \in Nat /\ DOMAIN accounts = 1 .. n
  OBVIOUS
<1>3. ASSUME NEW i \in 1 .. n
      PROVE  /\ i \in hits <=> Pump(i) \/ Ray(i)
             /\ Pump(i) <=> Is(detector.pumpfun, accounts[i])
  <2>1. Is(detector.pumpfun, accounts[i]) \/ Is(detector.raydium, accounts[i]) => accounts[i] # <<>>
    BY IsNotEmpty
  <2>2. i \in hits <=> Is(detector.pumpfun, accounts[i]) \/ Is(detector.raydium, accounts[i])
    BY <1>2
  <2>3. i <= n
    BY <1>2
  <2> HIDE DEF n
  <2> QED
    BY <2>1, <2>2, <2>3
<1>0. hits \subseteq 1 .. n
  BY <1>2
<1> HIDE DEF Pump, Ray, n
<1>4. /\ \A v : Step(n + 1, v) = "NONE"
      /\ \A i \in 1 .. n : \A v : Step(i, v) = IF Pump(i) THEN "PUMPFUN"
                                          ELSE IF Ray(i) THEN "RAYDIUM" ELSE v
  <2>1. \A v : Step(n + 1, v) = "NONE"
    <3>1. ~Pump(n + 1) /\ ~Ray(n + 1) /\ n + 1 > n
      BY <1>2 DEF Pump, Ray
    <3> QED
      BY <3>1
  <2>2. \A i \in 1 .. n : ~(Pump(i) /\ Ray(i)) /\ ~(i > n)
    BY <1>2 DEF Pump, Ray
  <2> QED
    BY <2>1, <2>2
<1>5. \A i \in D, v \in V : Step(i, v) \in V
  <2>1. \A i \in D : i = n + 1 \/ i \in 1 .. n
    BY <1>2
  <2> QED
    BY <1>4, <2>1
<1> HIDE DEF Step
<1>6. from = Def(from)
  <2> DEFINE E == [i \in D |-> [v \in V |-> Step(i, v)]]
  <2>1. E \in Passes(1, n + 1, V)
    BY <1>5 DEF Passes
  <2>2. \A i \in D, v \in V : E[i][v] = Step(i, v)
    OBVIOUS
  <2> HIDE DEF E, V
  <2>3. "NONE" \in V
    BY DEF V
  <2>4. PICK f \in [1 .. n + 1 -> V] :
          /\ f[n + 1] = E[n + 1]["NONE"]
          /\ \A i \in 1 .. n : f[i] = E[i][f[i + 1]]
    BY <1>2, <2>1, <2>3, CountDefined
  <2>5. f[n + 1] = Step(n + 1, f[n + 1 + 1])
    BY <1>2, <1>4, <2>2, <2>3, <2>4
  <2>6. \A i \in 1 .. n : f[i] = Step(i, f[i + 1])
    <3> SUFFICES ASSUME NEW i \in 1 .. n PROVE f[i] = Step(i, f[i + 1])
      OBVIOUS
    <3>1. i \in D /\ i + 1 \in D
      BY <1>2
    <3>2. f[i] = E[i][f[i + 1]] /\ f[i + 1] \in V
      BY <2>4, <3>1
    <3> QED
      BY <2>2, <3>1, <3>2
  <2>7. \A i \in D : i = n + 1 \/ i \in 1 .. n
    BY <1>2
  <2>8. f = Def(f)
    BY <2>5, <2>6, <2>7
  <2> QED
    BY <2>8
<1>7. \A i \in D : from[i] = Step(i, from[i + 1])
  BY <1>6
<1> HIDE DEF from
<1>8. ASSUME NEW i \in 1 .. n
      PROVE  /\ i \notin hits => from[i] = from[i + 1]
             /\ i \in hits => from[i] = IF Is(detector.pumpfun, accounts[i]) THEN "PUMPFUN" ELSE "RAYDIUM"
  <2>1. from[i] = Step(i, from[i + 1])
    BY <1>2, <1>7
  <2>2. from[i] = IF Pump(i) THEN "PUMPFUN" ELSE IF Ray(i) THEN "RAYDIUM" ELSE from[i + 1]
    BY <1>4, <2>1
  <2>3. /\ i \in hits <=> Pump(i) \/ Ray(i)
        /\ Pump(i) <=> Is(detector.pumpfun, accounts[i])
    BY <1>3
  <2>4. CASE Pump(i)
    BY <2>2, <2>3, <2>4
  <2>5. CASE ~Pump(i)
    BY <2>2, <2>3, <2>5
  <2> QED
    BY <2>4, <2>5
<1>9. ASSUME hits = {} PROVE from[1] = "NONE"
  <2> DEFINE k == n + 1
  <2>1. from[1] = from[k]
    <3>1. k \in Nat \ {0} /\ k - 1 = n
      BY <1>2
    <3>2. \A i \in 1 .. k - 1 : from[i] = from[i + 1]
      BY <1>8, <1>9, <3>1
    <3> HIDE DEF k
    <3> QED
      BY <3>1, <3>2, Constant
  <2> QED
    BY <1>2, <1>4, <1>7, <2>1
<1>10. ASSUME NEW k \in hits, \A j \in hits : k <= j
       PROVE  from[1] = IF Is(detector.pumpfun, accounts[k]) THEN "PUMPFUN" ELSE "RAYDIUM"
  <2>1. k \in 1 .. n
    BY <1>0
  <2>2. \A i \in 1 .. k - 1 : i \in 1 .. n /\ i \notin hits
    BY <1>2, <1>10, <2>1
  <2>3. from[1] = from[k]
    <3>1. k \in Nat \ {0}
      BY <1>2, <2>1
    <3>2. \A i \in 1 .. k - 1 : from[i] = from[i + 1]
      BY <1>8, <2>2
    <3> QED
      BY <3>1, <3>2, Constant
  <2> QED
    BY <1>8, <2>1, <2>3
<1> QED
  BY <1>1, <1>9, <1>10

(* The elements of a set of numbers that none is below: one or none.       *)
First(S) == {p \in S : \A q \in S : p <= q}

(* The matches a search in blocks sees: those that start a block, or start *)
(* in it where the needle repeats its first byte.                          *)
Seen(haystack, needle, block) ==
  {pos \in 0 .. Len(haystack) :
     MatchAt(haystack, needle, pos) /\ needle[(pos % block) + 1] = needle[1]}

(* The scan of one block finds the first match seen in it.                 *)
LEMMA ScanBlock ==
  ASSUME NEW T, NEW haystack \in Seq(T), NEW needle \in Seq(T),
         NEW block \in Nat, block > 0, block <= Len(needle),
         NEW i \in Nat, i % block = 0, i + Len(needle) <= Len(haystack)
  PROVE  Scan(haystack, needle, block, i)
           = First({p \in Seen(haystack, needle, block) : i <= p /\ p < i + block})
<1> DEFINE len == Len(haystack)
           l == Len(needle)
           In == {p \in Seen(haystack, needle, block) : i <= p /\ p < i + block}
           found == {bit \in Mask(haystack, needle, block, i) : MatchAt(haystack, needle, i + bit)}
<1>1. len \in Nat /\ l \in Nat /\ l > 0
  OBVIOUS
<1>2. ASSUME NEW bit \in 0 .. block - 1, MatchAt(haystack, needle, i + bit)
      PROVE  haystack[i + bit + 1] = needle[1] /\ i + bit \in 0 .. len /\ i + bit + l <= len
  <2>1. i + bit + l <= len /\ SubSeq(haystack, i + bit + 1, i + bit + l) = needle
    BY <1>2 DEF MatchAt
  <2>2. SubSeq(haystack, i + bit + 1, i + bit + l)[1] = haystack[i + bit + 1]
    BY <1>1, <2>1
  <2> QED
    BY <1>1, <2>1, <2>2
<1>3. ASSUME NEW bit \in 0 .. block - 1
      PROVE  bit \in found <=> i + bit \in In
  <2>1. (i + bit) % block = bit
    <3> HIDE DEF len, l, In, found
    <3> QED
      BY BlockOffset, ZenonT(60)
  <2>2. bit \in found <=> /\ MatchAt(haystack, needle, i + bit)
                         /\ haystack[i + bit + 1] = needle[bit + 1]
    BY DEF Mask
  <2>3. i + bit \in In <=> /\ i + bit \in 0 .. len /\ MatchAt(haystack, needle, i + bit)
                          /\ needle[bit + 1] = needle[1]
    BY <2>1 DEF Seen
  <2> QED
    BY <1>2, <2>2, <2>3
<1>4. found \subseteq 0 .. block - 1
  BY DEF Mask
<1>5. ASSUME NEW p \in In PROVE p - i \in 0 .. block - 1 /\ i + (p - i) = p
  BY <1>1 DEF Seen
<1>6. In \subseteq Nat
  BY <1>1 DEF Seen
<1>7. Scan(haystack, needle, block, i) = {i + bit : bit \in {b \in found : \A c \in found : b <= c}}
  BY DEF Scan
<1> HIDE DEF found, In
<1>8. ASSUME NEW p \in First(In)
      PROVE  p \in {i + bit : bit \in {b \in found : \A c \in found : b <= c}}
  <2>1. p \in In /\ \A q \in In : p <= q
    BY <1>8 DEF First
  <2>2. p - i \in found /\ i + (p - i) = p
    BY <1>3, <1>5, <2>1
  <2>3. ASSUME NEW c \in found PROVE p - i <= c
    <3>1. i + c \in In /\ c \in Nat
      BY <1>3, <1>4
    <3>2. p <= i + c /\ p \in Nat
      BY <1>6, <2>1, <3>1
    <3> QED
      BY <3>1, <3>2
  <2> QED
    BY <2>2, <2>3
<1>9. ASSUME NEW b \in found, \A c \in found : b <= c
      PROVE  i + b \in First(In)
  <2>1. i + b \in In /\ b \in Nat
    BY <1>3, <1>4
  <2>2. ASSUME NEW q \in In PROVE i + b <= q
    <3>1. q - i \in found /\ q \in Nat
      BY <1>3, <1>5, <1>6
    <3>2. b <= q - i
      BY <1>9, <3>1
    <3> QED
      BY <2>1, <3>1, <3>2
  <2> QED
    BY <2>1, <2>2 DEF First
<1>10. First(In) = {i + bit : bit \in {b \in found : \A c \in found : b <= c}}
  BY <1>8, <1>9
<1> QED
  BY <1>7, <1>10 DEF In

(* from[i] is what the search from offset i on finds.                      *)
SearchTable(from, haystack, needle, block) ==
  \A i \in 0 .. Len(haystack) + block :
    /\ i + Len(needle) > Len(haystack) => from[i] = {}
    /\ i + Len(needle) <= Len(haystack) =>
         from[i] = IF Scan(haystack, needle, block, i) # {}
                   THEN Scan(haystack, needle, block, i) ELSE from[i + block]

(* The search is defined for every offset.                                 *)
LEMMA SearchDefined ==
  ASSUME NEW T, NEW haystack \in Seq(T), NEW needle \in Seq(T),
         NEW block \in Nat, block > 0, Len(needle) > 0, Len(needle) <= Len(haystack)
  PROVE  \E from : /\ fast_memmem(haystack, needle, block) = from[0]
                   /\ SearchTable(from, haystack, needle, block)
<1> DEFINE len == Len(haystack)
           l == Len(needle)
           m == len + block
           hit(i) == Scan(haystack, needle, block, i)
           V == SUBSET Int
           Step(i, v) == IF i + l > len THEN {} ELSE IF hit(i) # {} THEN hit(i) ELSE v
           Def(f) == [i \in 0 .. m |-> Step(i, f[i + block])]
           from == CHOOSE f : f = Def(f)
           E == [i \in 0 .. m |-> [v \in V |-> Step(i, v)]]
<1>1. fast_memmem(haystack, needle, block) = from[0]
  <2>1. needle # <<>> /\ ~(len < l)
    OBVIOUS
  <2> QED
    BY <2>1 DEF fast_memmem
<1>2. len \in Nat /\ l \in Nat /\ m \in Nat /\ l > 0
  OBVIOUS
<1>3. \A i \in 0 .. m : hit(i) \in V
  BY DEF Scan, Mask
<1> HIDE DEF hit
<1>4. ASSUME NEW i \in 0 .. m, NEW v \in V PROVE Step(i, v) \in V
  BY <1>3
<1>5. ASSUME NEW i \in 0 .. m, i + block > m, NEW v PROVE Step(i, v) = {}
  BY <1>2, <1>5
<1>6. ASSUME NEW i \in 0 .. m, NEW v
      PROVE  /\ i + l > len => Step(i, v) = {}
             /\ i + l <= len => Step(i, v) = IF hit(i) # {} THEN hit(i) ELSE v
  BY <1>2
<1> HIDE DEF Step, V
<1>7. E \in Passes(0, m, V) /\ {} \in V
  BY <1>4 DEF Passes, V
<1>8. \A i \in 0 .. m, v \in V : E[i][v] = Step(i, v)
  OBVIOUS
<1> HIDE DEF E, m, len, l
<1>9. PICK f \in [0 .. m -> V] : Follows(f, 0, m, block, E, {})
  <2> DEFINE a == 0
             c == {}
  <2>1. a \in Nat /\ c \in V /\ E \in Passes(a, m, V)
    BY <1>7
  <2> HIDE DEF a, c
  <2>2. \E f \in [a .. m -> V] : Follows(f, a, m, block, E, c)
    BY <1>2, <2>1, LoopDefined
  <2> QED
    BY <2>2 DEF a, c
<1>10. ASSUME NEW i \in 0 .. m PROVE f[i] = Step(i, f[i + block])
  <2>1. CASE i + block <= m
    <3>1. f[i] = E[i][f[i + block]]
      BY <1>9, <2>1 DEF Follows
    <3>2. f[i + block] \in V
      BY <1>2, <2>1
    <3> QED
      BY <1>8, <3>1, <3>2
  <2>2. CASE i + block > m
    <3>1. f[i] = E[i][{}]
      BY <1>9, <2>2 DEF Follows
    <3>2. f[i] = Step(i, {})
      BY <1>7, <1>8, <3>1
    <3>3. Step(i, {}) = {} /\ Step(i, f[i + block]) = {}
      BY <1>5, <2>2
    <3> QED
      BY <3>2, <3>3
  <2> QED
    BY <1>2, <2>1, <2>2
<1>11. f = Def(f)
  BY <1>10
<1>12. from = Def(from)
  BY <1>11
<1> HIDE DEF from
<1>13. ASSUME NEW i \in 0 .. m PROVE from[i] = Step(i, from[i + block])
  BY <1>12
<1>14. SearchTable(from, haystack, needle, block)
  <2>1. ASSUME NEW i \in 0 .. m
        PROVE  /\ i + l > len => from[i] = {}
               /\ i + l <= len => from[i] = IF hit(i) # {} THEN hit(i) ELSE from[i + block]
    BY <1>6, <1>13
  <2> QED
    BY <2>1 DEF m, len, l, hit, SearchTable
<1> QED
  BY <1>1, <1>14

(* fast_memmem (protocol_detector.c:15-58) finds the first of the matches  *)
(* that a search in blocks sees, and nothing else.                         *)
LEMMA SearchFinds ==
  ASSUME NEW T, NEW haystack \in Seq(T), NEW needle \in Seq(T),
         NEW block \in Nat, block > 0, block <= Len(needle)
  PROVE  fast_memmem(haystack, needle, block) = First(Seen(haystack, needle, block))
<1> DEFINE len == Len(haystack)
           l == Len(needle)
           seen == Seen(haystack, needle, block)
           Above(i) == {p \in seen : i <= p}
           hit(i) == Scan(haystack, needle, block, i)
<1>1. len \in Nat /\ l \in Nat /\ l > 0
  OBVIOUS
<1>2. \A p \in seen : p \in Nat /\ p + l <= len
  BY DEF Seen, MatchAt
<1>3. CASE len < l
  <2>1. fast_memmem(haystack, needle, block) = {}
    BY <1>3 DEF fast_memmem
  <2>2. seen = {}
    BY <1>1, <1>2, <1>3
  <2> QED
    BY <2>1, <2>2 DEF First
<1>4. CASE l <= len
  <2>0. PICK from : /\ fast_memmem(haystack, needle, block) = from[0]
                    /\ SearchTable(from, haystack, needle, block)
    BY <1>1, <1>4, SearchDefined
  <2>1. \A i \in 0 .. len + block :
          /\ i + l > len => from[i] = {}
          /\ i + l <= len => from[i] = IF hit(i) # {} THEN hit(i) ELSE from[i + block]
    BY <2>0 DEF SearchTable
  <2>2. ASSUME NEW i \in Nat, i % block = 0, i + l <= len
        PROVE  hit(i) = First({p \in seen : i <= p /\ p < i + block})
    BY <2>2, ScanBlock
  <2> HIDE DEF len, l, seen, hit
  <2> DEFINE S == {k \in Nat : \A i \in 0 .. len + block :
                     i % block = 0 /\ i + l + k > len => from[i] = First(Above(i))}
  <2>3. 0 \in S
    <3> SUFFICES ASSUME NEW i \in 0 .. len + block, i + l + 0 > len PROVE from[i] = First(Above(i))
      BY <1>1
    <3>1. Above(i) = {}
      BY <1>1, <1>2
    <3>2. from[i] = {}
      BY <1>1, <2>1
    <3> QED
      BY <3>1, <3>2 DEF First
  <2>4. ASSUME NEW k \in Nat, k \in S PROVE k + 1 \in S
    <3> SUFFICES ASSUME NEW i \in 0 .. len + block, i % block = 0, i + l + (k + 1) > len
                 PROVE  from[i] = First(Above(i))
      OBVIOUS
    <3>1. CASE i + l > len
      <4>1. Above(i) = {}
        BY <1>1, <1>2, <3>1
      <4>2. from[i] = {}
        BY <1>1, <2>1, <3>1
      <4> QED
        BY <4>1, <4>2 DEF First
    <3>2. CASE i + l <= len
      <4> DEFINE In == {p \in seen : i <= p /\ p < i + block}
      <4>1. i \in Nat /\ hit(i) = First(In)
        BY <1>1, <2>2, <3>2
      <4>2. from[i] = IF hit(i) # {} THEN hit(i) ELSE from[i + block]
        BY <2>1, <3>2
      <4>3. CASE hit(i) # {}
        <5>1. from[i] = First(In) /\ First(In) # {}
          BY <4>1, <4>2, <4>3
        <5>2. First(In) = First(Above(i))
          <6>1. PICK p : p \in First(In)
            BY <5>1
          <6>2. p \in In /\ \A q \in In : p <= q
            BY <6>1 DEF First
          <6>3. \A q \in Above(i) : q \in In \/ i + block <= q
            BY <1>2, <4>1
          <6>4. p < i + block /\ p \in Nat
            BY <1>2, <6>2
          <6>5. \A q \in Above(i) : p <= q
            BY <1>2, <4>1, <6>2, <6>3, <6>4
          <6>6. p \in Above(i)
            BY <6>2
          <6>7. \A x \in First(In) : x = p
            BY <1>2, <6>2 DEF First
          <6>8. \A x \in First(Above(i)) : x = p
            BY <1>2, <6>5, <6>6 DEF First
          <6>9. p \in First(Above(i))
            BY <6>5, <6>6 DEF First
          <6>10. First(In) = {p} /\ First(Above(i)) = {p}
            <7> HIDE DEF In, Above
            <7> QED
              BY <6>1, <6>7, <6>8, <6>9
          <6> QED
            BY <6>10
        <5> QED
          BY <5>1, <5>2
      <4>4. CASE hit(i) = {}
        <5>1. In = {}
          <6> SUFFICES ASSUME In # {} PROVE FALSE
            OBVIOUS
          <6>1. In \in SUBSET Nat
            BY <1>2
          <6>2. PICK p \in In : \A q \in In : p <= q
            <7> HIDE DEF In
            <7> QED
              BY <6>1, LeastElement
          <6>3. p \in First(In)
            BY <6>2 DEF First
          <6> QED
            BY <4>1, <4>4, <6>3
        <5>2. Above(i) = Above(i + block)
          BY <1>2, <4>1, <5>1
        <5>3. i + block \in 0 .. len + block /\ (i + block) % block = 0
          <6>1. i + block \in 0 .. len + block
            BY <1>1, <3>2
          <6>2. 0 \in 0 .. block - 1
            OBVIOUS
          <6>3. (i + block) % block = 0
            BY <4>1, <6>2, BlockOffset
          <6> QED
            BY <6>1, <6>3
        <5>4. i + block + l + k > len
          BY <1>1
        <5>5. from[i + block] = First(Above(i + block))
          BY <2>4, <5>3, <5>4
        <5> QED
          BY <4>2, <4>4, <5>2, <5>5
      <4> QED
        BY <4>3, <4>4
    <3> QED
      BY <1>1, <3>1, <3>2
  <2>5. len + 1 \in S
    <3> HIDE DEF S
    <3> QED
      BY <1>1, <2>3, <2>4, SetInduction
  <2>6. from[0] = First(Above(0))
    <3>1. 0 \in 0 .. len + block /\ 0 % block = 0 /\ 0 + l + (len + 1) > len
      BY <1>1
    <3> QED
      BY <2>5, <3>1
  <2>7. Above(0) = seen
    BY <1>2
  <2> QED
    BY <2>0, <2>6, <2>7 DEF seen
<1> QED
  BY <1>1, <1>3, <1>4

-----------------------------------------------------------------------------
(* The swap parser                                                         *)

(* Where the read behind the k-th one starts when all reads fit.           *)
EndOf(k) ==
  IF k <= 4 THEN 8 * k ELSE IF k <= 8 THEN 32 * (k - 3) ELSE 32 * (k - 4) + 1

SwapReads(has_target) == IF has_target THEN 23 ELSE 22

(* The reads of the layout: their number, their widths, and that those     *)
(* that are not checked read 32 bytes.                                     *)
LEMMA SwapLayoutReads ==
  ASSUME NEW has_target \in BOOLEAN
  PROVE  LET layout == SwapLayout(has_target)
             n == SwapReads(has_target)
         IN /\ layout \in Seq([width : Nat, checked : BOOLEAN]) /\ Len(layout) = n
            /\ \A k \in 1 .. n : /\ layout[k] \in [width : Nat, checked : BOOLEAN]
                                 /\ layout[k].width = EndOf(k) - EndOf(k - 1)
                                 /\ ~layout[k].checked => layout[k].width = 32
            /\ layout[n] = Checked(32)
<1> DEFINE R == [width : Nat, checked : BOOLEAN]
           a == Times(4, Checked(8))
           b == <<Ignored(32), Checked(32), Ignored(32), Ignored(32), Checked(1)>>
           c == IF has_target THEN <<Checked(32)>> ELSE <<>>
           d == Times(12, Ignored(32))
           e == <<Checked(32)>>
           n == SwapReads(has_target)
<1>0. /\ \A w \in Nat : Checked(w) \in R /\ Ignored(w) \in R
      /\ \A w \in Nat : Checked(w).width = w /\ Checked(w).checked
      /\ \A w \in Nat : Ignored(w).width = w /\ ~Ignored(w).checked
  BY DEF Checked, Ignored
<1>1. a \in Seq(R) /\ Len(a) = 4 /\ \A k \in 1 .. 4 : a[k] = Checked(8)
  <2>1. a \in [1 .. 4 -> R]
    BY <1>0 DEF Times
  <2> QED
    BY <2>1 DEF Times
<1>2. /\ b \in Seq(R) /\ Len(b) = 5
      /\ b[1] = Ignored(32) /\ b[2] = Checked(32) /\ b[3] = Ignored(32)
      /\ b[4] = Ignored(32) /\ b[5] = Checked(1)
  BY <1>0
<1>3. /\ c \in Seq(R) /\ Len(c) = n - 22
      /\ has_target => c[1] = Checked(32)
  <2>1. CASE has_target
    BY <1>0, <2>1 DEF SwapReads
  <2>2. CASE ~has_target
    BY <2>2 DEF SwapReads
  <2> QED
    BY <2>1, <2>2
<1>14. n \in Nat /\ (n = 22 \/ n = 23) /\ (n = 23 <=> has_target)
  BY DEF SwapReads
<1>4. d \in Seq(R) /\ Len(d) = 12 /\ \A k \in 1 .. 12 : d[k] = Ignored(32)
  <2>1. d \in [1 .. 12 -> R]
    BY <1>0 DEF Times
  <2> QED
    BY <2>1 DEF Times
<1>5. e \in Seq(R) /\ Len(e) = 1 /\ e[1] = Checked(32)
  BY <1>0
<1>6. SwapLayout(has_target) = a \o b \o c \o d \o e
  BY DEF SwapLayout
<1> DEFINE ab == a \o b
           abc == ab \o c
           abcd == abc \o d
           s == abcd \o e
<1> HIDE DEF a, b, c, d, e, n, R
<1>7. /\ ab \in Seq(R) /\ Len(ab) = 9
      /\ \A k \in 1 .. 4 : ab[k] = Checked(8)
      /\ ab[5] = Ignored(32) /\ ab[6] = Checked(32) /\ ab[7] = Ignored(32)
      /\ ab[8] = Ignored(32) /\ ab[9] = Checked(1)
  <2>1. /\ ab \in Seq(R) /\ Len(ab) = Len(a) + Len(b)
        /\ \A k \in 1 .. Len(a) : ab[k] = a[k]
        /\ \A k \in 1 .. Len(b) : ab[Len(a) + k] = b[k]
    <3>1. a \in Seq(R) /\ b \in Seq(R)
      BY <1>1, <1>2
    <3> QED
      BY <3>1, SMT
  <2> HIDE DEF ab
  <2> QED
    BY <1>1, <1>2, <2>1
<1> HIDE DEF ab
<1>8. /\ abc \in Seq(R) /\ Len(abc) = n - 13
      /\ \A k \in 1 .. 9 : abc[k] = ab[k]
      /\ n = 23 => abc[10] = Checked(32)
  <2>1. /\ abc \in Seq(R) /\ Len(abc) = Len(ab) + Len(c)
        /\ \A k \in 1 .. Len(ab) : abc[k] = ab[k]
        /\ \A k \in 1 .. Len(c) : abc[Len(ab) + k] = c[k]
    <3>1. ab \in Seq(R) /\ c \in Seq(R)
      BY <1>3, <1>7
    <3> QED
      BY <3>1, SMT
  <2> HIDE DEF abc
  <2>2. Len(ab) = 9 /\ Len(c) = n - 22 /\ Len(abc) = n - 13
    BY <1>3, <1>14, <1>7, <2>1
  <2>3. \A k \in 1 .. 9 : abc[k] = ab[k]
    BY <2>1, <2>2
  <2>4. ASSUME n = 23 PROVE abc[10] = Checked(32)
    <3>1. 1 \in 1 .. Len(c) /\ Len(ab) + 1 = 10 /\ c[1] = Checked(32)
      BY <1>3, <1>14, <2>2, <2>4
    <3>2. abc[Len(ab) + 1] = c[1]
      BY <2>1, <3>1, Zenon
    <3> QED
      BY <3>1, <3>2, Zenon
  <2> QED
    BY <2>1, <2>2, <2>3, <2>4
<1> HIDE DEF abc
<1>9. /\ abcd \in Seq(R) /\ Len(abcd) = n - 1
      /\ \A k \in 1 .. n - 13 : abcd[k] = abc[k]
      /\ \A k \in n - 12 .. n - 1 : abcd[k] = Ignored(32)
  <2>1. /\ abcd \in Seq(R) /\ Len(abcd) = Len(abc) + Len(d)
        /\ \A k \in 1 .. Len(abc) : abcd[k] = abc[k]
        /\ \A k \in 1 .. Len(d) : abcd[Len(abc) + k] = d[k]
    <3>1. abc \in Seq(R) /\ d \in Seq(R)
      BY <1>4, <1>8
    <3> QED
      BY <3>1, SMT
  <2> HIDE DEF abcd
  <2>2. ASSUME NEW k \in n - 12 .. n - 1 PROVE abcd[k] = Ignored(32)
    <3> DEFINE w == Len(abc)
    <3>2. w \in Nat /\ w = n - 13 /\ n \in Nat
      BY <1>14, <1>8
    <3> HIDE DEF n, w
    <3>3. k - w \in 1 .. 12 /\ w + (k - w) = k
      BY <3>2
    <3>1. k - Len(abc) \in 1 .. 12 /\ Len(abc) + (k - Len(abc)) = k
      BY <3>3 DEF w
    <3> QED
      BY <1>4, <2>1, <3>1
  <2> QED
    BY <1>4, <1>14, <1>8, <2>1, <2>2
<1> HIDE DEF abcd
<1>10. /\ s \in Seq(R) /\ Len(s) = n
       /\ \A k \in 1 .. n - 1 : s[k] = abcd[k]
       /\ s[n] = Checked(32)
  <2>1. /\ s \in Seq(R) /\ Len(s) = Len(abcd) + Len(e)
        /\ \A k \in 1 .. Len(abcd) : s[k] = abcd[k]
        /\ \A k \in 1 .. Len(e) : s[Len(abcd) + k] = e[k]
    <3>1. abcd \in Seq(R) /\ e \in Seq(R)
      BY <1>5, <1>9
    <3> QED
      BY <3>1, SMT
  <2> HIDE DEF s
  <2> QED
    BY <1>5, <1>14, <1>9, <2>1
<1>11. SwapLayout(has_target) = s
  BY <1>6 DEF ab, abc, abcd
<1> HIDE DEF s
<1>12. /\ \A k \in 1 .. 4 : s[k] = Checked(8)
       /\ s[5] = Ignored(32) /\ s[6] = Checked(32) /\ s[7] = Ignored(32)
       /\ s[8] = Ignored(32) /\ s[9] = Checked(1)
       /\ \A k \in 10 .. n : s[k] = Checked(32) \/ s[k] = Ignored(32)
  <2>1. ASSUME NEW k \in 1 .. 9 PROVE s[k] = ab[k]
    <3>1. k \in 1 .. n - 13 /\ k \in 1 .. n - 1
      BY <1>14
    <3>2. s[k] = abcd[k]
      BY <1>10, <3>1, Zenon
    <3>3. abcd[k] = abc[k]
      BY <1>9, <3>1, Zenon
    <3>4. abc[k] = ab[k]
      BY <1>8, Zenon
    <3> QED
      BY <3>2, <3>3, <3>4
  <2>2. ASSUME NEW k \in 10 .. n PROVE s[k] = Checked(32) \/ s[k] = Ignored(32)
    <3>1. CASE k = n
      BY <1>10, <3>1
    <3>2. CASE k \in n - 12 .. n - 1
      BY <1>14, <1>9, <1>10, <3>2
    <3>3. CASE k < n - 12
      <4>1. n = 23 /\ k = 10
        BY <1>14, <3>3
      <4> QED
        BY <1>8, <1>9, <1>10, <4>1
    <3> QED
      BY <1>14, <3>1, <3>2, <3>3
  <2> QED
    BY <1>7, <2>1, <2>2
<1>13. ASSUME NEW k \in 1 .. n
       PROVE  /\ s[k] \in R
              /\ s[k].width = EndOf(k) - EndOf(k - 1)
              /\ ~s[k].checked => s[k].width = 32
  <2>1. CASE k <= 4
    BY <1>0, <1>12, <2>1 DEF EndOf
  <2>2. CASE k \in {5, 6, 7, 8}
    BY <1>0, <1>12, <2>2 DEF EndOf
  <2>3. CASE k = 9
    BY <1>0, <1>12, <2>3 DEF EndOf
  <2>4. CASE k \in 10 .. n
    BY <1>0, <1>12, <2>4 DEF EndOf
  <2> QED
    BY <1>14, <2>1, <2>2, <2>3, <2>4
<1> QED
  BY <1>10, <1>11, <1>13 DEF R, n

(* The states of the parser: defined for every read, and each one what the *)
(* read makes of the one before.                                           *)
LEMMA ReadAllDefined ==
  ASSUME NEW layout \in Seq([width : Nat, checked : BOOLEAN]), NEW len \in Nat
  PROVE  \E state \in [0 .. Len(layout) -> ParserState] :
           /\ state[0] = [ok |-> TRUE, offset |-> 0]
           /\ \A k \in 1 .. Len(layout) : state[k] = Read(layout[k], len)[state[k - 1]]
           /\ ReadAll(layout, len) = state[Len(layout)].ok
<1> DEFINE n == Len(layout)
           R == [width : Nat, checked : BOOLEAN]
           V == ParserState
           c == [ok |-> TRUE, offset |-> 0]
           Def(f) == [k \in 0 .. n |-> IF k = 0 THEN c ELSE Read(layout[k], len)[f[k - 1]]]
           state == CHOOSE f : f = Def(f)
           E == [k \in 1 .. n |-> [v \in V |-> Read(layout[k], len)[v]]]
<1>1. ReadAll(layout, len) = state[n].ok
  BY DEF ReadAll
<1>2. n \in Nat /\ c \in V
  BY DEF ParserState
<1>3. ASSUME NEW k \in 1 .. n, NEW v \in V PROVE Read(layout[k], len)[v] \in V
  <2>1. layout[k] \in R
    <3>1. layout \in Seq(R)
      OBVIOUS
    <3> HIDE DEF R, V
    <3> QED
      BY <3>1
  <2>2. layout[k].width \in Nat /\ layout[k].checked \in BOOLEAN
    BY <2>1
  <2>3. CASE ~v.ok
    BY <2>3 DEF Read, ParserState
  <2>4. CASE v.ok /\ Fits(v.offset, layout[k].width, len)
    <3>1. Read(layout[k], len)[v] = [v EXCEPT !.offset = @ + layout[k].width]
      BY <2>4 DEF Read, ParserState
    <3>2. v.offset \in Nat /\ v.offset + layout[k].width \in Nat
      BY <2>2 DEF ParserState
    <3> QED
      BY <3>1, <3>2 DEF ParserState
  <2>5. CASE v.ok /\ ~Fits(v.offset, layout[k].width, len)
    <3>1. Read(layout[k], len)[v] = [v EXCEPT !.ok = ~layout[k].checked]
      BY <2>5 DEF Read, ParserState
    <3> QED
      BY <2>2, <3>1 DEF ParserState
  <2> QED
    BY <2>3, <2>4, <2>5
<1>4. E \in Passes(1, n, V)
  <2> HIDE DEF V
  <2> QED
    BY <1>3 DEF Passes
<1>5. \A k \in 1 .. n, v \in V : E[k][v] = Read(layout[k], len)[v]
  OBVIOUS
<1> HIDE DEF E, V, c, n
<1>6. PICK f \in [0 .. n -> V] : Continues(f, n, E, c)
  BY <1>2, <1>4, FoldDefined
<1>7. ASSUME NEW k \in 1 .. n PROVE f[k] = Read(layout[k], len)[f[k - 1]]
  <2>1. k - 1 \in 0 .. n
    BY <1>2
  <2>2. f[k - 1] \in V
    BY <2>1
  <2> QED
    BY <1>5, <1>6, <2>2 DEF Continues
<1>8. f = Def(f)
  <2>1. \A k \in 0 .. n : k = 0 \/ k \in 1 .. n
    BY <1>2
  <2> QED
    BY <1>6, <1>7, <2>1 DEF Continues
<1>9. state = Def(state)
  BY <1>8
<1> HIDE DEF state
<1>10. state[0] = c /\ \A k \in 1 .. n : state[k] = Read(layout[k], len)[state[k - 1]]
  BY <1>2, <1>9
<1>11. \A k \in 0 .. n : state[k] \in V
  <2> DEFINE S == {k \in Nat : state[k] \in V}
  <2>1. 0 \in S
    BY <1>2, <1>10
  <2>2. ASSUME NEW k \in 1 .. n, k - 1 \in S PROVE k \in S
    BY <1>2, <1>3, <1>10, <2>2
  <2>3. \A k \in 0 .. n : k \in S
    <3> HIDE DEF S
    <3> QED
      BY <1>2, <2>1, <2>2, IntervalInduction
  <2> QED
    BY <2>3
<1>12. state \in [0 .. n -> V]
  <2>1. Def(state) \in [0 .. n -> V]
    <3>1. \A k \in 0 .. n : Def(state)[k] \in V
      BY <1>9, <1>11
    <3> QED
      BY <3>1
  <2> QED
    BY <1>9, <2>1
<1> QED
  BY <1>1, <1>10, <1>12 DEF V, c, n

(* raydium_parse_swap accepts a buffer exactly if all reads fit.  A read   *)
(* that is not checked and does not fit leaves less than 32 bytes behind   *)
(* the offset, from then on, and the last read is one of 32 bytes and is   *)
(* checked.                                                                *)
LEMMA SwapLength ==
  ASSUME NEW len \in Nat, NEW has_target \in BOOLEAN
  PROVE  raydium_parse_swap(len, has_target) <=> len >= EndOf(SwapReads(has_target))
<1> DEFINE n == SwapReads(has_target)
           layout == SwapLayout(has_target)
<1>1. /\ layout \in Seq([width : Nat, checked : BOOLEAN]) /\ Len(layout) = n
      /\ \A k \in 1 .. n : /\ layout[k] \in [width : Nat, checked : BOOLEAN]
                           /\ layout[k].width = EndOf(k) - EndOf(k - 1)
                           /\ ~layout[k].checked => layout[k].width = 32
      /\ layout[n] = Checked(32)
  BY SwapLayoutReads
<1>2. n \in Nat /\ (n = 22 \/ n = 23)
  BY DEF SwapReads
<1>3. raydium_parse_swap(len, has_target) = ReadAll(layout, len)
  BY DEF raydium_parse_swap
<1> HIDE DEF layout, n
<1>4. PICK state \in [0 .. n -> ParserState] :
        /\ state[0] = [ok |-> TRUE, offset |-> 0]
        /\ \A k \in 1 .. n : state[k] = Read(layout[k], len)[state[k - 1]]
        /\ ReadAll(layout, len) = state[n].ok
  BY <1>1, ReadAllDefined
<1>5. /\ EndOf(n) \in Nat
      /\ \A k \in 1 .. n : /\ EndOf(k) \in Nat /\ EndOf(k - 1) \in Nat
                           /\ EndOf(k) - EndOf(k - 1) \in Nat /\ EndOf(k) <= EndOf(n)
  BY <1>2 DEF EndOf
<1>6. ASSUME NEW k \in 1 .. n
      PROVE  /\ k - 1 \in 0 .. n
             /\ state[k - 1].offset \in Nat /\ state[k - 1].ok \in BOOLEAN
             /\ layout[k].width \in Nat /\ layout[k].checked \in BOOLEAN
             /\ layout[k].width = EndOf(k) - EndOf(k - 1)
             /\ ~layout[k].checked => layout[k].width = 32
             /\ k = n => layout[k].checked /\ layout[k].width = 32
  <2>1. k - 1 \in 0 .. n
    BY <1>2
  <2>2. state[k - 1] \in [ok : BOOLEAN, offset : Nat]
    BY <2>1 DEF ParserState
  <2>3. layout[k] \in [width : Nat, checked : BOOLEAN]
    BY <1>1
  <2>4. k = n => layout[k].checked /\ layout[k].width = 32
    BY <1>1 DEF Checked
  <2> QED
    BY <1>1, <2>1, <2>2, <2>3, <2>4
<1>7. ASSUME NEW k \in 1 .. n
      PROVE  LET s == state[k - 1]
                 w == EndOf(k) - EndOf(k - 1)
             IN /\ ~s.ok => ~state[k].ok
                /\ s.ok /\ s.offset + w <= len => state[k].ok /\ state[k].offset = s.offset + w
                /\ s.ok /\ s.offset + w > len => state[k].offset = s.offset
                /\ s.ok /\ s.offset + w > len /\ state[k].ok => w = 32
                /\ s.ok /\ s.offset + w > len /\ state[k].ok => k # n
  <2> DEFINE s == state[k - 1]
             r == layout[k]
  <2>0. /\ state[k] = Read(r, len)[s]
        /\ s \in ParserState
        /\ r.width \in Nat /\ r.width = EndOf(k) - EndOf(k - 1)
        /\ r.checked \in BOOLEAN /\ (~r.checked => r.width = 32) /\ (k = n => r.checked)
    BY <1>4, <1>6
  <2> HIDE DEF s, r
  <2>1. ASSUME ~s.ok PROVE ~state[k].ok
    BY <2>0, <2>1 DEF Read, ParserState
  <2>2. ASSUME s.ok, s.offset + r.width <= len PROVE state[k].ok /\ state[k].offset = s.offset + r.width
    BY <2>0, <2>2 DEF Read, ParserState, Fits
  <2>3. ASSUME s.ok, s.offset + r.width > len
        PROVE  state[k].offset = s.offset /\ state[k].ok = ~r.checked
    <3>1. ~Fits(s.offset, r.width, len)
      BY <2>0, <2>3 DEF Fits, ParserState
    <3>2. state[k] = [s EXCEPT !.ok = ~r.checked]
      BY <2>0, <2>3, <3>1 DEF Read, ParserState
    <3> QED
      BY <2>0, <3>2 DEF ParserState
  <2> QED
    BY <2>0, <2>1, <2>2, <2>3 DEF s
<1>8. ASSUME len >= EndOf(n) PROVE state[n].ok
  <2> DEFINE S == {k \in 0 .. n : state[k].ok /\ state[k].offset = EndOf(k)}
  <2>1. 0 \in S
    BY <1>2, <1>4 DEF EndOf
  <2>2. ASSUME NEW k \in 1 .. n, k - 1 \in S PROVE k \in S
    <3>1. state[k - 1].ok /\ state[k - 1].offset = EndOf(k - 1) /\ k \in 0 .. n
      BY <1>2, <2>2
    <3>2. EndOf(k) \in Nat /\ EndOf(k - 1) \in Nat /\ EndOf(k) <= EndOf(n) /\ EndOf(n) \in Nat
      BY <1>5
    <3>3. state[k].ok /\ state[k].offset = EndOf(k - 1) + (EndOf(k) - EndOf(k - 1))
      BY <1>7, <1>8, <3>1, <3>2
    <3> QED
      BY <3>1, <3>2, <3>3
  <2>3. \A k \in 0 .. n : k \in S
    <3> HIDE DEF S
    <3> QED
      BY <1>2, <2>1, <2>2, IntervalInduction
  <2>4. n \in 0 .. n
    BY <1>2
  <2> QED
    BY <2>3, <2>4
<1>9. ASSUME state[n].ok PROVE len >= EndOf(n)
  <2> DEFINE S == {k \in 0 .. n : state[k].ok => \/ state[k].offset = EndOf(k)
                                               \/ len < state[k].offset + 32}
  <2>1. 0 \in S
    BY <1>2, <1>4 DEF EndOf
  <2>2. ASSUME NEW k \in 1 .. n, k - 1 \in S PROVE k \in S
    <3> SUFFICES ASSUME state[k].ok
                 PROVE  state[k].offset = EndOf(k) \/ len < state[k].offset + 32
      BY <1>2
    <3>1. state[k - 1].ok /\ \/ state[k - 1].offset = EndOf(k - 1)
                             \/ len < state[k - 1].offset + 32
      BY <1>7, <2>2
    <3>2. EndOf(k) \in Nat /\ EndOf(k - 1) \in Nat /\ EndOf(k) - EndOf(k - 1) \in Nat
      BY <1>5
    <3>3. state[k - 1].offset \in Nat
      BY <1>6
    <3> DEFINE w == EndOf(k) - EndOf(k - 1)
               o == state[k - 1].offset
    <3>4. CASE o + w <= len
      <4>1. state[k].offset = o + w
        BY <1>7, <3>1, <3>4
      <4> DEFINE x == state[k].offset
                 a == EndOf(k)
                 c == EndOf(k - 1)
      <4>2. /\ a \in Nat /\ c \in Nat /\ a - c \in Nat /\ w = a - c /\ o \in Nat /\ x = o + w
            /\ o = c \/ len < o + 32
        BY <3>1, <3>2, <3>3, <4>1
      <4> HIDE DEF x, a, c, w, o
      <4>3. x = a \/ len < x + 32
        BY <4>2
      <4> QED
        BY <4>3 DEF x, a
    <3>5. CASE o + w > len
      <4>1. state[k].offset = o /\ w = 32
        BY <1>7, <3>1, <3>3, <3>5
      <4> QED
        BY <3>2, <3>3, <3>5, <4>1
    <3> QED
      BY <3>2, <3>3, <3>4, <3>5
  <2>3. \A k \in 0 .. n : k \in S
    <3> HIDE DEF S
    <3> QED
      BY <1>2, <2>1, <2>2, IntervalInduction
  <2>4. n \in 1 .. n /\ n - 1 \in 0 .. n
    BY <1>2
  <2>5. /\ EndOf(n) \in Nat /\ EndOf(n - 1) \in Nat /\ EndOf(n) - EndOf(n - 1) = 32
        /\ state[n - 1].offset \in Nat
    <3>1. layout[n].width = 32 /\ layout[n].width = EndOf(n) - EndOf(n - 1)
      BY <1>6, <2>4
    <3> QED
      BY <1>5, <1>6, <2>4, <3>1
  <2>6. state[n - 1].ok /\ state[n - 1].offset + 32 <= len
    <3>1. state[n - 1].ok
      BY <1>7, <1>9, <2>4
    <3>2. ~(state[n - 1].offset + (EndOf(n) - EndOf(n - 1)) > len)
      BY <1>7, <1>9, <2>4, <3>1
    <3> QED
      BY <2>5, <3>1, <3>2
  <2> QED
    BY <2>3, <2>4, <2>5, <2>6
<1> QED
  BY <1>3, <1>4, <1>8, <1>9 DEF n

-----------------------------------------------------------------------------
(* The bindings                                                            *)

Names == DOMAIN Descriptors

(* A table as protoc-c generates it for the messages of geyser.proto and   *)
(* solana-storage.proto: no field at all, or one range of numbers without  *)
(* a gap, no name twice, and the messages in it are among the descriptors. *)
WellFormedTable(m) ==
  /\ \/ m.ranges = <<>> /\ m.fields = <<>>
     \/ \E first \in Nat :
          /\ m.ranges = <<<<first, 0>>, <<0, Len(m.fields)>>>> /\ Len(m.fields) \in Nat
          /\ DOMAIN m.fields = 1 .. Len(m.fields)
          /\ \A i \in 1 .. Len(m.fields) : m.fields[i].number = first + i - 1
  /\ \A i, j \in DOMAIN m.fields : m.fields[i].name = m.fields[j].name => i = j
  /\ \A i \in DOMAIN m.fields : m.fields[i].type \in Scalars \cup Names

(* Every table is well formed.                                             *)
LEMMA TablesWellFormed == \A name \in Names : WellFormedTable(Descriptors[name])
<1> USE DEF Message, Field, Optional, Repeated, Oneof, Plain
<1>0. Names = {"subscribe_request__accounts_entry", "subscribe_request__slots_entry",
        "subscribe_request__transactions_entry",
        "subscribe_request__transactions_status_entry", "subscribe_request__blocks_entry",
        "subscribe_request__blocks_meta_entry", "subscribe_request__entry_entry",
        "subscribe_request", "subscribe_request_filter_accounts",
        "subscribe_request_filter_accounts_filter",
        "subscribe_request_filter_accounts_filter_memcmp",
        "subscribe_request_filter_accounts_filter_lamports",
        "subscribe_request_filter_slots", "subscribe_request_filter_transactions",
        "subscribe_request_filter_blocks", "subscribe_request_filter_blocks_meta",
        "subscribe_request_filter_entry", "subscribe_request_accounts_data_slice",
        "subscribe_request_ping", "subscribe_update", "subscribe_update_account",
        "subscribe_update_account_info", "subscribe_update_slot",
        "subscribe_update_transaction", "subscribe_update_transaction_info",
        "subscribe_update_transaction_status", "subscribe_update_block",
        "subscribe_update_block_meta", "subscribe_update_entry", "subscribe_update_ping",
        "subscribe_update_pong", "confirmed_block__transaction",
        "confirmed_block__message", "confirmed_block__message_header",
        "confirmed_block__message_address_table_lookup",
        "confirmed_block__transaction_status_meta", "confirmed_block__transaction_error",
        "confirmed_block__inner_instructions", "confirmed_block__inner_instruction",
        "confirmed_block__compiled_instruction", "confirmed_block__token_balance",
        "confirmed_block__ui_token_amount", "confirmed_block__return_data",
        "confirmed_block__reward", "confirmed_block__rewards",
        "confirmed_block__unix_timestamp", "confirmed_block__block_height",
        "confirmed_block__num_partitions", "timestamp"}
  BY DEF Names, Descriptors
<1>1. WellFormedTable(subscribe_request__accounts_entry)
  BY <1>0 DEF WellFormedTable, subscribe_request__accounts_entry, Scalars
<1>2. WellFormedTable(subscribe_request__slots_entry)
  BY <1>0 DEF WellFormedTable, subscribe_request__slots_entry, Scalars
<1>3. WellFormedTable(subscribe_request__transactions_entry)
  BY <1>0 DEF WellFormedTable, subscribe_request__transactions_entry, Scalars
<1>4. WellFormedTable(subscribe_request__transactions_status_entry)
  BY <1>0 DEF WellFormedTable, subscribe_request__transactions_status_entry, Scalars
<1>5. WellFormedTable(subscribe_request__blocks_entry)
  BY <1>0 DEF WellFormedTable, subscribe_request__blocks_entry, Scalars
<1>6. WellFormedTable(subscribe_request__blocks_meta_entry)
  BY <1>0 DEF WellFormedTable, subscribe_request__blocks_meta_entry, Scalars
<1>7. WellFormedTable(subscribe_request__entry_entry)
  BY <1>0 DEF WellFormedTable, subscribe_request__entry_entry, Scalars
<1>8. WellFormedTable(subscribe_request)
  BY <1>0 DEF WellFormedTable, subscribe_request, Scalars
<1>9. WellFormedTable(subscribe_request_filter_accounts)
  BY <1>0 DEF WellFormedTable, subscribe_request_filter_accounts, Scalars
<1>10. WellFormedTable(subscribe_request_filter_accounts_filter)
  BY <1>0 DEF WellFormedTable, subscribe_request_filter_accounts_filter, Scalars
<1>11. WellFormedTable(subscribe_request_filter_accounts_filter_memcmp)
  BY <1>0 DEF WellFormedTable, subscribe_request_filter_accounts_filter_memcmp, Scalars
<1>12. WellFormedTable(subscribe_request_filter_accounts_filter_lamports)
  BY <1>0 DEF WellFormedTable, subscribe_request_filter_accounts_filter_lamports, Scalars
<1>13. WellFormedTable(subscribe_request_filter_slots)
  BY <1>0 DEF WellFormedTable, subscribe_request_filter_slots, Scalars
<1>14. WellFormedTable(subscribe_request_filter_transactions)
  BY <1>0 DEF WellFormedTable, subscribe_request_filter_transactions, Scalars
<1>15. WellFormedTable(subscribe_request_filter_blocks)
  BY <1>0 DEF WellFormedTable, subscribe_request_filter_blocks, Scalars
<1>16. WellFormedTable(subscribe_request_filter_blocks_meta)
  BY <1>0 DEF WellFormedTable, subscribe_request_filter_blocks_meta, Scalars
<1>17. WellFormedTable(subscribe_request_filter_entry)
  BY <1>0 DEF WellFormedTable, subscribe_request_filter_entry, Scalars
<1>18. WellFormedTable(subscribe_request_accounts_data_slice)
  BY <1>0 DEF WellFormedTable, subscribe_request_accounts_data_slice, Scalars
<1>19. WellFormedTable(subscribe_request_ping)
  BY <1>0 DEF WellFormedTable, subscribe_request_ping, Scalars
<1>20. WellFormedTable(subscribe_update)
  BY <1>0 DEF WellFormedTable, subscribe_update, Scalars
<1>21. WellFormedTable(subscribe_update_account)
  BY <1>0 DEF WellFormedTable, subscribe_update_account, Scalars
<1>22. WellFormedTable(subscribe_update_account_info)
  BY <1>0 DEF WellFormedTable, subscribe_update_account_info, Scalars
<1>23. WellFormedTable(subscribe_update_slot)
  BY <1>0 DEF WellFormedTable, subscribe_update_slot, Scalars
<1>24. WellFormedTable(subscribe_update_transaction)
  BY <1>0 DEF WellFormedTable, subscribe_update_transaction, Scalars
<1>25. WellFormedTable(subscribe_update_transaction_info)
  BY <1>0 DEF WellFormedTable, subscribe_update_transaction_info, Scalars
<1>26. WellFormedTable(subscribe_update_transaction_status)
  BY <1>0 DEF WellFormedTable, subscribe_update_transaction_status, Scalars
<1>27. WellFormedTable(subscribe_update_block)
  BY <1>0 DEF WellFormedTable, subscribe_update_block, Scalars
<1>28. WellFormedTable(subscribe_update_block_meta)
  BY <1>0 DEF WellFormedTable, subscribe_update_block_meta, Scalars
<1>29. WellFormedTable(subscribe_update_entry)
  BY <1>0 DEF WellFormedTable, subscribe_update_entry, Scalars
<1>30. WellFormedTable(subscribe_update_ping)
  BY <1>0 DEF WellFormedTable, subscribe_update_ping, Scalars
<1>31. WellFormedTable(subscribe_update_pong)
  BY <1>0 DEF WellFormedTable, subscribe_update_pong, Scalars
<1>32. WellFormedTable(confirmed_block__transaction)
  BY <1>0 DEF WellFormedTable, confirmed_block__transaction, Scalars
<1>33. WellFormedTable(confirmed_block__message)
  BY <1>0 DEF WellFormedTable, confirmed_block__message, Scalars
<1>34. WellFormedTable(confirmed_block__message_header)
  BY <1>0 DEF WellFormedTable, confirmed_block__message_header, Scalars
<1>35. WellFormedTable(confirmed_block__message_address_table_lookup)
  BY <1>0 DEF WellFormedTable, confirmed_block__message_address_table_lookup, Scalars
<1>36. WellFormedTable(confirmed_block__transaction_status_meta)
  BY <1>0 DEF WellFormedTable, confirmed_block__transaction_status_meta, Scalars
<1>37. WellFormedTable(confirmed_block__transaction_error)
  BY <1>0 DEF WellFormedTable, confirmed_block__transaction_error, Scalars
<1>38. WellFormedTable(confirmed_block__inner_instructions)
  BY <1>0 DEF WellFormedTable, confirmed_block__inner_instructions, Scalars
<1>39. WellFormedTable(confirmed_block__inner_instruction)
  BY <1>0 DEF WellFormedTable, confirmed_block__inner_instruction, Scalars
<1>40. WellFormedTable(confirmed_block__compiled_instruction)
  BY <1>0 DEF WellFormedTable, confirmed_block__compiled_instruction, Scalars
<1>41. WellFormedTable(confirmed_block__token_balance)
  BY <1>0 DEF WellFormedTable, confirmed_block__token_balance, Scalars
<1>42. WellFormedTable(confirmed_block__ui_token_amount)
  BY <1>0 DEF WellFormedTable, confirmed_block__ui_token_amount, Scalars
<1>43. WellFormedTable(confirmed_block__return_data)
  BY <1>0 DEF WellFormedTable, confirmed_block__return_data, Scalars
<1>44. WellFormedTable(confirmed_block__reward)
  BY <1>0 DEF WellFormedTable, confirmed_block__reward, Scalars
<1>45. WellFormedTable(confirmed_block__rewards)
  BY <1>0 DEF WellFormedTable, confirmed_block__rewards, Scalars
<1>46. WellFormedTable(confirmed_block__unix_timestamp)
  BY <1>0 DEF WellFormedTable, confirmed_block__unix_timestamp, Scalars
<1>47. WellFormedTable(confirmed_block__block_height)
  BY <1>0 DEF WellFormedTable, confirmed_block__block_height, Scalars
<1>48. WellFormedTable(confirmed_block__num_partitions)
  BY <1>0 DEF WellFormedTable, confirmed_block__num_partitions, Scalars
<1>49. WellFormedTable(timestamp)
  BY <1>0 DEF WellFormedTable, timestamp, Scalars
<1> QED
  BY <1>0, <1>1, <1>2, <1>3, <1>4, <1>5, <1>6, <1>7, <1>8, <1>9, <1>10, <1>11, <1>12, <1>13,
     <1>14, <1>15, <1>16, <1>17, <1>18, <1>19, <1>20, <1>21, <1>22, <1>23, <1>24, <1>25,
     <1>26, <1>27, <1>28, <1>29, <1>30, <1>31, <1>32, <1>33, <1>34, <1>35, <1>36, <1>37,
     <1>38, <1>39, <1>40, <1>41, <1>42, <1>43, <1>44, <1>45, <1>46, <1>47, <1>48, <1>49
     DEF Descriptors

(* The number of a field leads to the field, and no other number does.     *)
LookupIs(m, number, i) ==
  \/ i = NotFound /\ \A k \in DOMAIN m.fields : m.fields[k].number # number
  \/ i \in DOMAIN m.fields /\ i # NotFound /\ m.fields[i].number = number

(* int_range_lookup, in a table of one range.                              *)
LEMMA LookupExact ==
  ASSUME NEW m, WellFormedTable(m), NEW number \in Nat
  PROVE  LookupIs(m, number, Lookup(m, number))
<1>1. CASE m.ranges = <<>> /\ m.fields = <<>>
  BY <1>1 DEF Lookup, LookupIs
<1>2. CASE m.ranges # <<>>
  <2>0. PICK first \in Nat :
          /\ m.ranges = <<<<first, 0>>, <<0, Len(m.fields)>>>> /\ Len(m.fields) \in Nat
          /\ DOMAIN m.fields = 1 .. Len(m.fields)
          /\ \A i \in 1 .. Len(m.fields) : m.fields[i].number = first + i - 1
    BY <1>2 DEF WellFormedTable
  <2> DEFINE size == Len(m.fields)
             s0 == [start |-> 1, n |-> Len(m.ranges) - 1, index |-> NotFound]
             s1 == Narrow(m, number, s0)
             Def(f) == [k \in 0 .. Len(m.ranges) |-> IF k = 0 THEN s0 ELSE Narrow(m, number, f[k - 1])]
             search == CHOOSE f : f = Def(f)
             g == [k \in 0 .. 2 |-> IF k = 0 THEN s0 ELSE IF k = 1 THEN s1 ELSE Narrow(m, number, s1)]
  <2>1. Lookup(m, number) = search[Len(m.ranges)].index
    BY <1>2 DEF Lookup
  <2>2. Len(m.ranges) = 2
    BY <2>0
  <2>3. search = Def(search)
    <3>1. g = Def(g)
      <4>1. \A k \in 0 .. 2 : k = 0 \/ k = 1 \/ k = 2
        OBVIOUS
      <4> HIDE DEF s0, s1
      <4>2. g[0] = s0 /\ g[1] = s1 /\ g[2] = Narrow(m, number, s1)
        OBVIOUS
      <4>3. \A k \in 0 .. 2 : g[k] = IF k = 0 THEN s0 ELSE Narrow(m, number, g[k - 1])
        BY <4>1, <4>2 DEF s1
      <4> QED
        BY <2>2, <4>3
    <3> HIDE DEF g
    <3> QED
      BY <3>1
  <2> HIDE DEF search
  <2>4. search[2] = Narrow(m, number, s1)
    <3>1. search[0] = s0 /\ search[1] = Narrow(m, number, search[0]) /\ search[2] = Narrow(m, number, search[1])
      <4> HIDE DEF s0, s1
      <4> QED
        BY <2>2, <2>3
    <3> QED
      BY <3>1
  <2>5. s0 = [start |-> 1, n |-> 1, index |-> NotFound]
    BY <2>2
  <2>6. m.ranges[1][1] = first /\ m.ranges[1][2] = 0 /\ m.ranges[2][2] = size
    BY <2>0
  <2> HIDE DEF s0
  <2>7. CASE number < first
    <3>1. s1 = [start |-> 1, n |-> 0, index |-> NotFound]
      BY <2>5, <2>6, <2>7 DEF Narrow
    <3>2. Narrow(m, number, s1) = s1
      <4>1. s1.n = 0
        BY <3>1
      <4> HIDE DEF s1
      <4> QED
        BY <4>1 DEF Narrow
    <3> QED
      BY <2>0, <2>1, <2>2, <2>4, <2>7, <3>1, <3>2 DEF LookupIs
  <2>8. CASE number >= first + size
    <3>1. s1 = [start |-> 2, n |-> 0, index |-> NotFound]
      BY <2>0, <2>5, <2>6, <2>8 DEF Narrow
    <3>2. Narrow(m, number, s1) = s1
      <4>1. s1.n = 0
        BY <3>1
      <4> HIDE DEF s1
      <4> QED
        BY <4>1 DEF Narrow
    <3>3. \A i \in 1 .. Len(m.fields) : m.fields[i].number # number
      BY <2>0, <2>8
    <3>4. Lookup(m, number) = NotFound
      BY <2>1, <2>2, <2>4, <3>1, <3>2
    <3> QED
      BY <2>0, <3>3, <3>4 DEF LookupIs
  <2>9. CASE first <= number /\ number < first + size
    <3>1. s1 = [start |-> 1, n |-> 1, index |-> number - first + 1]
      BY <2>0, <2>5, <2>6, <2>9 DEF Narrow, NotFound
    <3>2. Narrow(m, number, s1) = s1
      <4>1. s1.index # NotFound
        BY <2>9, <3>1 DEF NotFound
      <4> HIDE DEF s1
      <4> QED
        BY <4>1 DEF Narrow
    <3>3. Lookup(m, number) = number - first + 1
      BY <2>1, <2>2, <2>4, <3>1, <3>2
    <3>4. number - first + 1 \in 1 .. Len(m.fields) /\ number - first + 1 # 0
      BY <2>0, <2>9
    <3>5. m.fields[number - first + 1].number = number
      BY <2>0, <3>4
    <3> QED
      BY <2>0, <3>3, <3>4, <3>5 DEF LookupIs, NotFound
  <2> QED
    BY <2>0, <2>7, <2>8, <2>9
<1> QED
  BY <1>1, <1>2 DEF WellFormedTable

Reachable == Names \cup {NoMessage}

(* Going down one field stays among the messages, and goes nowhere from    *)
(* where there is none.                                                    *)
LEMMA SubMessageType ==
  ASSUME NEW name \in Reachable, NEW number \in Nat
  PROVE  /\ SubMessage(name, number) \in Reachable
         /\ SubMessage(name, number) # NoMessage =>
              name \in Names /\ Lookup(Descriptors[name], number) # NotFound
<1>1. CASE SubMessage(name, number) = NoMessage
  BY <1>1 DEF Reachable
<1>2. CASE SubMessage(name, number) # NoMessage
  <2> DEFINE m == Descriptors[name]
             i == Lookup(m, number)
  <2>1. /\ name # NoMessage /\ i # NotFound
        /\ m.fields[i].type \notin Scalars
        /\ SubMessage(name, number) = m.fields[i].type
    BY <1>2 DEF SubMessage, FieldOf
  <2>2. WellFormedTable(m) /\ name \in Names
    BY <2>1, TablesWellFormed DEF Reachable
  <2>3. LookupIs(m, number, i)
    BY <2>2, LookupExact
  <2> HIDE DEF m, i
  <2>4. i \in DOMAIN m.fields
    BY <2>1, <2>3 DEF LookupIs
  <2>5. m.fields[i].type \in Names
    BY <2>1, <2>2, <2>4 DEF WellFormedTable
  <2> QED
    BY <2>1, <2>2, <2>5 DEF Reachable, m, i
<1> QED
  BY <1>1, <1>2

(* The messages along a path.                                              *)
Along(at, root, path) ==
  /\ at \in [0 .. Len(path) -> Reachable] /\ at[0] = root
  /\ \A k \in 1 .. Len(path) : at[k] = SubMessage(at[k - 1], path[k])

LEMMA AlongDefined ==
  ASSUME NEW root \in Names, NEW path \in Seq(Nat)
  PROVE  \E at : Along(at, root, path) /\ MessageAt(root, path) = at[Len(path)]
<1> DEFINE n == Len(path)
           V == Reachable
           Def(f) == [k \in 0 .. n |-> IF k = 0 THEN root ELSE SubMessage(f[k - 1], path[k])]
           at == CHOOSE f : f = Def(f)
           E == [k \in 1 .. n |-> [v \in V |-> SubMessage(v, path[k])]]
<1>1. MessageAt(root, path) = at[n]
  BY DEF MessageAt
<1>2. n \in Nat /\ root \in V /\ \A k \in 1 .. n : path[k] \in Nat
  BY DEF Reachable
<1>3. ASSUME NEW k \in 1 .. n, NEW v \in V PROVE SubMessage(v, path[k]) \in V
  BY <1>2, SubMessageType
<1>4. E \in Passes(1, n, V)
  BY <1>3 DEF Passes
<1>5. \A k \in 1 .. n, v \in V : E[k][v] = SubMessage(v, path[k])
  OBVIOUS
<1> HIDE DEF E, V, n
<1>6. PICK f \in [0 .. n -> V] : Continues(f, n, E, root)
  BY <1>2, <1>4, FoldDefined
<1>7. ASSUME NEW k \in 1 .. n PROVE f[k] = SubMessage(f[k - 1], path[k])
  <2>1. k - 1 \in 0 .. n
    BY <1>2
  <2>2. f[k - 1] \in V
    BY <2>1
  <2> QED
    BY <1>5, <1>6, <2>2 DEF Continues
<1>8. f = Def(f)
  <2>1. \A k \in 0 .. n : k = 0 \/ k \in 1 .. n
    BY <1>2
  <2> QED
    BY <1>6, <1>7, <2>1 DEF Continues
<1>9. at = Def(at)
  BY <1>8
<1> HIDE DEF at
<1>10. at[0] = root /\ \A k \in 1 .. n : at[k] = SubMessage(at[k - 1], path[k])
  BY <1>2, <1>9
<1>11. \A k \in 0 .. n : at[k] \in V
  <2> DEFINE S == {k \in Nat : at[k] \in V}
  <2>1. 0 \in S
    BY <1>2, <1>10
  <2>2. ASSUME NEW k \in 1 .. n, k - 1 \in S PROVE k \in S
    BY <1>2, <1>3, <1>10, <2>2
  <2>3. \A k \in 0 .. n : k \in S
    <3> HIDE DEF S
    <3> QED
      BY <1>2, <2>1, <2>2, IntervalInduction
  <2> QED
    BY <2>3
<1>12. at \in [0 .. n -> V]
  <2>1. Def(at) \in [0 .. n -> V]
    <3>1. \A k \in 0 .. n : Def(at)[k] \in V
      BY <1>9, <1>11
    <3> QED
      BY <3>1
  <2> QED
    BY <1>9, <2>1
<1> QED
  BY <1>1, <1>10, <1>12 DEF V, n, Along

(* A prefix of a path goes through the same messages.                      *)
LEMMA AlongPrefix ==
  ASSUME NEW root \in Names, NEW path \in Seq(Nat), NEW at, Along(at, root, path),
         NEW k \in 0 .. Len(path)
  PROVE  MessageAt(root, SubSeq(path, 1, k)) = at[k]
<1> DEFINE p == SubSeq(path, 1, k)
<1>1. p \in Seq(Nat) /\ Len(p) = k /\ \A j \in 1 .. k : p[j] = path[j]
  OBVIOUS
<1> HIDE DEF p
<1>2. PICK b : Along(b, root, p) /\ MessageAt(root, p) = b[Len(p)]
  BY <1>1, AlongDefined
<1> DEFINE S == {j \in Nat : b[j] = at[j]}
<1>3. 0 \in S
  BY <1>2 DEF Along
<1>4. ASSUME NEW j \in 1 .. k, j - 1 \in S PROVE j \in S
  <2>1. b[j] = SubMessage(b[j - 1], p[j])
    BY <1>1, <1>2 DEF Along
  <2>2. at[j] = SubMessage(at[j - 1], path[j])
    BY DEF Along
  <2> QED
    BY <1>1, <1>4, <2>1, <2>2
<1>5. k \in Nat /\ k \in 0 .. k
  OBVIOUS
<1>6. k \in S
  <2> HIDE DEF S
  <2> QED
    BY <1>3, <1>4, <1>5, IntervalInduction
<1> QED
  BY <1>1, <1>2, <1>6 DEF p

(* Whoever arrives at a field has come through messages with such fields.  *)
LEMMA KnownAlong ==
  ASSUME NEW root \in Names, NEW path \in Seq(Nat), path # <<>>, Known(root, path),
         NEW at, Along(at, root, path), NEW k \in 1 .. Len(path)
  PROVE  at[k - 1] \in Names /\ Lookup(Descriptors[at[k - 1]], path[k]) # NotFound
<1> DEFINE n == Len(path)
           m == n - 1
<1>1. n \in Nat /\ m \in Nat /\ m \in 0 .. n /\ n = m + 1 /\ \A j \in 1 .. n : path[j] \in Nat
  OBVIOUS
<1>2. at[m] # NoMessage /\ Lookup(Descriptors[at[m]], path[n]) # NotFound
  <2>1. MessageAt(root, SubSeq(path, 1, n - 1)) = at[m]
    BY <1>1, AlongPrefix
  <2> QED
    BY <2>1 DEF Known
<1> HIDE DEF m, n
<1> DEFINE S == {d \in Nat : d <= m => at[m - d] # NoMessage}
<1>3. 0 \in S
  BY <1>1, <1>2
<1>4. ASSUME NEW j \in 1 .. n PROVE at[j - 1] \in Reachable /\ at[j] = SubMessage(at[j - 1], path[j])
  BY <1>1 DEF Along, n
<1>5. ASSUME NEW d \in 1 .. m, d - 1 \in S PROVE d \in S
  <2> DEFINE j == m - d + 1
  <2>1. j \in 1 .. n /\ m - (d - 1) = j /\ j - 1 = m - d /\ d - 1 <= m
    BY <1>1
  <2>2. at[j] # NoMessage
    BY <1>1, <1>5, <2>1
  <2> HIDE DEF j
  <2>3. at[j - 1] # NoMessage
    <3>1. at[j - 1] \in Reachable /\ path[j] \in Nat /\ SubMessage(at[j - 1], path[j]) # NoMessage
      BY <1>1, <1>4, <2>1, <2>2
    <3>2. at[j - 1] # NoMessage
      BY <3>1 DEF SubMessage
    <3> QED
      BY <3>2
  <2> QED
    BY <1>1, <2>1, <2>3
<1>6. \A d \in 0 .. m : d \in S
  <2> HIDE DEF S
  <2> QED
    BY <1>1, <1>3, <1>5, IntervalInduction
<1>7. \A j \in 0 .. m : at[j] # NoMessage
  <2> SUFFICES ASSUME NEW j \in 0 .. m PROVE at[j] # NoMessage
    OBVIOUS
  <2>1. m - j \in 0 .. m /\ m - (m - j) = j /\ m - j <= m
    BY <1>1
  <2>2. m - j \in S
    BY <1>6, <2>1
  <2> QED
    BY <2>1, <2>2
<1>8. k \in 1 .. n /\ k - 1 \in 0 .. m
  BY <1>1 DEF n
<1>9. at[k - 1] \in Names
  BY <1>4, <1>7, <1>8 DEF Reachable
<1>10. CASE k = n
  BY <1>1, <1>2, <1>9, <1>10
<1>11. CASE k # n
  <2>1. k \in 0 .. m
    BY <1>1, <1>8, <1>11
  <2>2. SubMessage(at[k - 1], path[k]) # NoMessage
    BY <1>4, <1>7, <1>8, <2>1
  <2>3. at[k - 1] \in Reachable /\ path[k] \in Nat
    BY <1>1, <1>4, <1>8
  <2>4. Lookup(Descriptors[at[k - 1]], path[k]) # NotFound
    BY <2>2, <2>3, SubMessageType
  <2> QED
    BY <1>9, <2>4
<1> QED
  BY <1>10, <1>11

(* The name of a field leads back to its number.                           *)
LEMMA NumberOfField ==
  ASSUME NEW name \in Names, NEW number \in Nat, Lookup(Descriptors[name], number) # NotFound
  PROVE  NumberOf(name, FieldOf(name, number).name) = number
<1> DEFINE m == Descriptors[name]
           i == Lookup(m, number)
           c == CHOOSE j \in DOMAIN m.fields : m.fields[j].name = m.fields[i].name
<1>1. WellFormedTable(m)
  BY TablesWellFormed
<1>2. LookupIs(m, number, i)
  BY <1>1, LookupExact
<1>3. i \in DOMAIN m.fields /\ m.fields[i].number = number
  BY <1>2 DEF LookupIs
<1>4. NumberOf(name, FieldOf(name, number).name) = m.fields[c].number
  BY DEF NumberOf, FieldOf
<1> HIDE DEF m, i
<1>5. c \in DOMAIN m.fields /\ m.fields[c].name = m.fields[i].name
  BY <1>3
<1> HIDE DEF c
<1>6. c = i
  BY <1>1, <1>3, <1>5 DEF WellFormedTable
<1> QED
  BY <1>3, <1>4, <1>6

(* Packing the members that a path of numbers was unpacked into gives the  *)
(* path again.                                                             *)
LEMMA NumbersOfMembers ==
  ASSUME NEW root \in Names, NEW path \in Seq(Nat), path # <<>>, Known(root, path)
  PROVE  Numbers(root, Members(root, path)) = path
<1> DEFINE n == Len(path)
           q == Members(root, path)
<1>1. n \in Nat /\ n > 0 /\ \A j \in 1 .. n : path[j] \in Nat
  OBVIOUS
<1>2. PICK at : Along(at, root, path)
  BY AlongDefined
<1>3. ASSUME NEW k \in 1 .. n
      PROVE  /\ at[k - 1] \in Names /\ q[k] = FieldOf(at[k - 1], path[k]).name
             /\ NumberOf(at[k - 1], q[k]) = path[k]
             /\ at[k] = SubMessage(at[k - 1], path[k])
  <2>1. at[k - 1] \in Names /\ Lookup(Descriptors[at[k - 1]], path[k]) # NotFound
    BY <1>2, KnownAlong
  <2>2. k - 1 \in 0 .. Len(path)
    BY <1>1
  <2>3. MessageAt(root, SubSeq(path, 1, k - 1)) = at[k - 1]
    <3> DEFINE j == k - 1
    <3>1. j \in 0 .. Len(path)
      BY <2>2
    <3> HIDE DEF j
    <3>2. MessageAt(root, SubSeq(path, 1, j)) = at[j]
      BY <1>2, <3>1, AlongPrefix
    <3> QED
      BY <3>2 DEF j
  <2>4. q[k] = FieldOf(at[k - 1], path[k]).name
    BY <2>3 DEF Members
  <2>5. NumberOf(at[k - 1], q[k]) = path[k]
    BY <1>1, <2>1, <2>4, NumberOfField
  <2> QED
    BY <1>2, <2>1, <2>4, <2>5 DEF Along
<1>4. Len(q) = n
  <2>1. q \in [1 .. n -> {FieldOf(MessageAt(root, SubSeq(path, 1, k - 1)), path[k]).name : k \in 1 .. n}]
    BY DEF Members
  <2> QED
    BY <1>1, <2>1
<1> DEFINE c == [message |-> root, path |-> <<>>]
           Step(s, k) == [message |-> SubMessage(s.message, NumberOf(s.message, q[k])),
                          path |-> Append(s.path, NumberOf(s.message, q[k]))]
           Def(f) == [k \in 0 .. Len(q) |-> IF k = 0 THEN c ELSE Step(f[k - 1], k)]
           table == CHOOSE f : f = Def(f)
           g == [k \in 0 .. n |-> [message |-> at[k], path |-> SubSeq(path, 1, k)]]
<1>5. Numbers(root, q) = table[Len(q)].path
  BY DEF Numbers
<1> HIDE DEF q
<1>6. g[0] = c
  <2>1. SubSeq(path, 1, 0) = <<>>
    OBVIOUS
  <2> QED
    BY <1>1, <1>2, <2>1 DEF Along
<1>7. ASSUME NEW k \in 1 .. n PROVE g[k] = Step(g[k - 1], k)
  <2>1. g[k - 1] = [message |-> at[k - 1], path |-> SubSeq(path, 1, k - 1)]
    BY <1>1
  <2>2. SubSeq(path, 1, k) = Append(SubSeq(path, 1, k - 1), path[k])
    BY <1>1
  <2>3. g[k] = [message |-> at[k], path |-> SubSeq(path, 1, k)]
    BY <1>1
  <2>4. /\ NumberOf(at[k - 1], q[k]) = path[k]
        /\ at[k] = SubMessage(at[k - 1], path[k])
    BY <1>3
  <2> HIDE DEF g
  <2>5. g[k - 1].message = at[k - 1] /\ g[k - 1].path = SubSeq(path, 1, k - 1)
    BY <2>1
  <2> QED
    BY <2>2, <2>3, <2>4, <2>5
<1> HIDE DEF g, c, Step
<1>8. ASSUME NEW k \in 0 .. n PROVE k = 0 \/ k \in 1 .. n
  BY <1>1
<1>9. g = Def(g)
  <2>1. \A k \in 0 .. n : g[k] = IF k = 0 THEN c ELSE Step(g[k - 1], k)
    BY <1>1, <1>6, <1>7, <1>8
  <2> QED
    BY <1>4, <2>1 DEF g
<1>10. table = Def(table)
  BY <1>9
<1> HIDE DEF table
<1> DEFINE S == {k \in Nat : table[k] = g[k]}
<1>11. 0 \in S
  BY <1>1, <1>4, <1>6, <1>10
<1>12. ASSUME NEW k \in 1 .. n, k - 1 \in S PROVE k \in S
  <2>1. k \in 0 .. n /\ k # 0
    BY <1>1
  <2>2. table[k] = Step(table[k - 1], k)
    BY <1>4, <1>10, <2>1
  <2>3. table[k - 1] = g[k - 1] /\ k \in Nat
    BY <1>1, <1>12
  <2> QED
    BY <1>7, <2>2, <2>3
<1>13. n \in S
  <2> HIDE DEF S, n
  <2>1. n \in 0 .. n
    BY <1>1
  <2> QED
    BY <1>1, <1>11, <1>12, <2>1, IntervalInduction
<1>14. g[n].path = path
  <2>1. SubSeq(path, 1, n) = path
    OBVIOUS
  <2> QED
    BY <1>1, <2>1 DEF g
<1> QED
  BY <1>4, <1>5, <1>13, <1>14 DEF q

(* A field of the table is found by its number.                            *)
LEMMA FieldFound ==
  ASSUME NEW name \in Names, NEW number \in Nat, NEW i \in DOMAIN Descriptors[name].fields,
         Descriptors[name].fields[i].number = number
  PROVE  /\ Lookup(Descriptors[name], number) = i /\ i # NotFound
         /\ FieldOf(name, number) = Descriptors[name].fields[i]
<1> DEFINE m == Descriptors[name]
           c == Lookup(m, number)
<1>1. WellFormedTable(m)
  BY TablesWellFormed
<1>2. LookupIs(m, number, c)
  BY <1>1, LookupExact
<1>3. i \in DOMAIN m.fields /\ m.fields[i].number = number
  OBVIOUS
<1> HIDE DEF m, c
<1>4. c \in DOMAIN m.fields /\ c # NotFound /\ m.fields[c].number = number
  BY <1>2, <1>3 DEF LookupIs
<1>5. c = i
  <2>1. m.fields # <<>>
    BY <1>3
  <2>2. PICK first \in Nat :
          /\ DOMAIN m.fields = 1 .. Len(m.fields) /\ Len(m.fields) \in Nat
          /\ \A k \in 1 .. Len(m.fields) : m.fields[k].number = first + k - 1
    BY <1>1, <2>1 DEF WellFormedTable
  <2> QED
    BY <1>3, <1>4, <2>2
<1> QED
  BY <1>4, <1>5 DEF FieldOf, m, c

(* A path that is one field longer.                                        *)
LEMMA PathStep ==
  ASSUME NEW root \in Names, NEW path \in Seq(Nat), NEW name \in Names, MessageAt(root, path) = name,
         NEW i \in DOMAIN Descriptors[name].fields, NEW number \in Nat,
         Descriptors[name].fields[i].number = number
  PROVE  /\ Known(root, Append(path, number))
         /\ MessageAt(root, Append(path, number))
              = IF Descriptors[name].fields[i].type \in Scalars THEN NoMessage
                ELSE Descriptors[name].fields[i].type
         /\ Members(root, Append(path, number))
              = Append(Members(root, path), Descriptors[name].fields[i].name)
<1> DEFINE f == Descriptors[name].fields[i]
           n == Len(path)
           longer == Append(path, number)
<1>1. /\ n \in Nat /\ longer \in Seq(Nat) /\ Len(longer) = n + 1 /\ longer[n + 1] = number
      /\ \A k \in 1 .. n : longer[k] = path[k]
      /\ \A k \in 0 .. n : SubSeq(longer, 1, k) = SubSeq(path, 1, k)
      /\ SubSeq(path, 1, n) = path
  OBVIOUS
<1>2. name # NoMessage
  <2>1. NoMessage \notin Names
    BY DEF Names, Descriptors, NoMessage
  <2> QED
    BY <2>1
<1>3. /\ Lookup(Descriptors[name], number) = i /\ i # NotFound
      /\ FieldOf(name, number) = f
  BY FieldFound
<1>4. SubSeq(longer, 1, n) = path
  <2>1. n \in 0 .. n
    BY <1>1
  <2> QED
    BY <1>1, <2>1
<1> HIDE DEF f, n, longer
<1>5. Known(root, longer)
  <2>1. Len(longer) - 1 = n
    BY <1>1
  <2> QED
    BY <1>1, <1>2, <1>3, <1>4, <2>1 DEF Known
<1>6. MessageAt(root, longer) = SubMessage(name, number)
  <2>1. PICK at : Along(at, root, longer) /\ MessageAt(root, longer) = at[Len(longer)]
    BY <1>1, AlongDefined
  <2>2. n \in 0 .. Len(longer) /\ n + 1 \in 1 .. Len(longer) /\ n + 1 - 1 = n
    BY <1>1
  <2>3. at[n] = name
    <3>1. MessageAt(root, SubSeq(longer, 1, n)) = at[n]
      BY <1>1, <2>1, <2>2, AlongPrefix
    <3> QED
      BY <1>4, <3>1
  <2>4. at[n + 1] = SubMessage(at[n + 1 - 1], longer[n + 1])
    BY <2>1, <2>2 DEF Along
  <2> QED
    BY <1>1, <2>1, <2>2, <2>3, <2>4
<1>7. SubMessage(name, number) = IF f.type \in Scalars THEN NoMessage ELSE f.type
  BY <1>2, <1>3 DEF SubMessage
<1>8. Members(root, longer) = Append(Members(root, path), f.name)
  <2> DEFINE q == Members(root, path)
             M(k) == FieldOf(MessageAt(root, SubSeq(path, 1, k - 1)), path[k]).name
             T == {M(k) : k \in 1 .. n}
  <2>1. q = [k \in 1 .. n |-> M(k)]
    BY DEF Members, n
  <2>2. q \in Seq(T) /\ Len(q) = n
    <3>1. q \in [1 .. n -> T]
      BY <2>1
    <3> HIDE DEF T, q
    <3> QED
      BY <1>1, <3>1
  <2>3. Members(root, longer)
          = [k \in 1 .. n + 1 |-> FieldOf(MessageAt(root, SubSeq(longer, 1, k - 1)), longer[k]).name]
    BY <1>1 DEF Members
  <2>4. ASSUME NEW k \in 1 .. n PROVE Members(root, longer)[k] = q[k]
    <3>1. k \in 1 .. n + 1 /\ SubSeq(longer, 1, k - 1) = SubSeq(path, 1, k - 1) /\ longer[k] = path[k]
      BY <1>1
    <3>2. Members(root, longer)[k] = FieldOf(MessageAt(root, SubSeq(longer, 1, k - 1)), longer[k]).name
      BY <2>3, <3>1
    <3>3. q[k] = M(k)
      BY <2>1
    <3> HIDE DEF q
    <3> QED
      BY <3>1, <3>2, <3>3
  <2>5. Members(root, longer)[n + 1] = f.name
    <3> DEFINE k == n + 1
    <3>1. k \in 1 .. n + 1 /\ SubSeq(longer, 1, k - 1) = path /\ longer[k] = number
      BY <1>1, <1>4
    <3> HIDE DEF k
    <3>2. Members(root, longer)[k] = FieldOf(MessageAt(root, SubSeq(longer, 1, k - 1)), longer[k]).name
      BY <2>3, <3>1
    <3>3. Members(root, longer)[k] = f.name
      BY <1>3, <3>1, <3>2
    <3> QED
      BY <3>3 DEF k
  <2> DEFINE r == Members(root, longer)
             s == Append(q, f.name)
  <2>8. DOMAIN r = 1 .. n + 1 /\ r = [k \in 1 .. n + 1 |-> r[k]]
    BY <2>3
  <2> HIDE DEF q, r, T
  <2>6. s = [k \in 1 .. n + 1 |-> IF k = n + 1 THEN f.name ELSE q[k]]
    BY <1>1, <2>2
  <2>7. \A k \in 1 .. n + 1 : k = n + 1 \/ k \in 1 .. n
    BY <1>1
  <2>9. ASSUME NEW k \in 1 .. n + 1 PROVE r[k] = IF k = n + 1 THEN f.name ELSE q[k]
    BY <1>1, <2>4, <2>5, <2>7 DEF r
  <2> QED
    BY <2>6, <2>8, <2>9 DEF q, r
<1> QED
  BY <1>5, <1>6, <1>7, <1>8 DEF f, longer

LEMMA PathStart ==
  ASSUME NEW root \in Names
  PROVE  MessageAt(root, <<>>) = root /\ Members(root, <<>>) = <<>>
<1> DEFINE p == <<>>
<1>1. p \in Seq(Nat) /\ Len(p) = 0
  OBVIOUS
<1> HIDE DEF p
<1>2. PICK at : Along(at, root, p) /\ MessageAt(root, p) = at[Len(p)]
  BY <1>1, AlongDefined
<1>3. MessageAt(root, p) = root
  BY <1>1, <1>2 DEF Along
<1>4. Members(root, <<>>) = <<>>
  BY DEF Members
<1> QED
  BY <1>3, <1>4 DEF p

(* What is unpacked at the members of a path is what the body has at the   *)
(* path.                                                                   *)
LEMMA UnpackedAt ==
  ASSUME NEW root \in Names, NEW body, \A p \in DOMAIN body : p \in Seq(Nat) /\ p # <<>>,
         NEW path \in Seq(Nat), path # <<>>, Known(root, path), NEW q, Members(root, path) = q
  PROVE  /\ q \in DOMAIN Unpacked(root, body) <=> path \in DOMAIN body
         /\ path \in DOMAIN body => Unpacked(root, body)[q] = body[path]
<1> DEFINE known == {p \in DOMAIN body : Known(root, p)}
           c == CHOOSE p \in known : Members(root, p) = q
<1>1. /\ DOMAIN Unpacked(root, body) = {Members(root, p) : p \in known}
      /\ q \in {Members(root, p) : p \in known} => Unpacked(root, body)[q] = body[c]
  BY DEF Unpacked
<1>2. ASSUME NEW p \in known, Members(root, p) = q PROVE p = path
  <2>1. Numbers(root, Members(root, p)) = p
    BY NumbersOfMembers
  <2>2. Numbers(root, Members(root, path)) = path
    BY NumbersOfMembers
  <2> QED
    BY <1>2, <2>1, <2>2
<1>3. path \in DOMAIN body => path \in known
  OBVIOUS
<1> HIDE DEF known
<1>4. q \in {Members(root, p) : p \in known} => path \in known
  BY <1>2
<1>5. path \in known => c = path
  <2> SUFFICES ASSUME path \in known PROVE c = path
    OBVIOUS
  <2>1. c \in known /\ Members(root, c) = q
    OBVIOUS
  <2> QED
    BY <1>2, <2>1
<1>6. path \in known => path \in DOMAIN body
  BY DEF known
<1> HIDE DEF c
<1> QED
  BY <1>1, <1>3, <1>4, <1>5, <1>6

-----------------------------------------------------------------------------
(* Powers                                                                  *)

Power(b, n) ==
  LET power[k \in 0 .. n] == IF k = 0 THEN 1 ELSE b * power[k - 1]
  IN power[n]

Powers(p, b, n) ==
  p \in [0 .. n -> Nat] /\ p[0] = 1 /\ \A k \in 1 .. n : p[k] = b * p[k - 1]

LEMMA PowerDefined ==
  ASSUME NEW b \in Nat, NEW n \in Nat
  PROVE  \E p : Powers(p, b, n) /\ Power(b, n) = p[n]
<1> DEFINE one == 1
           Def(f) == [k \in 0 .. n |-> IF k = 0 THEN 1 ELSE b * f[k - 1]]
           p == CHOOSE f : f = Def(f)
           E == [k \in 1 .. n |-> [v \in Nat |-> b * v]]
<1>1. Power(b, n) = p[n]
  BY DEF Power
<1>2. one \in Nat /\ E \in Passes(1, n, Nat)
  <2>1. \A v \in Nat : b * v \in Nat
    OBVIOUS
  <2> QED
    BY <2>1 DEF Passes
<1>3. \A k \in 1 .. n, v \in Nat : E[k][v] = b * v
  OBVIOUS
<1> HIDE DEF E, one
<1>4. PICK f \in [0 .. n -> Nat] : Continues(f, n, E, one)
  BY <1>2, FoldDefined
<1>5. f[0] = 1 /\ \A k \in 1 .. n : f[k] = b * f[k - 1]
  <2>1. \A k \in 1 .. n : k - 1 \in 0 .. n
    OBVIOUS
  <2>2. \A k \in 1 .. n : f[k - 1] \in Nat
    BY <2>1
  <2> QED
    BY <1>3, <1>4, <2>2 DEF Continues, one
<1>6. f = Def(f)
  <2>1. \A k \in 0 .. n : k = 0 \/ k \in 1 .. n
    OBVIOUS
  <2> QED
    BY <1>5, <2>1
<1>7. p = Def(p)
  BY <1>6
<1> HIDE DEF p
<1>8. p[0] = 1 /\ \A k \in 1 .. n : p[k] = b * p[k - 1]
  BY <1>7
<1>9. \A k \in 0 .. n : p[k] \in Nat
  <2> DEFINE S == {k \in Nat : p[k] \in Nat}
  <2>1. 0 \in S
    BY <1>8
  <2>2. ASSUME NEW k \in 1 .. n, k - 1 \in S PROVE k \in S
    <3>1. p[k - 1] \in Nat /\ p[k] = b * p[k - 1]
      BY <1>8, <2>2
    <3> QED
      BY <3>1
  <2>3. \A k \in 0 .. n : k \in S
    <3> HIDE DEF S
    <3> QED
      BY <2>1, <2>2, IntervalInduction
  <2> QED
    BY <2>3
<1>10. p \in [0 .. n -> Nat]
  <2>1. Def(p) \in [0 .. n -> Nat]
    <3>1. \A k \in 0 .. n : Def(p)[k] \in Nat
      BY <1>7, <1>9
    <3> QED
      BY <3>1
  <2> QED
    BY <1>7, <2>1
<1> QED
  BY <1>1, <1>8, <1>10 DEF Powers

(* Two of them agree as far as both go.                                    *)
LEMMA PowersAgree ==
  ASSUME NEW b \in Nat, NEW m \in Nat, NEW n \in Nat, m <= n, NEW p, Powers(p, b, n)
  PROVE  Power(b, m) = p[m]
<1>1. PICK q : Powers(q, b, m) /\ Power(b, m) = q[m]
  BY PowerDefined
<1> DEFINE S == {j \in Nat : q[j] = p[j]}
<1>2. 0 \in S
  BY <1>1 DEF Powers
<1>3. ASSUME NEW j \in 1 .. m, j - 1 \in S PROVE j \in S
  <2>1. q[j] = b * q[j - 1] /\ p[j] = b * p[j - 1]
    BY <1>1 DEF Powers
  <2> QED
    BY <1>3, <2>1
<1>4. m \in S
  <2>1. m \in 0 .. m
    OBVIOUS
  <2> HIDE DEF S
  <2> QED
    BY <1>2, <1>3, <2>1, IntervalInduction
<1> QED
  BY <1>1, <1>4

LEMMA PowerStep ==
  ASSUME NEW b \in Nat, NEW n \in Nat
  PROVE  Power(b, 0) = 1 /\ Power(b, n) \in Nat /\ Power(b, n + 1) = b * Power(b, n)
<1>1. PICK p : Powers(p, b, n + 1) /\ Power(b, n + 1) = p[n + 1]
  BY PowerDefined
<1>2. Power(b, n) = p[n]
  BY <1>1, PowersAgree
<1>3. Power(b, 0) = p[0]
  BY <1>1, PowersAgree
<1>4. p[0] = 1 /\ p[n] \in Nat /\ p[n + 1] = b * p[n]
  <2>1. n + 1 \in 1 .. n + 1 /\ n \in 0 .. n + 1 /\ n + 1 - 1 = n
    OBVIOUS
  <2> QED
    BY <1>1, <2>1 DEF Powers
<1> QED
  BY <1>1, <1>2, <1>3, <1>4

LEMMA PowerPositive ==
  ASSUME NEW b \in Nat \ {0}, NEW n \in Nat
  PROVE  Power(b, n) >= 1
<1> DEFINE S == {k \in Nat : Power(b, k) >= 1}
<1>1. 0 \in S
  BY PowerStep
<1>2. ASSUME NEW k \in Nat, k \in S PROVE k + 1 \in S
  <2>1. Power(b, k) \in Nat /\ Power(b, k) >= 1 /\ Power(b, k + 1) = b * Power(b, k)
    BY <1>2, PowerStep
  <2>2. \A x \in Nat : x >= 1 => b * x >= 1
    OBVIOUS
  <2> QED
    BY <2>1, <2>2
<1>3. Nat \subseteq S
  <2> HIDE DEF S
  <2> QED
    BY <1>1, <1>2, SetInduction
<1> QED
  BY <1>3

LEMMA PowerSum ==
  ASSUME NEW b \in Nat, NEW m \in Nat, NEW n \in Nat
  PROVE  Power(b, m + n) = Power(b, m) * Power(b, n)
<1> DEFINE S == {k \in Nat : Power(b, m + k) = Power(b, m) * Power(b, k)}
<1>1. 0 \in S
  <2> DEFINE x == Power(b, m)
             y == Power(b, 0)
  <2>1. y = 1 /\ x \in Nat /\ m + 0 = m
    BY PowerStep
  <2>2. Power(b, m + 0) = x
    BY <2>1
  <2>3. x = x * y
    <3> HIDE DEF x, y
    <3> QED
      BY <2>1
  <2> QED
    BY <2>2, <2>3
<1>2. ASSUME NEW k \in Nat, k \in S PROVE k + 1 \in S
  <2>0. m + k \in Nat
    OBVIOUS
  <2>1. /\ Power(b, k) \in Nat /\ Power(b, k + 1) = b * Power(b, k)
        /\ Power(b, m) \in Nat /\ Power(b, (m + k) + 1) = b * Power(b, m + k)
    BY <2>0, PowerStep
  <2>2. m + (k + 1) = (m + k) + 1
    OBVIOUS
  <2>3. \A x, y \in Nat : b * (x * y) = x * (b * y)
    OBVIOUS
  <2> QED
    BY <1>2, <2>1, <2>2, <2>3
<1>3. n \in S
  <2> HIDE DEF S
  <2> QED
    BY <1>1, <1>2, SetInduction
<1> QED
  BY <1>3

LEMMA PowerProduct ==
  ASSUME NEW b \in Nat, NEW m \in Nat, NEW n \in Nat
  PROVE  Power(b, m * n) = Power(Power(b, m), n)
<1> DEFINE c == Power(b, m)
           S == {k \in Nat : Power(b, m * k) = Power(c, k)}
<1>1. c \in Nat
  BY PowerStep
<1> HIDE DEF c
<1>2. 0 \in S
  <2>1. m * 0 = 0 /\ Power(b, 0) = 1 /\ Power(c, 0) = 1
    BY <1>1, PowerStep
  <2> QED
    BY <2>1
<1>3. ASSUME NEW k \in Nat, k \in S PROVE k + 1 \in S
  <2>1. m * k \in Nat /\ m * (k + 1) = m * k + m
    OBVIOUS
  <2>2. Power(b, m * k + m) = Power(b, m * k) * c
    BY <2>1, PowerSum DEF c
  <2>3. Power(c, k) \in Nat /\ Power(c, k + 1) = c * Power(c, k)
    BY <1>1, PowerStep
  <2>4. \A x \in Nat : x * c = c * x
    BY <1>1
  <2> QED
    BY <1>3, <2>1, <2>2, <2>3, <2>4
<1>4. n \in S
  <2> HIDE DEF S
  <2> QED
    BY <1>2, <1>3, SetInduction
<1> QED
  BY <1>4 DEF c

(* A power grows with its base and with its exponent.                      *)
LEMMA PowerGrows ==
  ASSUME NEW a \in Nat, NEW b \in Nat, NEW n \in Nat
  PROVE  /\ a <= b => Power(a, n) <= Power(b, n)
         /\ a < b /\ n > 0 => Power(a, n) < Power(b, n)
<1> DEFINE S == {k \in Nat : /\ a <= b => Power(a, k) <= Power(b, k)
                             /\ a < b /\ k > 0 => Power(a, k) < Power(b, k)}
<1>1. 0 \in S
  <2>1. Power(a, 0) = 1 /\ Power(b, 0) = 1
    BY PowerStep
  <2> QED
    BY <2>1
<1>2. ASSUME NEW k \in Nat, k \in S PROVE k + 1 \in S
  <2> DEFINE x == Power(a, k)
             y == Power(b, k)
  <2>1. x \in Nat /\ y \in Nat /\ Power(a, k + 1) = a * x /\ Power(b, k + 1) = b * y
    BY PowerStep
  <2>2. a <= b => x <= y
    BY <1>2
  <2>3. b > 0 => y > 0
    BY <2>1, PowerPositive
  <2> HIDE DEF x, y
  <2>4. a <= b => a * x <= b * y
    BY <2>1, <2>2
  <2>5. a < b => a * x < b * y
    <3> SUFFICES ASSUME a < b PROVE a * x < b * y
      OBVIOUS
    <3>1. x <= y /\ y > 0
      BY <2>2, <2>3
    <3>2. a * x <= a * y
      BY <2>1, <3>1
    <3>3. a * y < b * y
      BY <2>1, <3>1
    <3> QED
      BY <2>1, <3>2, <3>3
  <2> QED
    BY <2>1, <2>4, <2>5
<1>3. n \in S
  <2> HIDE DEF S
  <2> QED
    BY <1>1, <1>2, SetInduction
<1> QED
  BY <1>3

LEMMA PowerRises ==
  ASSUME NEW b \in Nat \ {0}, NEW m \in Nat, NEW n \in Nat, m <= n
  PROVE  Power(b, m) <= Power(b, n)
<1> DEFINE d == n - m
<1>1. d \in Nat /\ n = m + d
  OBVIOUS
<1>2. Power(b, n) = Power(b, m) * Power(b, d)
  BY <1>1, PowerSum
<1>3. Power(b, m) \in Nat /\ Power(b, d) \in Nat /\ Power(b, d) >= 1
  BY <1>1, PowerStep, PowerPositive
<1>4. \A x, y \in Nat : y >= 1 => x <= x * y
  OBVIOUS
<1> QED
  BY <1>2, <1>3, <1>4

(* Room for numbers of n digits: q digits of one system have room in p of  *)
(* the other, and the length is n * p / q at least.                        *)
LEMMA Room ==
  ASSUME NEW a \in Nat \ {0}, NEW b \in Nat \ {0}, NEW p \in Nat, NEW q \in Nat \ {0},
         NEW n \in Nat, NEW len \in Nat, Power(a, q) <= Power(b, p), p * n <= q * len
  PROVE  Power(a, n) <= Power(b, len)
<1> DEFINE x == Power(a, n)
           y == Power(b, len)
<1>1. x \in Nat /\ y \in Nat
  BY PowerStep
<1>2. Power(a, q * n) = Power(x, q) /\ Power(a, q * n) = Power(Power(a, q), n)
  <2>1. q * n = n * q
    OBVIOUS
  <2>2. Power(a, n * q) = Power(x, q)
    BY PowerProduct
  <2>3. Power(a, q * n) = Power(Power(a, q), n)
    BY PowerProduct
  <2> QED
    BY <2>1, <2>2, <2>3
<1>3. Power(Power(a, q), n) <= Power(Power(b, p), n)
  BY PowerStep, PowerGrows
<1>4. Power(b, p * n) = Power(Power(b, p), n)
  BY PowerProduct
<1>5. Power(b, p * n) <= Power(b, q * len)
  <2>1. p * n \in Nat /\ q * len \in Nat
    OBVIOUS
  <2> QED
    BY <2>1, PowerRises
<1>6. Power(b, q * len) = Power(y, q)
  <2>1. q * len = len * q
    OBVIOUS
  <2>2. Power(b, len * q) = Power(y, q)
    BY PowerProduct
  <2> QED
    BY <2>1, <2>2
<1>7. /\ Power(x, q) \in Nat /\ Power(y, q) \in Nat /\ Power(b, p * n) \in Nat
  <2>1. p * n \in Nat
    OBVIOUS
  <2> QED
    BY <1>1, <2>1, PowerStep
<1>8. Power(x, q) <= Power(y, q)
  BY <1>2, <1>3, <1>4, <1>5, <1>6, <1>7
<1> HIDE DEF x, y
<1>9. ~(y < x)
  <2> SUFFICES ASSUME y < x PROVE FALSE
    OBVIOUS
  <2>1. Power(y, q) < Power(x, q)
    BY <1>1, PowerGrows
  <2> QED
    BY <1>7, <1>8, <2>1
<1>10. x <= y
  BY <1>1, <1>9
<1> QED
  BY <1>10 DEF x, y

(* 256^8 <= 58^11 and 58^71 <= 256^52.                                     *)
LEMMA SmallPowers ==
  /\ Power(256, 8) <= Power(58, 11)
  /\ Power(58, 71) <= Power(256, 52)
<1> DEFINE P(n) == Power(58, n)
           R(n) == Power(256, n)
<1>1. \A n \in Nat : P(0) = 1 /\ P(n) \in Nat /\ P(n + 1) = 58 * P(n)
  BY PowerStep
<1>2. \A n \in Nat : R(0) = 1 /\ R(n) \in Nat /\ R(n + 1) = 256 * R(n)
  BY PowerStep
<1>3. \A m, n \in Nat : P(m + n) = P(m) * P(n) /\ R(m + n) = R(m) * R(n)
  BY PowerSum
<1> HIDE DEF P, R
<1>4. P(1) = 58 /\ R(1) = 256
  <2>1. P(0 + 1) = 58 * P(0) /\ R(0 + 1) = 256 * R(0) /\ P(0) = 1 /\ R(0) = 1
    BY <1>1, <1>2
  <2> QED
    BY <2>1
<1>5. P(2) = 3364
  <2>1. P(1 + 1) = P(1) * P(1)
    BY <1>3
  <2> QED
    BY <2>1, <1>4
<1>6. P(3) = 195112
  <2>1. P(2 + 1) = P(2) * P(1)
    BY <1>3
  <2> QED
    BY <2>1, <1>4, <1>5
<1>7. P(4) = 11316496
  <2>1. P(2 + 2) = P(2) * P(2)
    BY <1>3
  <2> QED
    BY <2>1, <1>5
<1>8. P(7) = 2207984167552
  <2>1. P(4 + 3) = P(4) * P(3)
    BY <1>3
  <2> QED
    BY <2>1, <1>6, <1>7
<1>9. P(8) = 128063081718016
  <2>1. P(4 + 4) = P(4) * P(4)
    BY <1>3
  <2> QED
    BY <2>1, <1>7
<1>10. P(11) = 24986644000165537792
  <2>1. P(8 + 3) = P(8) * P(3)
    BY <1>3
  <2> QED
    BY <2>1, <1>6, <1>9
<1>11. P(16) = 16400152899115243850138976256
  <2>1. P(8 + 8) = P(8) * P(8)
    BY <1>3
  <2> QED
    BY <2>1, <1>9
<1>12. P(32) = 268965015114358137726910587140455987105619365599731777536
  <2>1. P(16 + 16) = P(16) * P(16)
    BY <1>3
  <2> QED
    BY <2>1, <1>11
<1>13. P(64) = 72342179355466901471258927612150153907721848234316445933056526044582001260898145151856420451025374266490194231296
  <2>1. P(32 + 32) = P(32) * P(32)
    BY <1>3
  <2> QED
    BY <2>1, <1>12
<1>14. P(71) = 159730386663078066345306447337161584696769904898410078913243029577507397293846405390982563136983769384625594118558891106107392
  <2>1. P(64 + 7) = P(64) * P(7)
    BY <1>3
  <2> QED
    BY <2>1, <1>8, <1>13
<1>15. R(2) = 65536
  <2>1. R(1 + 1) = R(1) * R(1)
    BY <1>3
  <2> QED
    BY <2>1, <1>4
<1>16. R(4) = 4294967296
  <2>1. R(2 + 2) = R(2) * R(2)
    BY <1>3
  <2> QED
    BY <2>1, <1>15
<1>17. R(8) = 18446744073709551616
  <2>1. R(4 + 4) = R(4) * R(4)
    BY <1>3
  <2> QED
    BY <2>1, <1>16
<1>18. R(16) = 340282366920938463463374607431768211456
  <2>1. R(8 + 8) = R(8) * R(8)
    BY <1>3
  <2> QED
    BY <2>1, <1>17
<1>19. R(32) = 115792089237316195423570985008687907853269984665640564039457584007913129639936
  <2>1. R(16 + 16) = R(16) * R(16)
    BY <1>3
  <2> QED
    BY <2>1, <1>18
<1>20. R(48) = 39402006196394479212279040100143613805079739270465446667948293404245721771497210611414266254884915640806627990306816
  <2>1. R(32 + 16) = R(32) * R(16)
    BY <1>3
  <2> QED
    BY <2>1, <1>18, <1>19
<1>21. R(52) = 169230328010303641331690318856389386196071598838855992136870091590247882556495704531248437872567112920983350278405979725889536
  <2>1. R(48 + 4) = R(48) * R(4)
    BY <1>3
  <2> QED
    BY <2>1, <1>16, <1>20
<1> QED
  BY <1>10, <1>14, <1>17, <1>21 DEF P, R

-----------------------------------------------------------------------------
(* Positional systems                                                      *)

(* The number that digits denote, as the reference of Codecs has it.       *)
Number(digits, base) ==
  LET value[k \in 0 .. Len(digits)] ==
        IF k = 0 THEN 0 ELSE base * value[k - 1] + digits[k]
  IN value[Len(digits)]

(* v[k] is the number that the first k of n digits denote.                 *)
Prefixes(v, s, base, n) ==
  v \in [0 .. n -> Nat] /\ v[0] = 0 /\ \A k \in 1 .. n : v[k] = base * v[k - 1] + s[k]

LEMMA NumberDefined ==
  ASSUME NEW base \in Nat, NEW s \in Seq(Nat)
  PROVE  \E v : Prefixes(v, s, base, Len(s)) /\ Number(s, base) = v[Len(s)]
<1> DEFINE n == Len(s)
           zero == 0
           Def(f) == [k \in 0 .. n |-> IF k = 0 THEN 0 ELSE base * f[k - 1] + s[k]]
           p == CHOOSE f : f = Def(f)
           E == [k \in 1 .. n |-> [v \in Nat |-> base * v + s[k]]]
<1>1. Number(s, base) = p[n]
  BY DEF Number
<1>0. n \in Nat /\ \A k \in 1 .. n : s[k] \in Nat
  OBVIOUS
<1> HIDE DEF n
<1>2. zero \in Nat /\ E \in Passes(1, n, Nat)
  <2>1. \A k \in 1 .. n, v \in Nat : base * v + s[k] \in Nat
    BY <1>0
  <2> QED
    BY <2>1 DEF Passes
<1>3. \A k \in 1 .. n, v \in Nat : E[k][v] = base * v + s[k]
  OBVIOUS
<1> HIDE DEF E, zero
<1>4. PICK f \in [0 .. n -> Nat] : Continues(f, n, E, zero)
  BY <1>0, <1>2, FoldDefined
<1>5. f[0] = 0 /\ \A k \in 1 .. n : f[k] = base * f[k - 1] + s[k]
  <2>1. \A k \in 1 .. n : k - 1 \in 0 .. n
    BY <1>0
  <2>2. \A k \in 1 .. n : f[k - 1] \in Nat
    BY <2>1
  <2> QED
    BY <1>3, <1>4, <2>2 DEF Continues, zero
<1>6. f = Def(f)
  <2>1. \A k \in 0 .. n : k = 0 \/ k \in 1 .. n
    BY <1>0
  <2> QED
    BY <1>5, <2>1
<1>7. p = Def(p)
  BY <1>6
<1> HIDE DEF p
<1>8. p[0] = 0 /\ \A k \in 1 .. n : p[k] = base * p[k - 1] + s[k]
  BY <1>0, <1>7
<1>9. \A k \in 0 .. n : p[k] \in Nat
  <2> DEFINE S == {k \in Nat : p[k] \in Nat}
  <2>1. 0 \in S
    BY <1>8
  <2>2. ASSUME NEW k \in 1 .. n, k - 1 \in S PROVE k \in S
    <3>1. p[k - 1] \in Nat /\ p[k] = base * p[k - 1] + s[k] /\ s[k] \in Nat /\ k \in Nat
      BY <1>0, <1>8, <2>2
    <3>2. \A x, y \in Nat : base * x + y \in Nat
      OBVIOUS
    <3> QED
      BY <3>1, <3>2
  <2>3. \A k \in 0 .. n : k \in S
    <3> HIDE DEF S
    <3> QED
      BY <1>0, <2>1, <2>2, IntervalInduction
  <2> QED
    BY <2>3
<1>10. p \in [0 .. n -> Nat]
  <2>1. Def(p) \in [0 .. n -> Nat]
    <3>1. \A k \in 0 .. n : Def(p)[k] \in Nat
      BY <1>7, <1>9
    <3> QED
      BY <3>1
  <2> QED
    BY <1>7, <2>1
<1> QED
  BY <1>1, <1>8, <1>10 DEF Prefixes, n

(* Two prefixes of the same digits agree.                                  *)
LEMMA PrefixesAgree ==
  ASSUME NEW base \in Nat, NEW n \in Nat, NEW s, NEW v, NEW w,
         Prefixes(v, s, base, n), Prefixes(w, s, base, n)
  PROVE  \A k \in 0 .. n : v[k] = w[k]
<1> DEFINE S == {j \in Nat : v[j] = w[j]}
<1>2. 0 \in S
  BY DEF Prefixes
<1>3. ASSUME NEW j \in 1 .. n, j - 1 \in S PROVE j \in S
  <2>1. v[j] = base * v[j - 1] + s[j] /\ w[j] = base * w[j - 1] + s[j]
    BY DEF Prefixes
  <2> QED
    BY <1>3, <2>1
<1>4. \A k \in 0 .. n : k \in S
  <2> HIDE DEF S
  <2> QED
    BY <1>2, <1>3, IntervalInduction
<1> QED
  BY <1>4

ZerosTo(s, z) == \A k \in 1 .. z : s[k] = 0

(* Zeros in front denote nothing.                                          *)
LEMMA ZeroPrefix ==
  ASSUME NEW base \in Nat, NEW n \in Nat, NEW s, NEW v, Prefixes(v, s, base, n),
         NEW z \in 0 .. n, ZerosTo(s, z)
  PROVE  \A k \in 0 .. z : v[k] = 0
<1> DEFINE S == {j \in Nat : v[j] = 0}
<1>2. 0 \in S
  BY DEF Prefixes
<1>3. ASSUME NEW j \in 1 .. z, j - 1 \in S PROVE j \in S
  <2>1. v[j] = base * v[j - 1] + s[j] /\ s[j] = 0 /\ v[j - 1] = 0
    <3>1. j \in 1 .. n
      OBVIOUS
    <3> QED
      BY <1>3, <3>1 DEF Prefixes, ZerosTo
  <2> QED
    BY <2>1
<1>4. \A k \in 0 .. z : k \in S
  <2> HIDE DEF S
  <2>1. z \in Nat
    OBVIOUS
  <2> QED
    BY <1>2, <1>3, <2>1, IntervalInduction
<1> QED
  BY <1>4

(* What the digits behind z zeros denote is below the power of the base,   *)
(* and at least the power below it if the first of them is not zero.       *)
LEMMA PrefixBounds ==
  ASSUME NEW base \in Nat, base > 0, NEW n \in Nat, NEW s, \A k \in 1 .. n : s[k] \in 0 .. base - 1,
         NEW v, Prefixes(v, s, base, n),
         NEW z \in 0 .. n, ZerosTo(s, z)
  PROVE  \A d \in 0 .. n - z :
           /\ v[z + d] < Power(base, d)
           /\ d > 0 /\ s[z + 1] # 0 => v[z + d] >= Power(base, d - 1)
<1> DEFINE Ok(d) == /\ v[z + d] < Power(base, d)
                    /\ d > 0 /\ s[z + 1] # 0 => v[z + d] >= Power(base, d - 1)
           S == {d \in Nat : Ok(d)}
<1>0. v[z] = 0
  <2>1. z \in 0 .. z
    OBVIOUS
  <2> QED
    BY <2>1, ZeroPrefix
<1>1. 0 \in S
  <2>1. Power(base, 0) = 1 /\ z + 0 = z
    BY PowerStep
  <2> QED
    BY <1>0, <2>1
<1>2. ASSUME NEW d \in 1 .. n - z, d - 1 \in S PROVE d \in S
  <2> DEFINE e == d - 1
             x == v[z + e]
             y == v[z + d]
             c == s[z + d]
             p == Power(base, e)
  <2>1. e \in Nat /\ d = e + 1 /\ z + d \in 1 .. n /\ z + d - 1 = z + e /\ z + e \in 0 .. n
    OBVIOUS
  <2>2. y = base * x + c /\ x \in Nat /\ c \in 0 .. base - 1
    <3>1. v[z + d] = base * v[z + d - 1] + s[z + d] /\ v[z + e] \in Nat
      BY <2>1 DEF Prefixes
    <3>2. s[z + d] \in 0 .. base - 1
      BY <2>1
    <3> QED
      BY <2>1, <3>1, <3>2
  <2>3. p \in Nat /\ Power(base, d) = base * p /\ p >= 1
    <3> HIDE DEF e
    <3>1. Power(base, e) \in Nat /\ Power(base, e + 1) = base * Power(base, e)
      BY <2>1, PowerStep
    <3>2. Power(base, e) >= 1
      BY <2>1, PowerPositive
    <3> QED
      BY <2>1, <3>1, <3>2
  <2>4. x < p
    BY <1>2
  <2>5. y < Power(base, d)
    <3> HIDE DEF x, y, c, p
    <3>1. base * x + base <= base * p
      <4>1. x + 1 <= p
        BY <2>2, <2>3, <2>4
      <4>2. base * (x + 1) <= base * p
        BY <2>2, <2>3, <4>1
      <4> QED
        BY <2>2, <2>3, <4>2
    <3> QED
      BY <2>2, <2>3, <3>1
  <2>6. ASSUME s[z + 1] # 0 PROVE y >= p
    <3>1. CASE e = 0
      <4>1. c # 0 /\ p = 1 /\ x = 0
        BY <1>0, <2>1, <2>6, <3>1, PowerStep
      <4> HIDE DEF x, y, c, p
      <4> QED
        BY <2>2, <4>1
    <3>2. CASE e > 0
      <4> DEFINE q == Power(base, e - 1)
      <4>1. x >= q
        BY <1>2, <2>6, <3>2
      <4>2. q \in Nat /\ p = base * q
        <5>1. e - 1 \in Nat /\ e - 1 + 1 = e
          BY <3>2
        <5>2. Power(base, e - 1 + 1) = base * q /\ q \in Nat
          BY <5>1, PowerStep
        <5> QED
          BY <5>1, <5>2
      <4> HIDE DEF x, y, c, p, q
      <4>3. base * x >= base * q
        BY <2>2, <4>1, <4>2
      <4> QED
        BY <2>2, <4>2, <4>3
    <3> QED
      BY <2>1, <3>1, <3>2
  <2> QED
    BY <2>5, <2>6
<1>3. \A d \in 0 .. n - z : d \in S
  <2>1. n - z \in Nat
    OBVIOUS
  <2> HIDE DEF S
  <2> QED
    BY <1>1, <1>2, <2>1, IntervalInduction
<1> QED
  BY <1>3

(* Digits of the same number of places that denote the same are the same.  *)
LEMMA DigitsUnique ==
  ASSUME NEW base \in Nat, base > 0, NEW n \in Nat, NEW s, NEW t,
         \A k \in 1 .. n : s[k] \in 0 .. base - 1 /\ t[k] \in 0 .. base - 1,
         NEW v, NEW w, Prefixes(v, s, base, n), Prefixes(w, t, base, n), v[n] = w[n]
  PROVE  \A k \in 1 .. n : s[k] = t[k]
<1>1. ASSUME NEW k \in 1 .. n, v[k] = w[k] PROVE s[k] = t[k] /\ v[k - 1] = w[k - 1]
  <2> DEFINE x == v[k - 1]
             y == w[k - 1]
             a == s[k]
             c == t[k]
  <2>1. /\ v[k] = base * x + a /\ w[k] = base * y + c
        /\ x \in Nat /\ y \in Nat /\ a \in 0 .. base - 1 /\ c \in 0 .. base - 1
    <3>1. k - 1 \in 0 .. n
      OBVIOUS
    <3> QED
      BY <3>1 DEF Prefixes
  <2>2. base * x + a = base * y + c
    BY <1>1, <2>1
  <2> HIDE DEF x, y, a, c
  <2>3. a = c
    BY <2>1, <2>2, RemainderUnique
  <2>4. base * x = base * y
    BY <2>1, <2>2, <2>3
  <2>5. x = y
    BY <2>1, <2>4
  <2> QED
    BY <2>3, <2>5 DEF x, y, a, c
<1> DEFINE S == {j \in Nat : v[n - j] = w[n - j]}
<1>2. 0 \in S
  <2>1. n - 0 = n
    OBVIOUS
  <2> QED
    BY <2>1
<1>3. ASSUME NEW j \in 1 .. n, j - 1 \in S PROVE j \in S
  <2> DEFINE k == n - (j - 1)
  <2>1. k \in 1 .. n /\ k - 1 = n - j /\ v[k] = w[k]
    BY <1>3
  <2>2. v[k - 1] = w[k - 1]
    BY <1>1, <2>1
  <2> QED
    BY <2>1, <2>2
<1>4. \A j \in 0 .. n : j \in S
  <2> HIDE DEF S
  <2> QED
    BY <1>2, <1>3, IntervalInduction
<1>5. ASSUME NEW k \in 1 .. n PROVE v[k] = w[k]
  <2>1. n - k \in 0 .. n /\ n - (n - k) = k
    OBVIOUS
  <2>2. n - k \in S
    BY <1>4, <2>1
  <2> QED
    BY <2>1, <2>2
<1> QED
  BY <1>1, <1>5

(* The zeros at the front: as many as there are before the first digit     *)
(* that is another.                                                        *)
LEMMA ZerosCounted ==
  ASSUME NEW s \in Seq(Nat), NEW z, z = LeadingZeros(s)
  PROVE  /\ z \in 0 .. Len(s)
         /\ ZerosTo(s, z)
         /\ z < Len(s) => s[z + 1] # 0
<1> DEFINE n == Len(s)
           Def(f) == [k \in 0 .. n |-> IF k < n /\ s[k + 1] = 0 THEN f[k + 1] ELSE k]
           p == CHOOSE f : f = Def(f)
           E == [k \in 0 .. n |-> [v \in Nat |-> IF k < n /\ s[k + 1] = 0 THEN v ELSE k]]
           zero == 0
           one == 1
<1>1. z = p[0]
  BY DEF LeadingZeros
<1>2. n \in Nat
  OBVIOUS
<1> HIDE DEF n
<1>3. p = Def(p)
  <2>1. zero \in Nat /\ one \in Nat /\ one > 0 /\ E \in Passes(zero, n, Nat)
    <3>1. \A k \in 0 .. n, v \in Nat : (IF k < n /\ s[k + 1] = 0 THEN v ELSE k) \in Nat
      BY <1>2
    <3> QED
      BY <3>1 DEF Passes
  <2>2. \A k \in 0 .. n, v \in Nat : E[k][v] = IF k < n /\ s[k + 1] = 0 THEN v ELSE k
    OBVIOUS
  <2>3. zero = 0 /\ one = 1
    OBVIOUS
  <2> HIDE DEF E, zero, one
  <2>4. PICK f \in [zero .. n -> Nat] : Follows(f, zero, n, one, E, zero)
    BY <1>2, <2>1, LoopDefined
  <2>5. ASSUME NEW k \in 0 .. n PROVE f[k] = IF k < n /\ s[k + 1] = 0 THEN f[k + 1] ELSE k
    <3>1. CASE k < n
      <4>1. k + 1 \in 0 .. n /\ k + 1 <= n
        BY <1>2, <3>1
      <4>2. f[k] = E[k][f[k + 1]] /\ f[k + 1] \in Nat
        BY <2>3, <2>4, <4>1 DEF Follows
      <4> QED
        BY <2>2, <4>2
    <3>2. CASE ~(k < n)
      <4>1. k + 1 > n
        BY <1>2, <3>2
      <4>2. f[k] = E[k][zero]
        BY <2>3, <2>4, <4>1 DEF Follows
      <4> QED
        BY <2>1, <2>2, <3>2, <4>2
    <3> QED
      BY <3>1, <3>2
  <2>6. f = Def(f)
    BY <2>3, <2>4, <2>5
  <2> QED
    BY <2>6
<1>4. \A k \in 0 .. n : p[k] = IF k < n /\ s[k + 1] = 0 THEN p[k + 1] ELSE k
  BY <1>3
<1> HIDE DEF p
<1> DEFINE Ok(k) == /\ p[k] \in k .. n
                    /\ \A i \in k + 1 .. p[k] : s[i] = 0
                    /\ p[k] < n => s[p[k] + 1] # 0
           S == {j \in Nat : Ok(n - j)}
<1>5. 0 \in S
  <2>1. n - 0 = n /\ n \in 0 .. n /\ ~(n < n)
    BY <1>2
  <2>2. p[n] = n
    BY <1>4, <2>1
  <2>3. Ok(n)
    BY <1>2, <2>2
  <2> HIDE DEF Ok
  <2> QED
    BY <2>1, <2>3
<1>6. ASSUME NEW j \in 1 .. n, j - 1 \in S PROVE j \in S
  <2> DEFINE k == n - j
  <2>1. k \in 0 .. n /\ k < n /\ n - (j - 1) = k + 1 /\ k + 1 \in 0 .. n /\ j \in Nat /\ k \in Nat
    BY <1>2
  <2>2. Ok(k + 1)
    <3> HIDE DEF Ok, k
    <3> QED
      BY <1>6, <2>1
  <2>3. p[k] = IF s[k + 1] = 0 THEN p[k + 1] ELSE k
    BY <1>4, <2>1
  <2> HIDE DEF k
  <2>4. CASE s[k + 1] = 0
    <3>1. p[k] = p[k + 1]
      BY <2>3, <2>4
    <3>2. p[k] \in k .. n /\ (p[k] < n => s[p[k] + 1] # 0)
      BY <1>2, <2>1, <2>2, <3>1
    <3>3. \A i \in k + 1 .. p[k] : i = k + 1 \/ i \in (k + 1) + 1 .. p[k + 1]
      BY <1>2, <2>1, <2>2, <3>1
    <3>4. \A i \in k + 1 .. p[k] : s[i] = 0
      BY <2>2, <2>4, <3>3
    <3> QED
      BY <3>2, <3>4, <2>1 DEF k
  <2>5. CASE s[k + 1] # 0
    <3>1. p[k] = k
      BY <2>3, <2>5
    <3>2. Ok(k)
      BY <1>2, <2>1, <2>5, <3>1
    <3> QED
      BY <3>2, <2>1 DEF k
  <2> QED
    BY <2>4, <2>5
<1>7. Ok(0)
  <2>1. n \in S
    <3>1. n \in 0 .. n
      BY <1>2
    <3> HIDE DEF S
    <3> QED
      BY <1>2, <1>5, <1>6, <3>1, IntervalInduction
  <2>2. n - n = 0
    BY <1>2
  <2> HIDE DEF Ok
  <2> QED
    BY <2>1, <2>2
<1>8. \A i : i \in 1 .. z <=> i \in 0 + 1 .. p[0]
  BY <1>1
<1> QED
  BY <1>1, <1>7, <1>8 DEF n, ZerosTo

LEMMA ZerosAre ==
  ASSUME NEW s \in Seq(Nat), NEW z \in 0 .. Len(s), ZerosTo(s, z),
         z < Len(s) => s[z + 1] # 0
  PROVE  LeadingZeros(s) = z
<1> DEFINE y == LeadingZeros(s)
           n == Len(s)
<1>1. /\ y \in 0 .. n /\ ZerosTo(s, y)
      /\ y < n => s[y + 1] # 0
  BY ZerosCounted
<1>2. n \in Nat
  OBVIOUS
<1> HIDE DEF y
<1>3. ~(y < z)
  <2> SUFFICES ASSUME y < z PROVE FALSE
    OBVIOUS
  <2>1. y + 1 \in 1 .. z /\ y < n
    BY <1>1, <1>2
  <2> QED
    BY <1>1, <2>1 DEF ZerosTo
<1>4. ~(z < y)
  <2> SUFFICES ASSUME z < y PROVE FALSE
    OBVIOUS
  <2>1. z + 1 \in 1 .. y /\ z < n
    BY <1>1, <1>2
  <2> QED
    BY <1>1, <2>1 DEF ZerosTo
<1>5. y = z
  BY <1>1, <1>2, <1>3, <1>4
<1> QED
  BY <1>5 DEF y

(* Sequences of digits of a base.                                          *)
Digits(base) == Seq(0 .. base - 1)

LEMMA DigitsAre ==
  ASSUME NEW base \in Nat, NEW s \in Digits(base)
  PROVE  /\ s \in Seq(Nat) /\ Len(s) \in Nat /\ DOMAIN s = 1 .. Len(s)
         /\ \A k \in 1 .. Len(s) : s[k] \in 0 .. base - 1
<1>1. Len(s) \in Nat /\ DOMAIN s = 1 .. Len(s) /\ \A k \in 1 .. Len(s) : s[k] \in 0 .. base - 1
  BY DEF Digits
<1>2. s = [k \in 1 .. Len(s) |-> s[k]]
  BY DEF Digits
<1>3. \A k \in 1 .. Len(s) : s[k] \in Nat
  BY <1>1
<1>4. [k \in 1 .. Len(s) |-> s[k]] \in Seq(Nat)
  BY <1>1, <1>3
<1> QED
  BY <1>1, <1>2, <1>4

(* With as many zeros in front, the longer numeral denotes more.           *)
LEMMA LongerIsMore ==
  ASSUME NEW base \in Nat, base > 0, NEW s \in Digits(base), NEW t \in Digits(base),
         LeadingZeros(s) = LeadingZeros(t), Len(s) < Len(t)
  PROVE  Number(s, base) < Number(t, base)
<1> DEFINE m == Len(s)
           n == Len(t)
           z == LeadingZeros(s)
           c == m - z
           d == n - z
<1>1. /\ s \in Seq(Nat) /\ t \in Seq(Nat) /\ m \in Nat /\ n \in Nat
      /\ \A k \in 1 .. m : s[k] \in 0 .. base - 1
      /\ \A k \in 1 .. n : t[k] \in 0 .. base - 1
  BY DigitsAre
<1>2. z \in 0 .. m /\ ZerosTo(s, z)
  BY <1>1, ZerosCounted
<1>3. /\ z \in 0 .. n /\ ZerosTo(t, z)
      /\ z < n => t[z + 1] # 0
  BY <1>1, ZerosCounted
<1>4. PICK v : Prefixes(v, s, base, m) /\ Number(s, base) = v[m]
  BY <1>1, NumberDefined
<1>5. PICK w : Prefixes(w, t, base, n) /\ Number(t, base) = w[n]
  BY <1>1, NumberDefined
<1> HIDE DEF m, n, z
<1>6. c \in 0 .. m - z /\ z + c = m /\ c \in Nat
  BY <1>1, <1>2
<1>7. d \in 0 .. n - z /\ z + d = n /\ d > 0 /\ t[z + 1] # 0 /\ d - 1 \in Nat /\ c <= d - 1
  BY <1>1, <1>2, <1>3 DEF m, n
<1>8. v[z + c] < Power(base, c)
  BY <1>1, <1>2, <1>4, <1>6, PrefixBounds
<1>9. w[z + d] >= Power(base, d - 1)
  BY <1>1, <1>3, <1>5, <1>7, PrefixBounds
<1>10. Power(base, c) <= Power(base, d - 1) /\ Power(base, c) \in Nat /\ Power(base, d - 1) \in Nat
  <2>1. Power(base, c) <= Power(base, d - 1)
    BY <1>6, <1>7, PowerRises
  <2>2. Power(base, c) \in Nat
    BY <1>6, PowerStep
  <2>3. Power(base, d - 1) \in Nat
    BY <1>7, PowerStep
  <2> QED
    BY <2>1, <2>2, <2>3
<1>11. v[m] \in Nat /\ w[n] \in Nat
  BY <1>1, <1>4, <1>5 DEF Prefixes
<1>12. v[m] < Power(base, c) /\ w[n] >= Power(base, d - 1)
  BY <1>6, <1>7, <1>8, <1>9
<1> HIDE DEF c, d
<1> QED
  BY <1>4, <1>5, <1>10, <1>11, <1>12

(* A numeral is determined by its zeros and by what it denotes.            *)
LEMMA NumeralUnique ==
  ASSUME NEW base \in Nat, base > 0, NEW s \in Digits(base), NEW t \in Digits(base),
         LeadingZeros(s) = LeadingZeros(t), Number(s, base) = Number(t, base)
  PROVE  s = t
<1> DEFINE n == Len(s)
<1>1. /\ s \in Seq(Nat) /\ t \in Seq(Nat) /\ Len(s) \in Nat /\ Len(t) \in Nat
      /\ \A k \in 1 .. Len(s) : s[k] \in 0 .. base - 1
      /\ \A k \in 1 .. Len(t) : t[k] \in 0 .. base - 1
  BY DigitsAre
<1>2. PICK v : Prefixes(v, s, base, Len(s)) /\ Number(s, base) = v[Len(s)]
  BY <1>1, NumberDefined
<1>3. PICK w : Prefixes(w, t, base, Len(t)) /\ Number(t, base) = w[Len(t)]
  BY <1>1, NumberDefined
<1>4. Number(s, base) \in Nat /\ Number(t, base) \in Nat
  BY <1>1, <1>2, <1>3 DEF Prefixes
<1>5. ~(Len(s) < Len(t)) /\ ~(Len(t) < Len(s))
  BY <1>4, LongerIsMore
<1>6. Len(t) = n
  BY <1>1, <1>5
<1> HIDE DEF n
<1>7. \A k \in 1 .. n : s[k] = t[k]
  <2>1. Prefixes(v, s, base, n) /\ Prefixes(w, t, base, n) /\ v[n] = w[n] /\ n \in Nat
    BY <1>1, <1>2, <1>3, <1>6 DEF n
  <2>2. \A k \in 1 .. n : s[k] \in 0 .. base - 1 /\ t[k] \in 0 .. base - 1
    BY <1>1, <1>6 DEF n
  <2> QED
    BY <2>1, <2>2, DigitsUnique
<1>8. s = [k \in 1 .. n |-> s[k]] /\ t = [k \in 1 .. n |-> t[k]]
  BY <1>1, <1>6 DEF n
<1> QED
  BY <1>7, <1>8

(* What stands behind the zeros decides what is denoted.                   *)
LEMMA ZerosDoNotCount ==
  ASSUME NEW base \in Nat, NEW s \in Seq(Nat), NEW t \in Seq(Nat),
         NEW y \in 0 .. Len(s), NEW z \in 0 .. Len(t),
         ZerosTo(s, y), ZerosTo(t, z),
         Len(s) - y = Len(t) - z, \A k \in 1 .. Len(s) - y : s[y + k] = t[z + k]
  PROVE  Number(s, base) = Number(t, base)
<1> DEFINE m == Len(s)
           n == Len(t)
           d == m - y
<1>0. m \in Nat /\ n \in Nat /\ d \in Nat /\ y \in Nat /\ z \in Nat
  OBVIOUS
<1>1. PICK v : Prefixes(v, s, base, m) /\ Number(s, base) = v[m]
  BY NumberDefined
<1>2. PICK w : Prefixes(w, t, base, n) /\ Number(t, base) = w[n]
  BY NumberDefined
<1> DEFINE S == {k \in Nat : v[y + k] = w[z + k]}
<1>3. 0 \in S
  <2>1. y \in 0 .. y /\ z \in 0 .. z /\ y + 0 = y /\ z + 0 = z
    OBVIOUS
  <2>2. y \in 0 .. m /\ z \in 0 .. n
    OBVIOUS
  <2> HIDE DEF m, n
  <2>3. \A k \in 0 .. y : v[k] = 0
    BY <1>0, <1>1, <2>2, ZeroPrefix
  <2>4. \A k \in 0 .. z : w[k] = 0
    BY <1>0, <1>2, <2>2, ZeroPrefix
  <2> QED
    BY <2>1, <2>3, <2>4
<1>4. ASSUME NEW k \in 1 .. d, k - 1 \in S PROVE k \in S
  <2>1. /\ y + k \in 1 .. m /\ y + k - 1 = y + (k - 1)
        /\ z + k \in 1 .. n /\ z + k - 1 = z + (k - 1) /\ k \in Nat
    OBVIOUS
  <2>2. v[y + k] = base * v[y + k - 1] + s[y + k]
    BY <1>1, <2>1 DEF Prefixes
  <2>3. w[z + k] = base * w[z + k - 1] + t[z + k]
    BY <1>2, <2>1 DEF Prefixes
  <2>4. v[y + (k - 1)] = w[z + (k - 1)] /\ s[y + k] = t[z + k]
    BY <1>4
  <2> HIDE DEF m, n, d
  <2> QED
    BY <2>1, <2>2, <2>3, <2>4
<1>5. d \in S
  <2>1. d \in 0 .. d
    BY <1>0
  <2> HIDE DEF S, d
  <2> QED
    BY <1>0, <1>3, <1>4, <2>1, IntervalInduction
<1>6. y + d = m /\ z + d = n
  OBVIOUS
<1> QED
  BY <1>1, <1>2, <1>5, <1>6

LEMMA Quotient ==
  ASSUME NEW b \in Nat, b > 0, NEW n \in Nat
  PROVE  n \div b \in Nat /\ n % b \in 0 .. b - 1 /\ n = b * (n \div b) + (n % b)
<1> DEFINE q == n \div b
           r == n % b
<1>1. q \in Int /\ r \in 0 .. b - 1
  OBVIOUS
<1>2. n = b * q + r
  OBVIOUS
<1> HIDE DEF q, r
<1>3. q \in Nat
  <2> SUFFICES ASSUME q < 0 PROVE FALSE
    BY <1>1
  <2>1. q <= -1
    BY <1>1
  <2>2. b * q <= -b
    BY <1>1, <2>1
  <2> QED
    BY <1>1, <1>2, <2>2
<1> QED
  BY <1>1, <1>2, <1>3 DEF q, r

LEMMA CellIs ==
  ASSUME NEW base \in Nat, base > 0, NEW radix \in Nat, NEW value \in Nat
  PROVE  /\ Cell(value, radix, base) \in [PassState -> PassState]
         /\ \A s \in PassState :
              Cell(value, radix, base)[s]
                = [carry |-> (s.carry + radix * value) \div base,
                   cells |-> <<(s.carry + radix * value) % base>> \o s.cells]
<1>1. \A s \in PassState :
        [carry |-> (s.carry + radix * value) \div base,
         cells |-> <<(s.carry + radix * value) % base>> \o s.cells] \in PassState
  <2> SUFFICES ASSUME NEW s \in PassState
               PROVE  [carry |-> (s.carry + radix * value) \div base,
                       cells |-> <<(s.carry + radix * value) % base>> \o s.cells] \in PassState
    OBVIOUS
  <2> DEFINE x == s.carry + radix * value
  <2>1. s.carry \in Int /\ s.cells \in Seq(Int)
    BY DEF PassState
  <2>2. x \in Int
    BY <2>1
  <2> HIDE DEF x
  <2>3. x \div base \in Int /\ x % base \in Int
    BY <2>2
  <2>4. <<x % base>> \in Seq(Int)
    BY <2>3
  <2>5. <<x % base>> \o s.cells \in Seq(Int)
    BY <2>1, <2>4
  <2> QED
    BY <2>3, <2>5 DEF PassState, x
<1>2. \A s \in PassState :
        Cell(value, radix, base)[s]
          = [carry |-> (s.carry + radix * value) \div base,
             cells |-> <<(s.carry + radix * value) % base>> \o s.cells]
  BY DEF Cell
<1>3. Cell(value, radix, base) \in [PassState -> PassState]
  <2> DEFINE F(s) == [carry |-> (s.carry + radix * value) \div base,
                      cells |-> <<(s.carry + radix * value) % base>> \o s.cells]
  <2>1. Cell(value, radix, base) = [s \in PassState |-> F(s)]
    BY DEF Cell
  <2>2. \A s \in PassState : F(s) \in PassState
    BY <1>1
  <2> HIDE DEF F
  <2> QED
    BY <2>1, <2>2
<1> QED
  BY <1>2, <1>3

(* A pass over the cells of tmp, the last one first.                       *)
Pass(p, tmp, radix, base, digit) ==
  /\ p \in [0 .. Len(tmp) -> PassState]
  /\ p[0] = [carry |-> digit, cells |-> <<>>]
  /\ \A k \in 1 .. Len(tmp) : p[k] = Cell(tmp[Len(tmp) + 1 - k], radix, base)[p[k - 1]]

LEMMA PassDefined ==
  ASSUME NEW base \in Nat, base > 0, NEW radix \in Nat, NEW digit \in Nat, NEW tmp \in Seq(Nat)
  PROVE  \E p : Pass(p, tmp, radix, base, digit)
                  /\ MultiplyAdd(radix, base, digit)[tmp] = p[Len(tmp)].cells
<1> DEFINE n == Len(tmp)
           c == [carry |-> digit, cells |-> <<>>]
           C(k) == Cell(tmp[n + 1 - k], radix, base)
           E == [k \in 1 .. n |-> C(k)]
           Def(f) == [k \in 0 .. n |-> IF k = 0 THEN c ELSE C(k)[f[k - 1]]]
           p == CHOOSE f : f = Def(f)
<1>1. MultiplyAdd(radix, base, digit)[tmp] = p[n].cells
  <2>1. tmp \in Seq(Int)
    <3>1. \A k \in 1 .. n : tmp[k] \in Int
      <4>1. \A k \in 1 .. n : tmp[k] \in Nat
        OBVIOUS
      <4> QED
        BY <4>1
    <3>2. tmp = [k \in 1 .. n |-> tmp[k]] /\ n \in Nat
      OBVIOUS
    <3> HIDE DEF n
    <3>3. [k \in 1 .. n |-> tmp[k]] \in [1 .. n -> Int]
      BY <3>1
    <3>4. \A m \in Nat : [1 .. m -> Int] \subseteq Seq(Int)
      OBVIOUS
    <3> QED
      BY <3>2, <3>3, <3>4
  <2> QED
    BY <2>1 DEF MultiplyAdd
<1>2. n \in Nat /\ \A k \in 1 .. n : tmp[n + 1 - k] \in Nat
  <2>1. \A k \in 1 .. n : n + 1 - k \in 1 .. n
    OBVIOUS
  <2> QED
    BY <2>1
<1> HIDE DEF n
<1>3. c \in PassState
  BY DEF PassState
<1>4. ASSUME NEW k \in 1 .. n PROVE C(k) \in [PassState -> PassState]
  BY <1>2, CellIs
<1> HIDE DEF C, c
<1>5. E \in Passes(1, n, PassState) /\ \A k \in 1 .. n : E[k] = C(k)
  BY <1>4 DEF Passes
<1> HIDE DEF E
<1>6. PICK f \in [0 .. n -> PassState] : Continues(f, n, E, c)
  BY <1>2, <1>3, <1>5, FoldDefined
<1>7. f[0] = c /\ \A k \in 1 .. n : f[k] = C(k)[f[k - 1]]
  BY <1>5, <1>6 DEF Continues
<1>8. f = Def(f)
  <2>1. \A k \in 0 .. n : k = 0 \/ k \in 1 .. n
    BY <1>2
  <2> QED
    BY <1>7, <2>1
<1>9. p = Def(p)
  BY <1>8
<1> HIDE DEF p
<1>10. p[0] = c /\ \A k \in 1 .. n : p[k] = C(k)[p[k - 1]]
  BY <1>2, <1>9
<1>11. \A k \in 0 .. n : p[k] \in PassState
  <2> DEFINE S == {k \in Nat : p[k] \in PassState}
  <2>1. 0 \in S
    BY <1>3, <1>10
  <2>2. ASSUME NEW k \in 1 .. n, k - 1 \in S PROVE k \in S
    BY <1>4, <1>10, <2>2
  <2>3. \A k \in 0 .. n : k \in S
    <3> HIDE DEF S
    <3> QED
      BY <1>2, <2>1, <2>2, IntervalInduction
  <2> QED
    BY <2>3
<1>12. p \in [0 .. n -> PassState]
  <2>1. Def(p) \in [0 .. n -> PassState]
    <3>1. \A k \in 0 .. n : Def(p)[k] \in PassState
      BY <1>9, <1>11
    <3> QED
      BY <3>1
  <2> QED
    BY <1>9, <2>1
<1> QED
  BY <1>1, <1>10, <1>12 DEF Pass, n, c, C

(* The carries of a pass, by the cell they come into.                      *)
Carries(c, r, tmp, radix, base, digit) ==
  /\ c \in [0 .. Len(tmp) -> Nat] /\ c[Len(tmp)] = digit
  /\ r \in Digits(base) /\ Len(r) = Len(tmp)
  /\ \A j \in 1 .. Len(tmp) : c[j] + radix * tmp[j] = base * c[j - 1] + r[j]

LEMMA CarriesDefined ==
  ASSUME NEW base \in Nat, base > 0, NEW radix \in Nat, NEW digit \in Nat, NEW tmp \in Seq(Nat)
  PROVE  \E c : Carries(c, MultiplyAdd(radix, base, digit)[tmp], tmp, radix, base, digit)
<1> DEFINE n == Len(tmp)
           r == MultiplyAdd(radix, base, digit)[tmp]
<1>1. PICK p : Pass(p, tmp, radix, base, digit) /\ r = p[n].cells
  BY PassDefined
<1>2. n \in Nat /\ \A j \in 1 .. n : tmp[j] \in Nat
  OBVIOUS
<1>3. /\ p[0] = [carry |-> digit, cells |-> <<>>]
      /\ \A k \in 1 .. n : p[k] = Cell(tmp[n + 1 - k], radix, base)[p[k - 1]]
      /\ \A k \in 0 .. n : p[k] \in PassState
  BY <1>1 DEF Pass
<1> HIDE DEF n, r
<1> DEFINE X(j) == p[n - j].carry + radix * tmp[j]
           Ok(k) == /\ p[k].carry \in Nat /\ p[k].cells \in Seq(Int) /\ Len(p[k].cells) = k
                    /\ \A i \in 1 .. k : p[k].cells[i] = X(n - k + i) % base
           S == {k \in Nat : Ok(k)}
<1>4. 0 \in S
  <2>1. p[0].carry = digit /\ p[0].cells = <<>>
    BY <1>3
  <2>2. <<>> \in Seq(Int) /\ Len(<<>>) = 0
    OBVIOUS
  <2>3. \A i \in 1 .. 0 : FALSE
    OBVIOUS
  <2> HIDE DEF X
  <2> QED
    BY <2>1, <2>2, <2>3
<1>5. ASSUME NEW k \in 1 .. n
      PROVE  /\ n + 1 - k \in 1 .. n /\ k - 1 \in 0 .. n /\ k \in Nat
             /\ p[k].carry = X(n + 1 - k) \div base
             /\ p[k].cells = <<X(n + 1 - k) % base>> \o p[k - 1].cells
  <2>1. n + 1 - k \in 1 .. n /\ k - 1 \in 0 .. n /\ n - (n + 1 - k) = k - 1 /\ k \in Nat
    BY <1>2
  <2>2. tmp[n + 1 - k] \in Nat /\ p[k - 1] \in PassState
    BY <1>2, <1>3, <2>1
  <2>3. p[k] = [carry |-> (p[k - 1].carry + radix * tmp[n + 1 - k]) \div base,
                cells |-> <<(p[k - 1].carry + radix * tmp[n + 1 - k]) % base>> \o p[k - 1].cells]
    <3> DEFINE v == tmp[n + 1 - k]
               s == p[k - 1]
    <3>1. v \in Nat /\ s \in PassState /\ p[k] = Cell(v, radix, base)[s]
      BY <1>3, <2>2
    <3> HIDE DEF v, s
    <3>2. Cell(v, radix, base)[s] = [carry |-> (s.carry + radix * v) \div base,
                                     cells |-> <<(s.carry + radix * v) % base>> \o s.cells]
      <4>1. v \in Nat /\ s \in PassState
        BY <3>1
      <4>2. \A w \in PassState :
              Cell(v, radix, base)[w] = [carry |-> (w.carry + radix * v) \div base,
                                         cells |-> <<(w.carry + radix * v) % base>> \o w.cells]
        BY <4>1, CellIs, Zenon
      <4> QED
        BY <4>1, <4>2, Zenon
    <3> QED
      BY <3>1, <3>2 DEF v, s
  <2> QED
    BY <2>1, <2>3
<1>6. ASSUME NEW k \in 1 .. n, k - 1 \in S PROVE k \in S
  <2> DEFINE j == n + 1 - k
             x == X(j)
             old == p[k - 1].cells
             new == p[k].cells
  <2>1. j \in 1 .. n /\ k - 1 \in 0 .. n /\ k \in Nat /\ p[k].carry = x \div base /\ new = <<x % base>> \o old
    BY <1>5
  <2>2. /\ p[k - 1].carry \in Nat /\ old \in Seq(Int) /\ Len(old) = k - 1
        /\ \A i \in 1 .. k - 1 : old[i] = X(n - (k - 1) + i) % base
    BY <1>6
  <2>3. x \in Nat
    <3>1. n - j = k - 1 /\ tmp[j] \in Nat
      BY <1>2, <2>1
    <3>2. \A y \in Nat : radix * y \in Nat
      OBVIOUS
    <3>3. x = p[k - 1].carry + radix * tmp[j]
      BY <3>1
    <3>4. p[k - 1].carry \in Nat
      BY <2>2
    <3>5. \A y, z \in Nat : y + z \in Nat
      OBVIOUS
    <3> HIDE DEF x, j
    <3>6. radix * tmp[j] \in Nat
      BY <3>1, <3>2
    <3> QED
      BY <3>3, <3>4, <3>5, <3>6
  <2> HIDE DEF x, X, old, new
  <2>4. x \div base \in Nat /\ x % base \in Int
    BY <2>3, Quotient
  <2>5. /\ new \in Seq(Int) /\ Len(new) = k /\ new[1] = x % base
        /\ \A i \in 2 .. k : new[i] = old[i - 1]
    <3> DEFINE head == <<x % base>>
    <3>1. head \in Seq(Int) /\ Len(head) = 1 /\ head[1] = x % base
      BY <2>4
    <3> HIDE DEF head
    <3>2. new = head \o old
      BY <2>1 DEF head
    <3> QED
      BY <2>1, <2>2, <3>1, <3>2
  <2>6. ASSUME NEW i \in 1 .. k PROVE new[i] = X(n - k + i) % base
    <3>1. CASE i = 1
      <4>1. n - k + i = j
        BY <1>2, <3>1
      <4> QED
        BY <2>5, <3>1, <4>1 DEF x
    <3>2. CASE i # 1
      <4>1. i \in 2 .. k /\ i - 1 \in 1 .. k - 1 /\ n - (k - 1) + (i - 1) = n - k + i
        BY <1>2, <3>2
      <4>2. new[i] = old[i - 1]
        BY <2>5, <4>1
      <4>3. old[i - 1] = X(n - (k - 1) + (i - 1)) % base
        BY <2>2, <4>1
      <4> QED
        BY <4>1, <4>2, <4>3
    <3> QED
      BY <3>1, <3>2
  <2>7. Ok(k)
    BY <2>1, <2>4, <2>5, <2>6 DEF new
  <2> HIDE DEF Ok
  <2> QED
    BY <2>1, <2>7
<1>7. \A k \in 0 .. n : Ok(k)
  <2>1. \A k \in 0 .. n : k \in S
    <3> HIDE DEF S
    <3> QED
      BY <1>2, <1>4, <1>6, IntervalInduction
  <2> HIDE DEF Ok
  <2> QED
    BY <2>1
<1> DEFINE c == [j \in 0 .. n |-> p[n - j].carry]
<1>8. c \in [0 .. n -> Nat] /\ c[n] = digit
  <2>1. \A j \in 0 .. n : n - j \in 0 .. n
    BY <1>2
  <2>2. \A j \in 0 .. n : p[n - j].carry \in Nat
    BY <1>7, <2>1
  <2>3. n - n = 0 /\ n \in 0 .. n /\ p[0].carry = digit
    BY <1>2, <1>3
  <2> QED
    BY <2>2, <2>3
<1>9. ASSUME NEW j \in 1 .. n
      PROVE  /\ X(j) \in Nat /\ X(j) = c[j] + radix * tmp[j]
             /\ c[j - 1] = X(j) \div base /\ r[j] = X(j) % base
  <2> DEFINE k == n + 1 - j
  <2>1. /\ k \in 1 .. n /\ n + 1 - k = j /\ n - (j - 1) = k /\ j - 1 \in 0 .. n
        /\ j \in 0 .. n /\ n - n + j = j /\ n \in 0 .. n /\ j \in 1 .. n
    BY <1>2
  <2> HIDE DEF k
  <2>2. p[k].carry = X(j) \div base
    BY <1>5, <2>1
  <2>3. c[j - 1] = p[k].carry /\ c[j] = p[n - j].carry
    BY <2>1
  <2>4. r[j] = X(j) % base
    BY <1>1, <1>7, <2>1
  <2>5. X(j) \in Nat
    <3>1. c[j] \in Nat /\ tmp[j] \in Nat
      BY <1>2, <1>8, <2>1
    <3>2. \A y \in Nat : radix * y \in Nat
      OBVIOUS
    <3>3. X(j) = c[j] + radix * tmp[j]
      BY <2>3
    <3>4. \A y, z \in Nat : y + z \in Nat
      OBVIOUS
    <3> HIDE DEF X, c
    <3>5. radix * tmp[j] \in Nat
      BY <3>1, <3>2
    <3> QED
      BY <3>1, <3>3, <3>4, <3>5
  <2> QED
    BY <2>2, <2>3, <2>4, <2>5
<1> HIDE DEF X, c
<1>10. ASSUME NEW j \in 1 .. n
       PROVE  c[j] + radix * tmp[j] = base * c[j - 1] + r[j] /\ r[j] \in 0 .. base - 1
  <2>1. /\ X(j) \in Nat /\ X(j) = c[j] + radix * tmp[j]
        /\ c[j - 1] = X(j) \div base /\ r[j] = X(j) % base
    BY <1>9
  <2>2. X(j) % base \in 0 .. base - 1 /\ X(j) = base * (X(j) \div base) + (X(j) % base)
    BY <2>1, Quotient
  <2> QED
    BY <2>1, <2>2
<1>11. r \in Digits(base) /\ Len(r) = n
  <2>1. r \in Seq(Int) /\ Len(r) = n
    <3>1. n \in 0 .. n
      BY <1>2
    <3> QED
      BY <1>1, <1>7, <3>1
  <2>2. r = [j \in 1 .. n |-> r[j]]
    BY <2>1
  <2>3. [j \in 1 .. n |-> r[j]] \in Seq(0 .. base - 1)
    BY <1>2, <1>10
  <2> QED
    BY <2>1, <2>2, <2>3 DEF Digits
<1> QED
  BY <1>8, <1>10, <1>11 DEF Carries, n, r

(* There is room for the result of a pass.                                 *)
HasRoom(tmp, radix, base, digit) ==
  radix * Number(tmp, base) + digit < Power(base, Len(tmp))

(* While the result has room in the array, a pass multiplies the number in *)
(* it by the radix and adds the digit.                                     *)
LEMMA PassValue ==
  ASSUME NEW base \in Nat, base > 0, NEW radix \in Nat, NEW digit \in Nat, NEW tmp \in Digits(base),
         HasRoom(tmp, radix, base, digit),
         NEW r, r = MultiplyAdd(radix, base, digit)[tmp]
  PROVE  /\ r \in Digits(base) /\ Len(r) = Len(tmp)
         /\ Number(r, base) = radix * Number(tmp, base) + digit
<1> DEFINE n == Len(tmp)
<1>1. tmp \in Seq(Nat) /\ n \in Nat /\ \A k \in 1 .. n : tmp[k] \in Nat
  <2>1. tmp \in Seq(Nat) /\ n \in Nat
    BY DigitsAre
  <2> QED
    BY <2>1
<1>2. PICK c : Carries(c, r, tmp, radix, base, digit)
  BY <1>1, CarriesDefined
<1>3. /\ c \in [0 .. n -> Nat] /\ c[n] = digit /\ r \in Digits(base) /\ Len(r) = n
      /\ \A j \in 1 .. n : c[j] + radix * tmp[j] = base * c[j - 1] + r[j]
  BY <1>2 DEF Carries
<1>4. r \in Seq(Nat) /\ \A k \in 1 .. n : r[k] \in Nat
  <2>1. r \in Seq(Nat)
    BY <1>3, DigitsAre
  <2> QED
    BY <1>3, <2>1
<1>5. PICK u : Prefixes(u, tmp, base, n) /\ Number(tmp, base) = u[n]
  BY <1>1, NumberDefined
<1>6. PICK w : Prefixes(w, r, base, n) /\ Number(r, base) = w[n]
  <2>1. \E w : Prefixes(w, r, base, Len(r)) /\ Number(r, base) = w[Len(r)]
    BY <1>4, NumberDefined
  <2> QED
    BY <1>3, <2>1
<1> HIDE DEF n
<1> DEFINE P(j) == Power(base, j)
           S == {j \in Nat : w[j] + P(j) * c[0] = radix * u[j] + c[j]}
<1>7. \A j \in Nat : P(j) \in Nat /\ P(j + 1) = base * P(j) /\ P(0) = 1
  BY PowerStep
<1>8. /\ u[0] = 0 /\ w[0] = 0
      /\ \A j \in 0 .. n : u[j] \in Nat /\ w[j] \in Nat /\ c[j] \in Nat
      /\ \A j \in 1 .. n : u[j] = base * u[j - 1] + tmp[j] /\ w[j] = base * w[j - 1] + r[j]
  BY <1>3, <1>5, <1>6 DEF Prefixes
<1> HIDE DEF P
<1>9. 0 \in S
  <2>1. c[0] \in Nat /\ 0 \in 0 .. n /\ P(0) = 1
    BY <1>1, <1>7, <1>8
  <2>2. \A d \in Nat : 0 + 1 * d = radix * 0 + d
    OBVIOUS
  <2> HIDE DEF P
  <2>3. w[0] + P(0) * c[0] = radix * u[0] + c[0]
    BY <1>8, <2>1, <2>2
  <2> QED
    BY <2>3
<1>10. ASSUME NEW j \in 1 .. n, j - 1 \in S PROVE j \in S
  <2> DEFINE i == j - 1
             q == P(i)
             x == w[i]
             y == u[i]
             d == c[0]
             e == c[i]
             f == c[j]
             a == tmp[j]
             b == r[j]
  <2>1. i \in 0 .. n /\ j \in 0 .. n /\ 0 \in 0 .. n /\ j = i + 1 /\ i \in Nat /\ j \in Nat
    BY <1>1
  <2>2. /\ q \in Nat /\ P(j) = base * q /\ x \in Nat /\ y \in Nat /\ d \in Nat /\ e \in Nat /\ f \in Nat
        /\ a \in Nat /\ b \in Nat
    BY <1>1, <1>4, <1>7, <1>8, <2>1
  <2>3. u[j] = base * y + a /\ w[j] = base * x + b /\ f + radix * a = base * e + b
    BY <1>3, <1>8
  <2>4. x + q * d = radix * y + e
    BY <1>10
  <2> HIDE DEF i, q, x, y, d, e, f, a, b
  <2>5. (base * x + b) + (base * q) * d = radix * (base * y + a) + f
    <3>1. base * (x + q * d) = base * (radix * y + e)
      BY <2>4
    <3>2. base * (x + q * d) = base * x + (base * q) * d
      BY <2>2
    <3>3. base * (radix * y + e) = radix * (base * y) + base * e
      BY <2>2
    <3>4. radix * (base * y + a) = radix * (base * y) + radix * a
      BY <2>2
    <3> DEFINE p1 == base * x
               p2 == (base * q) * d
               p3 == radix * (base * y)
               p4 == base * e
               p5 == radix * a
               p6 == radix * (base * y + a)
    <3>5. p1 + p2 = p3 + p4 /\ p6 = p3 + p5 /\ f + p5 = p4 + b
      BY <2>3, <3>1, <3>2, <3>3, <3>4
    <3>6. p1 \in Nat /\ p2 \in Nat /\ p3 \in Nat /\ p4 \in Nat /\ p5 \in Nat
      BY <2>2
    <3> HIDE DEF p1, p2, p3, p4, p5, p6
    <3>7. (p1 + b) + p2 = p6 + f
      BY <2>2, <3>5, <3>6
    <3> QED
      BY <3>7 DEF p1, p2, p3, p4, p5, p6
  <2> QED
    BY <2>1, <2>2, <2>3, <2>5 DEF d, f
<1>11. w[n] + P(n) * c[0] = radix * u[n] + digit
  <2>1. n \in S
    <3>1. n \in 0 .. n
      BY <1>1
    <3> HIDE DEF S
    <3> QED
      BY <1>1, <1>9, <1>10, <3>1, IntervalInduction
  <2> QED
    BY <1>3, <2>1
<1>12. radix * u[n] + digit < P(n)
  BY <1>5 DEF HasRoom, P, n
<1>13. w[n] \in Nat /\ u[n] \in Nat /\ c[0] \in Nat /\ P(n) \in Nat
  <2>1. n \in 0 .. n /\ 0 \in 0 .. n
    BY <1>1
  <2> QED
    BY <1>1, <1>7, <1>8, <2>1
<1>14. w[n] = radix * u[n] + digit
  <2> DEFINE a == w[n]
             d == c[0]
             q == P(n)
             m == radix * u[n] + digit
  <2>1. a \in Nat /\ d \in Nat /\ q \in Nat /\ m \in Nat /\ a + q * d = m /\ m < q
    <3>1. \A y \in Nat : radix * y + digit \in Nat
      OBVIOUS
    <3> QED
      BY <1>11, <1>12, <1>13, <3>1
  <2> HIDE DEF a, d, q, m
  <2>2. d > 0 => q * d >= q
    BY <2>1
  <2>3. d = 0
    BY <2>1, <2>2
  <2>4. a = m
    BY <2>1, <2>3
  <2> QED
    BY <2>4 DEF a, m
<1> QED
  BY <1>3, <1>5, <1>6, <1>14 DEF n

LEMMA ScratchIs ==
  ASSUME NEW base \in Nat, base > 0, NEW len \in Nat
  PROVE  /\ Scratch(len) \in Digits(base) /\ Len(Scratch(len)) = len
         /\ \A k \in 1 .. len : Scratch(len)[k] = 0
         /\ Number(Scratch(len), base) = 0
<1> DEFINE s == Scratch(len)
<1>1. s \in Seq(0 .. base - 1) /\ Len(s) = len /\ \A k \in 1 .. len : s[k] = 0
  <2>1. 0 \in 0 .. base - 1
    OBVIOUS
  <2> QED
    BY <2>1 DEF Scratch
<1>2. s \in Digits(base)
  BY <1>1 DEF Digits
<1>3. s \in Seq(Nat) /\ ZerosTo(s, len)
  BY <1>1, <1>2, DigitsAre DEF ZerosTo
<1> HIDE DEF s
<1>4. PICK v : Prefixes(v, s, base, len) /\ Number(s, base) = v[len]
  BY <1>1, <1>3, NumberDefined
<1>5. v[len] = 0
  <2>1. len \in 0 .. len
    OBVIOUS
  <2>2. \A k \in 0 .. len : v[k] = 0
    BY <1>3, <1>4, <2>1, ZeroPrefix
  <2> QED
    BY <2>1, <2>2
<1> QED
  BY <1>1, <1>2, <1>4, <1>5 DEF s

(* The scratch array after each digit.                                     *)
Converts(f, digits, zeros, radix, base, len) ==
  /\ f \in [0 .. Len(digits) -> Digits(base)]
  /\ \A i \in 0 .. Len(digits) :
       f[i] = IF i <= zeros THEN Scratch(len) ELSE MultiplyAdd(radix, base, digits[i])[f[i - 1]]

Converted(t, digits, zeros, radix, base, len) ==
  \E f : Converts(f, digits, zeros, radix, base, len) /\ t = f[Len(digits)]

LEMMA ConvertDefined ==
  ASSUME NEW base \in Nat, base > 0, NEW radix \in Nat, NEW digits \in Seq(Nat),
         NEW zeros \in Nat, NEW len \in Nat
  PROVE  Converted(Convert(digits, zeros, radix, base, len), digits, zeros, radix, base, len)
<1> DEFINE n == Len(digits)
           V == Digits(base)
           c == Scratch(len)
           M(i) == MultiplyAdd(radix, base, digits[i])
           E == [i \in 1 .. n |-> [t \in V |-> IF i <= zeros THEN c ELSE M(i)[t]]]
           Def(f) == [i \in 0 .. n |-> IF i <= zeros THEN c ELSE M(i)[f[i - 1]]]
           p == CHOOSE f : f = Def(f)
<1>1. Convert(digits, zeros, radix, base, len) = p[n]
  BY DEF Convert
<1>2. n \in Nat /\ \A i \in 1 .. n : digits[i] \in Nat
  OBVIOUS
<1>3. c \in V
  BY ScratchIs
<1>4. ASSUME NEW i \in 1 .. n, NEW t \in V PROVE M(i)[t] \in V
  <2> DEFINE x == digits[i]
  <2>1. x \in Nat /\ t \in Seq(Nat)
    BY <1>2, DigitsAre
  <2> HIDE DEF x
  <2>2. PICK d : Carries(d, MultiplyAdd(radix, base, x)[t], t, radix, base, x)
    BY <2>1, CarriesDefined
  <2> QED
    BY <2>2 DEF Carries, x
<1> HIDE DEF n, V, c, M
<1>5. E \in Passes(1, n, V)
  <2>1. \A i \in 1 .. n, t \in V : (IF i <= zeros THEN c ELSE M(i)[t]) \in V
    BY <1>3, <1>4
  <2> QED
    BY <2>1 DEF Passes
<1>6. \A i \in 1 .. n, t \in V : E[i][t] = IF i <= zeros THEN c ELSE M(i)[t]
  OBVIOUS
<1> HIDE DEF E
<1>7. PICK f \in [0 .. n -> V] : Continues(f, n, E, c)
  BY <1>2, <1>3, <1>5, FoldDefined
<1>8. \A i \in 0 .. n : f[i] = IF i <= zeros THEN c ELSE M(i)[f[i - 1]]
  <2> SUFFICES ASSUME NEW i \in 0 .. n PROVE f[i] = IF i <= zeros THEN c ELSE M(i)[f[i - 1]]
    OBVIOUS
  <2>1. CASE i = 0
    BY <1>7, <2>1 DEF Continues
  <2>2. CASE i # 0
    <3>1. i \in 1 .. n /\ i - 1 \in 0 .. n
      BY <1>2, <2>2
    <3>2. f[i - 1] \in V /\ f[i] = E[i][f[i - 1]]
      BY <1>7, <3>1 DEF Continues
    <3> QED
      BY <1>6, <3>1, <3>2
  <2> QED
    BY <2>1, <2>2
<1>9. f = Def(f)
  BY <1>8
<1>10. p = Def(p)
  BY <1>9
<1> HIDE DEF p
<1>11. \A i \in 0 .. n : p[i] = IF i <= zeros THEN c ELSE M(i)[p[i - 1]]
  BY <1>10
<1>12. \A i \in 0 .. n : p[i] \in V
  <2> DEFINE S == {i \in Nat : p[i] \in V}
  <2>1. 0 \in S
    <3>1. 0 \in 0 .. n /\ 0 <= zeros
      BY <1>2
    <3> QED
      BY <1>3, <1>11, <3>1
  <2>2. ASSUME NEW i \in 1 .. n, i - 1 \in S PROVE i \in S
    <3>1. i \in 0 .. n /\ i \in Nat
      BY <1>2
    <3> QED
      BY <1>3, <1>4, <1>11, <2>2, <3>1
  <2>3. \A i \in 0 .. n : i \in S
    <3> HIDE DEF S
    <3> QED
      BY <1>2, <2>1, <2>2, IntervalInduction
  <2> QED
    BY <2>3
<1>13. p \in [0 .. n -> V]
  <2>1. Def(p) \in [0 .. n -> V]
    <3>1. \A i \in 0 .. n : Def(p)[i] \in V
      BY <1>10, <1>12
    <3> QED
      BY <3>1
  <2> QED
    BY <1>10, <2>1
<1> QED
  BY <1>1, <1>11, <1>13 DEF Converted, Converts, n, V, c, M

(* When the array has room for numbers of so many digits, nothing is       *)
(* carried out of it: it holds what the digits denote.                     *)
LEMMA ConvertValue ==
  ASSUME NEW base \in Nat, base > 0, NEW radix \in Nat, radix > 0, NEW digits \in Digits(radix),
         NEW zeros \in 0 .. Len(digits), ZerosTo(digits, zeros), NEW len \in Nat,
         Power(radix, Len(digits)) <= Power(base, len),
         NEW t, t = Convert(digits, zeros, radix, base, len)
  PROVE  t \in Digits(base) /\ Len(t) = len /\ Number(t, base) = Number(digits, radix)
<1> DEFINE n == Len(digits)
<1>1. digits \in Seq(Nat) /\ n \in Nat /\ \A k \in 1 .. n : digits[k] \in 0 .. radix - 1
  BY DigitsAre
<1>2. PICK f : Converts(f, digits, zeros, radix, base, len) /\ t = f[n]
  <2>1. zeros \in Nat
    BY <1>1
  <2>2. Converted(t, digits, zeros, radix, base, len)
    BY <1>1, <2>1, ConvertDefined
  <2> QED
    BY <2>2 DEF Converted
<1>3. PICK v : Prefixes(v, digits, radix, n) /\ Number(digits, radix) = v[n]
  BY <1>1, NumberDefined
<1>4. \A i \in 0 .. n : /\ f[i] \in Digits(base)
                        /\ f[i] = IF i <= zeros THEN Scratch(len)
                                  ELSE MultiplyAdd(radix, base, digits[i])[f[i - 1]]
  BY <1>2 DEF Converts
<1>5. zeros \in 0 .. n /\ Power(radix, n) <= Power(base, len)
  OBVIOUS
<1> HIDE DEF n
<1>6. \A i \in 0 .. zeros : v[i] = 0
  BY <1>1, <1>3, <1>5, ZeroPrefix
<1>7. ASSUME NEW i \in 0 .. n PROVE v[i] \in Nat /\ v[i] < Power(base, len)
  <2> DEFINE z == 0
  <2>1. z \in 0 .. n /\ ZerosTo(digits, z) /\ i \in 0 .. n - z /\ z + i = i /\ i \in Nat /\ i <= n
    BY <1>1 DEF ZerosTo
  <2> HIDE DEF z
  <2>2. v[z + i] < Power(radix, i)
    BY <1>1, <1>3, <2>1, PrefixBounds
  <2>3. Power(radix, i) <= Power(radix, n)
    BY <1>1, <2>1, PowerRises
  <2>4. Power(radix, i) \in Nat /\ Power(radix, n) \in Nat /\ Power(base, len) \in Nat
    BY <1>1, <2>1, PowerStep
  <2>5. v[i] \in Nat
    BY <1>3 DEF Prefixes
  <2> QED
    BY <1>5, <2>1, <2>2, <2>3, <2>4, <2>5
<1> DEFINE S == {i \in Nat : Len(f[i]) = len /\ Number(f[i], base) = v[i]}
<1>8. ASSUME NEW i \in 0 .. zeros PROVE i \in S
  <2>1. i \in 0 .. n /\ i <= zeros /\ i \in Nat
    BY <1>1, <1>5
  <2>2. f[i] = Scratch(len)
    BY <1>4, <2>1
  <2>3. v[i] = 0
    BY <1>6
  <2>4. Len(Scratch(len)) = len /\ Number(Scratch(len), base) = 0
    BY ScratchIs
  <2> QED
    BY <2>1, <2>2, <2>3, <2>4
<1>9. 0 \in S
  <2>1. 0 \in 0 .. zeros
    BY <1>5
  <2> QED
    BY <1>8, <2>1
<1>10. ASSUME NEW i \in 1 .. n, i - 1 \in S PROVE i \in S
  <2>1. CASE i <= zeros
    <3>1. i \in 0 .. zeros
      BY <1>1, <1>5, <2>1
    <3> QED
      BY <1>8, <3>1
  <2>2. CASE ~(i <= zeros)
    <3> DEFINE old == f[i - 1]
               new == f[i]
               d == digits[i]
    <3>1. i \in 0 .. n /\ i - 1 \in 0 .. n /\ i \in Nat
      BY <1>1
    <3>2. /\ old \in Digits(base) /\ new = MultiplyAdd(radix, base, d)[old]
          /\ Len(old) = len /\ Number(old, base) = v[i - 1]
      BY <1>4, <1>10, <2>2, <3>1
    <3>3. d \in Nat /\ v[i] = radix * v[i - 1] + d
      <4>1. d \in Nat
        BY <1>1
      <4> QED
        BY <1>3, <4>1 DEF Prefixes
    <3>4. v[i] < Power(base, len)
      BY <1>7, <3>1
    <3> HIDE DEF old, new, d
    <3>5. HasRoom(old, radix, base, d)
      BY <3>2, <3>3, <3>4 DEF HasRoom
    <3>6. Len(new) = Len(old) /\ Number(new, base) = radix * Number(old, base) + d
      <4>1. old \in Digits(base) /\ d \in Nat /\ new = MultiplyAdd(radix, base, d)[old]
        BY <3>2, <3>3
      <4> QED
        BY <4>1, <3>5, PassValue
    <3>7. Len(new) = len /\ Number(new, base) = v[i]
      BY <3>2, <3>3, <3>6
    <3> QED
      BY <3>1, <3>7 DEF new
  <2> QED
    BY <2>1, <2>2
<1>11. n \in S /\ n \in 0 .. n
  <2>1. n \in 0 .. n
    BY <1>1
  <2> HIDE DEF S
  <2> QED
    BY <1>1, <1>9, <1>10, <2>1, IntervalInduction
<1> QED
  BY <1>2, <1>3, <1>4, <1>11

(* The zeros of the result replaced by z others.                           *)
LEMMA Replaced ==
  ASSUME NEW base \in Nat, base > 0, NEW t \in Digits(base), NEW z \in Nat,
         NEW r, r = Scratch(z) \o Stripped(t)
  PROVE  /\ r \in Digits(base) /\ LeadingZeros(r) = z /\ Number(r, base) = Number(t, base)
         /\ Len(r) \in z .. z + Len(t)
<1> DEFINE n == Len(t)
           y == LeadingZeros(t)
           d == n - y
           a == Scratch(z)
           b == Stripped(t)
<1>1. t \in Seq(Nat) /\ n \in Nat /\ \A k \in 1 .. n : t[k] \in 0 .. base - 1
  BY DigitsAre
<1>2. /\ y \in 0 .. n /\ ZerosTo(t, y)
      /\ y < n => t[y + 1] # 0
  BY <1>1, ZerosCounted
<1>3. a \in Digits(base) /\ Len(a) = z /\ \A k \in 1 .. z : a[k] = 0
  BY ScratchIs
<1>4. b \in Digits(base) /\ Len(b) = d /\ \A k \in 1 .. d : b[k] = t[y + k]
  <2>1. b = SubSeq(t, y + 1, n)
    BY DEF Stripped
  <2>2. t \in Seq(0 .. base - 1)
    BY DEF Digits
  <2> HIDE DEF y, b
  <2>3. b \in Seq(0 .. base - 1) /\ Len(b) = d
    BY <1>1, <1>2, <2>1, <2>2
  <2>4. \A k \in 1 .. d : b[k] = t[y + k]
    <3>1. \A k \in 1 .. n - y : b[k] = t[(y + 1) + k - 1]
      BY <1>1, <1>2, <2>1, <2>2
    <3>2. \A k \in 1 .. n - y : (y + 1) + k - 1 = y + k
      BY <1>1, <1>2
    <3> QED
      BY <3>1, <3>2
  <2> QED
    BY <2>3, <2>4 DEF Digits
<1>5. r = a \o b
  OBVIOUS
<1> HIDE DEF a, b, y
<1>6. d \in Nat
  BY <1>1, <1>2
<1> HIDE DEF n, d
<1>7. /\ r \in Digits(base) /\ Len(r) = z + d
      /\ \A k \in 1 .. z : r[k] = 0
      /\ \A k \in 1 .. d : r[z + k] = t[y + k]
  <2>1. a \in Seq(0 .. base - 1) /\ b \in Seq(0 .. base - 1)
    BY <1>3, <1>4 DEF Digits
  <2>2. r \in Seq(0 .. base - 1) /\ Len(r) = z + d
    <3> DEFINE T == 0 .. base - 1
    <3>1. a \in Seq(T) /\ b \in Seq(T)
      BY <2>1
    <3> HIDE DEF T
    <3>2. a \o b \in Seq(T) /\ Len(a \o b) = Len(a) + Len(b)
      BY <3>1
    <3> QED
      BY <1>3, <1>4, <1>5, <3>2 DEF T
  <2>3. \A k \in 1 .. z : r[k] = a[k]
    BY <1>3, <1>4, <1>5, <1>6, <2>1
  <2>4. \A k \in 1 .. d : r[z + k] = b[k]
    BY <1>3, <1>4, <1>5, <1>6, <2>1
  <2> QED
    BY <1>3, <1>4, <2>2, <2>3, <2>4 DEF Digits
<1>8. r \in Seq(Nat) /\ ZerosTo(r, z)
  BY <1>7, DigitsAre DEF ZerosTo
<1>9. LeadingZeros(r) = z
  <2>1. z \in 0 .. Len(r)
    BY <1>6, <1>7
  <2>2. z < Len(r) => r[z + 1] # 0
    <3> SUFFICES ASSUME z < Len(r) PROVE r[z + 1] # 0
      OBVIOUS
    <3>1. 1 \in 1 .. d /\ y < n
      BY <1>1, <1>2, <1>6, <1>7 DEF d
    <3> QED
      BY <1>2, <1>7, <3>1
  <2> QED
    BY <1>8, <2>1, <2>2, ZerosAre
<1>10. Number(r, base) = Number(t, base)
  <2>1. z \in 0 .. Len(r) /\ y \in 0 .. Len(t) /\ Len(r) - z = Len(t) - y
    BY <1>1, <1>2, <1>6, <1>7 DEF d, n
  <2>2. \A k \in 1 .. Len(r) - z : r[z + k] = t[y + k]
    <3>1. Len(r) - z = d
      BY <1>6, <1>7
    <3> QED
      BY <1>7, <3>1
  <2> QED
    BY <1>1, <1>2, <1>8, <2>1, <2>2, ZerosDoNotCount
<1>11. Len(r) \in z .. z + Len(t)
  BY <1>1, <1>2, <1>6, <1>7 DEF d, n
<1> QED
  BY <1>7, <1>9, <1>10, <1>11

-----------------------------------------------------------------------------
(* Base58                                                                  *)

(* The lengths of the scratch arrays are enough (base58.c:33, 75).         *)
LEMMA EnoughRoom ==
  ASSUME NEW n \in Nat
  PROVE  /\ EncodedRoom(n) \in Nat /\ Power(256, n) <= Power(58, EncodedRoom(n))
         /\ (n * 733) \div 1000 + 1 \in Nat /\ Power(58, n) <= Power(256, (n * 733) \div 1000 + 1)
<1> DEFINE e == EncodedRoom(n)
           d == (n * 733) \div 1000 + 1
<1>1. e \in Nat /\ 11 * n <= 8 * e
  BY DEF EncodedRoom
<1>2. d \in Nat /\ 52 * n <= 71 * d
  OBVIOUS
<1> HIDE DEF e, d
<1>3. Power(256, n) <= Power(58, e)
  <2> DEFINE a == 256
             b == 58
             p == 11
             q == 8
  <2>1. /\ a \in Nat \ {0} /\ b \in Nat \ {0} /\ p \in Nat /\ q \in Nat \ {0}
        /\ Power(a, q) <= Power(b, p) /\ p * n <= q * e
    BY <1>1, SmallPowers
  <2> HIDE DEF a, b, p, q
  <2>2. Power(a, n) <= Power(b, e)
    BY <1>1, <2>1, Room
  <2> QED
    BY <2>2 DEF a, b
<1>4. Power(58, n) <= Power(256, d)
  <2> DEFINE a == 58
             b == 256
             p == 52
             q == 71
  <2>1. /\ a \in Nat \ {0} /\ b \in Nat \ {0} /\ p \in Nat /\ q \in Nat \ {0}
        /\ Power(a, q) <= Power(b, p) /\ p * n <= q * d
    BY <1>2, SmallPowers
  <2> HIDE DEF a, b, p, q
  <2>2. Power(a, n) <= Power(b, d)
    BY <1>2, <2>1, Room
  <2> QED
    BY <2>2 DEF a, b
<1> QED
  BY <1>1, <1>2, <1>3, <1>4 DEF e, d

(* r denotes in its base what s denotes in its own, with as many zeros in  *)
(* front.                                                                  *)
SameNumeral(r, base, s, radix) ==
  /\ r \in Digits(base) /\ LeadingZeros(r) = LeadingZeros(s)
  /\ Number(r, base) = Number(s, radix)

(* r is t with z zeros in front instead of its own.                        *)
Replacement(r, z, t, base) ==
  r \in Digits(base) /\ LeadingZeros(r) = z /\ Number(r, base) = Number(t, base)

LEMMA ReplacementIs ==
  ASSUME NEW base \in Nat, base > 0, NEW t \in Digits(base), NEW z \in Nat
  PROVE  Replacement(Scratch(z) \o Stripped(t), z, t, base)
<1> DEFINE r == Scratch(z) \o Stripped(t)
<1>1. r = Scratch(z) \o Stripped(t)
  OBVIOUS
<1> HIDE DEF r
<1>2. r \in Digits(base) /\ LeadingZeros(r) = z /\ Number(r, base) = Number(t, base)
  BY <1>1, Replaced
<1>3. Replacement(r, z, t, base)
  BY <1>2 DEF Replacement
<1> QED
  BY <1>3 DEF r

(* Both directions of the codec.                                           *)
LEMMA Recoded ==
  ASSUME NEW base \in Nat, base > 0, NEW radix \in Nat, radix > 0, NEW s \in Digits(radix),
         NEW len \in Nat, Power(radix, Len(s)) <= Power(base, len),
         NEW r, r = Scratch(LeadingZeros(s)) \o Stripped(Convert(s, LeadingZeros(s), radix, base, len))
  PROVE  SameNumeral(r, base, s, radix)
<1> DEFINE z == LeadingZeros(s)
           t == Convert(s, z, radix, base, len)
<1>1. z \in 0 .. Len(s) /\ ZerosTo(s, z) /\ z \in Nat
  <2>1. s \in Seq(Nat) /\ Len(s) \in Nat
    BY DigitsAre
  <2>2. z \in 0 .. Len(s) /\ ZerosTo(s, z)
    BY <2>1, ZerosCounted
  <2> HIDE DEF z
  <2> QED
    BY <2>1, <2>2
<1>2. r = Scratch(z) \o Stripped(t)
  OBVIOUS
<1> HIDE DEF z
<1>3. t \in Digits(base) /\ Number(t, base) = Number(s, radix)
  BY <1>1, ConvertValue
<1> HIDE DEF t
<1>4. r \in Digits(base) /\ LeadingZeros(r) = z /\ Number(r, base) = Number(t, base)
  <2>1. z \in Nat /\ t \in Digits(base)
    BY <1>1, <1>3
  <2>2. Replacement(Scratch(z) \o Stripped(t), z, t, base)
    BY <2>1, ReplacementIs
  <2> QED
    BY <1>2, <2>2, Zenon DEF Replacement
<1> QED
  BY <1>3, <1>4 DEF SameNumeral, z

(* What base58_decode makes of digits.                                     *)
Decoded(text) ==
  Scratch(LeadingZeros(text))
    \o Stripped(Convert(text, LeadingZeros(text), 58, 256, (Len(text) * 733) \div 1000 + 1))

LEMMA TextIs ==
  ASSUME NEW input \in Digits(256)
  PROVE  SameNumeral(Text(input), 58, input, 256)
<1> DEFINE a == 256
           b == 58
           len == EncodedRoom(Len(input))
<1>1. /\ a \in Nat /\ b \in Nat /\ a > 0 /\ b > 0 /\ input \in Digits(a)
      /\ Text(input) = Scratch(LeadingZeros(input))
                         \o Stripped(Convert(input, LeadingZeros(input), a, b, len))
  BY DEF Text
<1>2. Len(input) \in Nat
  <2> HIDE DEF a, b
  <2> QED
    BY <1>1, DigitsAre
<1>3. len \in Nat /\ Power(a, Len(input)) <= Power(b, len)
  BY <1>2, EnoughRoom
<1> HIDE DEF a, b, len
<1>4. SameNumeral(Text(input), b, input, a)
  BY <1>1, <1>3, Recoded
<1> QED
  BY <1>4 DEF a, b

LEMMA DecodedIs ==
  ASSUME NEW text \in Digits(58)
  PROVE  SameNumeral(Decoded(text), 256, text, 58)
<1> DEFINE a == 58
           b == 256
           len == (Len(text) * 733) \div 1000 + 1
<1>1. /\ a \in Nat /\ b \in Nat /\ a > 0 /\ b > 0 /\ text \in Digits(a)
      /\ Decoded(text) = Scratch(LeadingZeros(text))
                           \o Stripped(Convert(text, LeadingZeros(text), a, b, len))
  BY DEF Decoded
<1>2. Len(text) \in Nat
  <2> HIDE DEF a, b
  <2> QED
    BY <1>1, DigitsAre
<1>3. len \in Nat /\ Power(a, Len(text)) <= Power(b, len)
  BY <1>2, EnoughRoom
<1> HIDE DEF a, b, len
<1>4. SameNumeral(Decoded(text), b, text, a)
  BY <1>1, <1>3, Recoded
<1> QED
  BY <1>4 DEF a, b

(* The two directions undo each other.                                     *)
LEMMA Inverses ==
  /\ \A input \in Digits(256) : Decoded(Text(input)) = input
  /\ \A text \in Digits(58) : Text(Decoded(text)) = text
<1>1. ASSUME NEW input \in Digits(256) PROVE Decoded(Text(input)) = input
  <2> DEFINE t == Text(input)
             u == Decoded(t)
             b == 256
  <2>1. SameNumeral(t, 58, input, 256)
    BY TextIs
  <2>2. SameNumeral(u, 256, t, 58)
    BY <2>1, DecodedIs DEF SameNumeral
  <2> HIDE DEF t, u
  <2>3. /\ b \in Nat /\ b > 0 /\ u \in Digits(b) /\ input \in Digits(b)
        /\ LeadingZeros(u) = LeadingZeros(input) /\ Number(u, b) = Number(input, b)
    BY <2>1, <2>2 DEF SameNumeral
  <2> HIDE DEF b
  <2>4. u = input
    BY <2>3, NumeralUnique
  <2> QED
    BY <2>4 DEF t, u
<1>2. ASSUME NEW text \in Digits(58) PROVE Text(Decoded(text)) = text
  <2> DEFINE t == Decoded(text)
             u == Text(t)
             b == 58
  <2>1. SameNumeral(t, 256, text, 58)
    BY DecodedIs
  <2>2. SameNumeral(u, 58, t, 256)
    BY <2>1, TextIs DEF SameNumeral
  <2> HIDE DEF t, u
  <2>3. /\ b \in Nat /\ b > 0 /\ u \in Digits(b) /\ text \in Digits(b)
        /\ LeadingZeros(u) = LeadingZeros(text) /\ Number(u, b) = Number(text, b)
    BY <2>1, <2>2 DEF SameNumeral
  <2> HIDE DEF b
  <2>4. u = text
    BY <2>3, NumeralUnique
  <2> QED
    BY <2>4 DEF t, u
<1> QED
  BY <1>1, <1>2

(* How long a numeral of the same number can be.                           *)
LEMMA NumeralLength ==
  ASSUME NEW base \in Nat, base > 0, NEW radix \in Nat, radix > 0, NEW s \in Digits(radix),
         NEW r, SameNumeral(r, base, s, radix), NEW m \in Nat,
         Power(radix, Len(s) - LeadingZeros(s)) <= Power(base, m)
  PROVE  Len(r) <= LeadingZeros(s) + m
<1> DEFINE z == LeadingZeros(s)
           k == Len(s)
           n == Len(r)
           c == k - z
           d == n - z
<1>1. s \in Seq(Nat) /\ k \in Nat /\ \A i \in 1 .. k : s[i] \in 0 .. radix - 1
  BY DigitsAre
<1>2. r \in Digits(base) /\ LeadingZeros(r) = z /\ Number(r, base) = Number(s, radix)
  BY DEF SameNumeral
<1>3. r \in Seq(Nat) /\ n \in Nat /\ \A i \in 1 .. n : r[i] \in 0 .. base - 1
  BY <1>2, DigitsAre
<1>4. z \in 0 .. k /\ ZerosTo(s, z)
  BY <1>1, ZerosCounted
<1>5. z \in 0 .. n /\ ZerosTo(r, z) /\ (z < n => r[z + 1] # 0)
  BY <1>2, <1>3, ZerosCounted
<1>6. PICK v : Prefixes(v, s, radix, k) /\ Number(s, radix) = v[k]
  BY <1>1, NumberDefined
<1>7. PICK w : Prefixes(w, r, base, n) /\ Number(r, base) = w[n]
  BY <1>3, NumberDefined
<1> SUFFICES ASSUME n > z + m PROVE FALSE
  BY <1>1, <1>3, <1>4
<1>8. Power(radix, c) <= Power(base, m)
  OBVIOUS
<1> HIDE DEF z, k, n
<1>9. c \in 0 .. k - z /\ z + c = k /\ c \in Nat
  BY <1>1, <1>4
<1>10. d \in 0 .. n - z /\ z + d = n /\ d > 0 /\ z < n /\ d - 1 \in Nat /\ m <= d - 1
  BY <1>3, <1>4, <1>5
<1>11. v[z + c] < Power(radix, c)
  BY <1>1, <1>4, <1>6, <1>9, PrefixBounds
<1>12. w[z + d] >= Power(base, d - 1)
  BY <1>3, <1>5, <1>7, <1>10, PrefixBounds
<1>13. Power(base, m) <= Power(base, d - 1)
  BY <1>10, PowerRises
<1>14. Power(base, m) \in Nat /\ Power(base, d - 1) \in Nat /\ Power(radix, c) \in Nat
  BY <1>9, <1>10, PowerStep
<1>15. v[k] \in Nat /\ w[n] \in Nat /\ v[k] = w[n]
  BY <1>1, <1>2, <1>3, <1>6, <1>7 DEF Prefixes
<1>16. v[k] < Power(radix, c) /\ w[n] >= Power(base, d - 1)
  BY <1>9, <1>10, <1>11, <1>12
<1> HIDE DEF c, d
<1> QED
  BY <1>8, <1>13, <1>14, <1>15, <1>16

(* The text of a key has between 1 and 44 characters.                      *)
LEMMA KeyText ==
  ASSUME NEW key \in Digits(256), Len(key) = 32
  PROVE  Len(Text(key)) > 0 /\ Len(Text(key)) <= 44
<1> DEFINE a == 256
           b == 58
           t == Text(key)
           z == LeadingZeros(key)
           m == 44 - z
           n == 32 - z
<1>1. a \in Nat /\ a > 0 /\ b \in Nat /\ b > 0 /\ key \in Digits(a) /\ SameNumeral(t, b, key, a)
  BY TextIs
<1>2. key \in Seq(Nat)
  <2> HIDE DEF a
  <2> QED
    BY <1>1, DigitsAre
<1>3. z \in 0 .. 32
  BY <1>2, ZerosCounted
<1>4. t \in Digits(b)
  BY <1>1 DEF SameNumeral
<1>5. Len(t) \in Nat /\ t \in Seq(Nat)
  <2> HIDE DEF b, t
  <2> QED
    BY <1>1, <1>4, DigitsAre
<1> HIDE DEF z, t
<1>6. m \in Nat /\ n \in Nat /\ 11 * n <= 8 * m
  BY <1>3
<1>7. Power(a, n) <= Power(b, m)
  <2> DEFINE p == 11
             q == 8
  <2>1. /\ a \in Nat \ {0} /\ b \in Nat \ {0} /\ p \in Nat /\ q \in Nat \ {0}
        /\ Power(a, q) <= Power(b, p) /\ p * n <= q * m
    BY <1>6, SmallPowers
  <2> HIDE DEF a, b, p, q, n, m
  <2> QED
    BY <1>6, <2>1, Room
<1>8. Len(t) <= z + m
  <2>1. n = Len(key) - LeadingZeros(key)
    BY DEF z
  <2> HIDE DEF a, b, n, m
  <2> QED
    BY <1>1, <1>6, <1>7, <2>1, NumeralLength DEF z
<1>9. Len(t) <= 44
  BY <1>3, <1>5, <1>8
<1>10. Len(t) # 0
  <2> SUFFICES ASSUME Len(t) = 0 PROVE FALSE
    OBVIOUS
  <2> DEFINE e == <<>>
  <2>1. t = e
    BY <1>5
  <2>2. Decoded(t) = key
    BY Inverses DEF t
  <2>3. Decoded(e) = e
    <3> DEFINE u == Decoded(e)
    <3>1. e \in Digits(58) /\ e \in Seq(Nat) /\ Len(e) = 0 /\ e \in Digits(256)
      BY DEF Digits
    <3>2. SameNumeral(u, 256, e, 58)
      BY <3>1, DecodedIs
    <3> HIDE DEF e, u
    <3>3. Number(e, a) = 0 /\ Number(e, b) = 0
      <4>1. ASSUME NEW base \in Nat PROVE Number(e, base) = 0
        <5>1. PICK v : Prefixes(v, e, base, Len(e)) /\ Number(e, base) = v[Len(e)]
          BY <3>1, NumberDefined
        <5> QED
          BY <3>1, <5>1 DEF Prefixes
      <4> QED
        BY <1>1, <4>1
    <3>4. /\ u \in Digits(a) /\ e \in Digits(a) /\ LeadingZeros(u) = LeadingZeros(e)
          /\ Number(u, a) = Number(e, a)
      BY <3>1, <3>2, <3>3 DEF SameNumeral
    <3> HIDE DEF a
    <3>5. u = e
      BY <1>1, <3>4, NumeralUnique
    <3> QED
      BY <3>5 DEF u
  <2>4. Len(e) = 0
    OBVIOUS
  <2> HIDE DEF e
  <2> QED
    BY <2>1, <2>2, <2>3, <2>4
<1>11. Len(t) > 0
  BY <1>5, <1>10
<1> QED
  BY <1>9, <1>11 DEF t

(* What base58_decode returns for a text of digits, and that it refuses    *)
(* every other.                                                            *)
LEMMA DecodeIs ==
  ASSUME NEW text \in Seq(Nat), NEW cap \in Nat
  PROVE  /\ text \in Digits(58) =>
              base58_decode(text, cap, TRUE) = IF Len(Decoded(text)) > cap THEN [ret |-> -1, out |-> <<>>]
                                         ELSE [ret |-> Len(Decoded(text)), out |-> Decoded(text)]
         /\ text \notin Digits(58) => base58_decode(text, cap, TRUE).ret = -1
<1> DEFINE z == LeadingZeros(text)
           n == Len(text)
           digits == [i \in DOMAIN text |-> MAP(text[i])]
           bad == \E i \in z + 1 .. n : digits[i] < 0
<1>1. n \in Nat /\ DOMAIN text = 1 .. n /\ \A i \in 1 .. n : text[i] \in Nat
  OBVIOUS
<1>2. z \in 0 .. n /\ \A i \in 1 .. z : text[i] = 0
  BY ZerosCounted DEF ZerosTo
<1>3. /\ \A i \in 1 .. n : text[i] \in 0 .. 57 => digits[i] = text[i]
      /\ \A i \in 1 .. n : text[i] \notin 0 .. 57 => digits[i] = -1
  BY <1>1 DEF MAP
<1>4. text \in Digits(58) <=> \A i \in 1 .. n : text[i] \in 0 .. 57
  <2>1. 58 - 1 = 57
    OBVIOUS
  <2>2. text = [i \in 1 .. n |-> text[i]]
    BY <1>1
  <2>3. ASSUME \A i \in 1 .. n : text[i] \in 0 .. 57 PROVE [i \in 1 .. n |-> text[i]] \in Seq(0 .. 57)
    BY <1>1, <2>3
  <2>4. ASSUME text \in Digits(58) PROVE \A i \in 1 .. n : text[i] \in 0 .. 57
    <3> DEFINE b == 58
    <3>1. b \in Nat /\ text \in Digits(b) /\ b - 1 = 57
      BY <2>4
    <3> HIDE DEF b
    <3>2. \A i \in 1 .. n : text[i] \in 0 .. b - 1
      BY <3>1, DigitsAre
    <3> QED
      BY <3>1, <3>2
  <2> HIDE DEF n
  <2> QED
    BY <2>1, <2>2, <2>3, <2>4 DEF Digits
<1>5. bad <=> ~(\A i \in 1 .. n : text[i] \in 0 .. 57)
  <2> HIDE DEF digits, n, z
  <2>1. ASSUME bad PROVE ~(\A i \in 1 .. n : text[i] \in 0 .. 57)
    <3>1. PICK i \in z + 1 .. n : digits[i] < 0
      BY <2>1
    <3>2. i \in 1 .. n
      BY <1>1, <1>2
    <3>3. text[i] \in 0 .. 57 => digits[i] = text[i]
      BY <1>3, <3>2
    <3>4. text[i] \notin 0 .. 57
      <4>1. \A x \in 0 .. 57 : ~(x < 0)
        OBVIOUS
      <4>2. text[i] \in 0 .. 57 => text[i] < 0
        BY <3>1, <3>3
      <4> QED
        BY <4>1, <4>2
    <3> QED
      BY <3>2, <3>4
  <2>2. ASSUME NEW i \in 1 .. n, text[i] \notin 0 .. 57 PROVE bad
    <3>1. i \notin 1 .. z
      <4> SUFFICES ASSUME i \in 1 .. z PROVE FALSE
        OBVIOUS
      <4>1. text[i] = 0
        BY <1>2
      <4> QED
        BY <2>2, <4>1
    <3>2. i \in z + 1 .. n
      BY <1>1, <1>2, <3>1
    <3>3. digits[i] < 0
      <4>1. digits[i] = -1
        BY <1>3, <2>2
      <4> QED
        BY <4>1
    <3> QED
      BY <3>2, <3>3
  <2> QED
    BY <2>1, <2>2
<1>6. ASSUME text \in Digits(58) PROVE digits = text
  <2>1. text = [i \in 1 .. n |-> text[i]]
    BY <1>1
  <2>2. \A i \in 1 .. n : digits[i] = text[i]
    BY <1>3, <1>4, <1>6
  <2> QED
    BY <1>1, <2>1, <2>2
<1> DEFINE O(x) == Scratch(z) \o Stripped(Convert(x, z, 58, 256, (n * 733) \div 1000 + 1))
           out == O(digits)
<1>7. base58_decode(text, cap, TRUE) = IF bad \/ Len(out) > cap THEN [ret |-> -1, out |-> <<>>]
                                 ELSE [ret |-> Len(out), out |-> out]
  BY DEF base58_decode
<1>8. text \in Digits(58) => out = Decoded(text)
  <2>1. O(text) = Decoded(text)
    BY DEF Decoded
  <2> HIDE DEF O, digits
  <2> QED
    BY <1>6, <2>1
<1> HIDE DEF bad, out, digits, z, n
<1> DEFINE d == base58_decode(text, cap, TRUE)
<1>9. d = IF bad \/ Len(out) > cap THEN [ret |-> -1, out |-> <<>>] ELSE [ret |-> Len(out), out |-> out]
  BY <1>7
<1> HIDE DEF d
<1>10. /\ text \in Digits(58) =>
            d = IF Len(Decoded(text)) > cap THEN [ret |-> -1, out |-> <<>>]
                ELSE [ret |-> Len(Decoded(text)), out |-> Decoded(text)]
       /\ text \notin Digits(58) => d.ret = -1
  BY <1>4, <1>5, <1>8, <1>9
<1> QED
  BY <1>10, Zenon DEF d

(* Whatever the bytes, their text gives them back.                         *)
LEMMA DecodeText ==
  ASSUME NEW input \in Digits(256)
  PROVE  base58_decode(Text(input), Len(input), TRUE) = [ret |-> Len(input), out |-> input]
<1> DEFINE t == Text(input)
           b == 58
           a == 256
<1>1. t \in Digits(b) /\ b \in Nat /\ a \in Nat /\ input \in Digits(a)
  BY TextIs DEF SameNumeral
<1>2. t \in Seq(Nat) /\ Len(input) \in Nat
  <2> HIDE DEF a, b, t
  <2> QED
    BY <1>1, DigitsAre
<1>3. Decoded(t) = input
  BY Inverses
<1>4. ~(Len(input) > Len(input))
  BY <1>2
<1> HIDE DEF t
<1>5. base58_decode(t, Len(input), TRUE) = IF Len(Decoded(t)) > Len(input) THEN [ret |-> -1, out |-> <<>>]
                                     ELSE [ret |-> Len(Decoded(t)), out |-> Decoded(t)]
  BY <1>1, <1>2, DecodeIs
<1> QED
  BY <1>3, <1>4, <1>5 DEF t

(* And a text that decodes to the 32 bytes of a program id is the text of  *)
(* them, and a short one.                                                  *)
LEMMA TextOfDecoded ==
  ASSUME NEW text \in Seq(Nat), NEW d, d.ret = 32,
         text \in Digits(58) =>
           d = IF Len(Decoded(text)) > 32 THEN [ret |-> -1, out |-> <<>>]
               ELSE [ret |-> Len(Decoded(text)), out |-> Decoded(text)],
         text \notin Digits(58) => d.ret = -1
  PROVE  Text(d.out) = text /\ Len(text) > 0 /\ Len(text) <= 44
<1> DEFINE u == Decoded(text)
<1>1. text \in Digits(58)
  OBVIOUS
<1>2. d = IF Len(u) > 32 THEN [ret |-> -1, out |-> <<>>] ELSE [ret |-> Len(u), out |-> u]
  BY <1>1
<1>3. SameNumeral(u, 256, text, 58) /\ Text(u) = text
  BY <1>1, DecodedIs, Inverses
<1> HIDE DEF u
<1>4. Len(u) = 32 /\ d.out = u
  <2>1. CASE Len(u) > 32
    <3>1. d.ret = -1
      BY <1>2, <2>1
    <3> QED
      BY <3>1
  <2>2. CASE ~(Len(u) > 32)
    <3>1. d.ret = Len(u) /\ d.out = u
      BY <1>2, <2>2
    <3> QED
      BY <3>1
  <2> QED
    BY <2>1, <2>2
<1>5. u \in Digits(256)
  BY <1>3 DEF SameNumeral
<1>6. Len(text) > 0 /\ Len(text) <= 44
  BY <1>3, <1>4, <1>5, KeyText
<1> QED
  BY <1>3, <1>4, <1>6

(* It is what base58_encode writes for them.                               *)
LEMMA EncodeDecoded ==
  ASSUME NEW text \in Seq(Nat), base58_decode(text, 32, TRUE).ret = 32
  PROVE  LET id == base58_decode(text, 32, TRUE).out
         IN base58_encode(id, 64, TRUE) = [ret |-> Len(text), out |-> text] /\ Len(text) > 0
<1> DEFINE d == base58_decode(text, 32, TRUE)
           id == d.out
<1>1. 32 \in Nat
  OBVIOUS
<1>2. /\ text \in Digits(58) =>
           d = IF Len(Decoded(text)) > 32 THEN [ret |-> -1, out |-> <<>>]
               ELSE [ret |-> Len(Decoded(text)), out |-> Decoded(text)]
      /\ text \notin Digits(58) => d.ret = -1
  BY <1>1, DecodeIs, Zenon
<1>3. d.ret = 32
  BY Zenon
<1> HIDE DEF d
<1>4. Text(id) = text /\ Len(text) > 0 /\ Len(text) <= 44
  BY <1>2, <1>3, TextOfDecoded, Zenon
<1> HIDE DEF id
<1>5. ~(Len(text) + 1 > 64)
  BY <1>4
<1>6. base58_encode(id, 64, TRUE) = [ret |-> Len(text), out |-> text]
  BY <1>4, <1>5, Zenon DEF base58_encode
<1> QED
  BY <1>4, <1>6, Zenon DEF id, d

-----------------------------------------------------------------------------
(* Base64                                                                  *)

DecoderState == [buffer : Nat, bits : {0, 2, 4, 6}, out : Seq(Nat)]

(* The buffer after a character.                                           *)
Shifted(buffer, char) == (buffer * 64 + (char % 64)) % 65536

(* The byte that goes out when so many bits are held back.                 *)
ByteOut(bits, b) ==
  IF bits = 6 THEN (b \div 16) % 256 ELSE IF bits = 4 THEN (b \div 4) % 256 ELSE b % 256

(* u is the state after s and the character c.                             *)
Takes(s, c, u) ==
  LET b == Shifted(s.buffer, c)
  IN /\ u \in DecoderState
     /\ c > Pad => u = s
     /\ c <= Pad =>
          /\ b \in Nat /\ u.buffer = b
          /\ \/ s.bits = 0 /\ u.bits = 6 /\ u.out = s.out
             \/ /\ s.bits > 0 /\ u.bits = s.bits - 2
                /\ u.out = Append(s.out, ByteOut(s.bits, b)) /\ ByteOut(s.bits, b) \in Nat

(* What a character does: one that is skipped nothing, another gives a     *)
(* byte unless none is held back.                                          *)
LEMMA TakeCharTakes ==
  ASSUME NEW s \in DecoderState, NEW c \in Nat
  PROVE  Takes(s, c, TakeChar(s, c))
<1> DEFINE b == Shifted(s.buffer, c)
           u == TakeChar(s, c)
<1> DEFINE v == decode_table(c)
           w == (s.buffer * 64 + v) % 65536
           n == s.bits + 6
           T == CASE v = 128 -> s
                  [] v < 128 /\ n >= 8 ->
                       [buffer |-> w, bits |-> n - 8, out |-> Append(s.out, (w \div 2^(n - 8)) % 256)]
                  [] OTHER -> [buffer |-> w, bits |-> n, out |-> s.out]
<1>1. TakeChar(s, c) = T
  BY DEF TakeChar, Skipped
<1>2. s.buffer \in Nat /\ s.bits \in {0, 2, 4, 6} /\ s.out \in Seq(Nat)
  BY DEF DecoderState
<1>3. /\ c > 64 => v = 128
      /\ c <= 64 => v = c % 64 /\ v < 128 /\ v # 128
  <2>1. CASE c > 64
    <3>1. c \notin 0 .. 63 /\ c # Pad
      BY <2>1 DEF Pad
    <3>2. v = Skipped
      BY <3>1 DEF decode_table
    <3> QED
      BY <2>1, <3>2 DEF Skipped
  <2>2. CASE c = 64
    <3>1. c \notin 0 .. 63 /\ c = Pad
      BY <2>2 DEF Pad
    <3>2. v = 0
      BY <3>1 DEF decode_table
    <3>3. c % 64 = 0
      BY <2>2
    <3> QED
      BY <2>2, <3>2, <3>3
  <2>3. CASE c < 64
    <3>1. c \in 0 .. 63 /\ c # Pad
      BY <2>3 DEF Pad
    <3>2. v = c
      BY <3>1 DEF decode_table
    <3>3. c % 64 = c
      BY <2>3
    <3> HIDE DEF v
    <3> QED
      BY <2>3, <3>2, <3>3
  <2> QED
    BY <2>1, <2>2, <2>3
<1>4. b \in Nat
  <2>1. \A x \in Nat : (x * 64 + (c % 64)) % 65536 \in Nat
    OBVIOUS
  <2> QED
    BY <1>2, <2>1 DEF Shifted
<1>5. c <= 64 => w = b
  BY <1>3 DEF Shifted
<1> HIDE DEF v, w, b
<1>6. c > Pad => T = s
  BY <1>3 DEF Pad
<1>7. c <= Pad /\ s.bits = 0 => T = [buffer |-> b, bits |-> 6, out |-> s.out]
  <2>1. s.bits = 0 => n = 6 /\ ~(n >= 8)
    OBVIOUS
  <2> HIDE DEF n
  <2> QED
    BY <1>3, <1>5, <2>1 DEF Pad
<1>8. ASSUME c <= Pad, n >= 8
      PROVE  T = [buffer |-> b, bits |-> n - 8, out |-> Append(s.out, (b \div 2^(n - 8)) % 256)]
  <2> HIDE DEF n
  <2> QED
    BY <1>3, <1>5, <1>8 DEF Pad
<1> HIDE DEF T
<1>9. ASSUME c <= Pad, s.bits = 6
      PROVE  T = [buffer |-> b, bits |-> 4, out |-> Append(s.out, (b \div 16) % 256)]
  <2>1. n >= 8 /\ n - 8 = 4
    BY <1>9
  <2>2. 2^4 = 16
    OBVIOUS
  <2> HIDE DEF n
  <2> QED
    BY <1>8, <1>9, <2>1, <2>2
<1>10. ASSUME c <= Pad, s.bits = 4
       PROVE  T = [buffer |-> b, bits |-> 2, out |-> Append(s.out, (b \div 4) % 256)]
  <2>1. n >= 8 /\ n - 8 = 2
    BY <1>10
  <2>2. 2^2 = 4
    OBVIOUS
  <2> HIDE DEF n
  <2> QED
    BY <1>8, <1>10, <2>1, <2>2
<1>11. ASSUME c <= Pad, s.bits = 2
       PROVE  T = [buffer |-> b, bits |-> 0, out |-> Append(s.out, b % 256)]
  <2>1. n >= 8 /\ n - 8 = 0
    BY <1>11
  <2>2. 2^0 = 1 /\ b \div 1 = b
    BY <1>4
  <2> HIDE DEF n
  <2> QED
    BY <1>8, <1>11, <2>1, <2>2
<1>12. /\ b \in Nat
       /\ c > Pad => u = s
       /\ c <= Pad /\ s.bits = 0 => u = [buffer |-> b, bits |-> 6, out |-> s.out]
       /\ c <= Pad /\ s.bits = 6 =>
            u = [buffer |-> b, bits |-> 4, out |-> Append(s.out, (b \div 16) % 256)]
       /\ c <= Pad /\ s.bits = 4 =>
            u = [buffer |-> b, bits |-> 2, out |-> Append(s.out, (b \div 4) % 256)]
       /\ c <= Pad /\ s.bits = 2 =>
            u = [buffer |-> b, bits |-> 0, out |-> Append(s.out, b % 256)]
  BY <1>1, <1>4, <1>6, <1>7, <1>9, <1>10, <1>11 DEF u
<1> DEFINE x == ByteOut(s.bits, b)
<1> HIDE DEF u
<1>13. (b \div 16) % 256 \in Nat /\ (b \div 4) % 256 \in Nat /\ b % 256 \in Nat
  BY <1>12
<1>14. /\ s.bits = 6 => x = (b \div 16) % 256
       /\ s.bits = 4 => x = (b \div 4) % 256
       /\ s.bits = 2 => x = b % 256
       /\ x \in Nat
  BY <1>13 DEF ByteOut
<1> HIDE DEF x
<1>15. c > Pad \/ c <= Pad
  BY DEF Pad
<1>16. CASE c > Pad
  <2>1. ~(c <= Pad)
    BY <1>16 DEF Pad
  <2> QED
    BY <1>12, <1>16, <2>1 DEF Takes, u
<1>17. CASE c <= Pad
  <2>1. ~(c > Pad)
    BY <1>17 DEF Pad
  <2>2. Append(s.out, x) \in Seq(Nat)
    BY <1>2, <1>14
  <2>3. CASE s.bits = 0
    <3>1. u = [buffer |-> b, bits |-> 6, out |-> s.out]
      BY <1>12, <1>17, <2>3
    <3>2. u \in DecoderState
      BY <1>2, <1>12, <3>1 DEF DecoderState
    <3> QED
      BY <1>12, <2>1, <2>3, <3>1, <3>2 DEF Takes, u, b
  <2>4. CASE s.bits # 0
    <3>1. s.bits > 0 /\ u = [buffer |-> b, bits |-> s.bits - 2, out |-> Append(s.out, x)]
      <4>1. CASE s.bits = 6
        BY <1>12, <1>14, <1>17, <4>1
      <4>2. CASE s.bits = 4
        BY <1>12, <1>14, <1>17, <4>2
      <4>3. CASE s.bits = 2
        BY <1>12, <1>14, <1>17, <4>3
      <4> QED
        BY <1>2, <2>4, <4>1, <4>2, <4>3
    <3>2. s.bits - 2 \in {0, 2, 4, 6}
      BY <1>2, <2>4
    <3>3. u \in DecoderState
      BY <1>2, <1>12, <2>2, <3>1, <3>2 DEF DecoderState
    <3>4. u.buffer = b /\ u.bits = s.bits - 2 /\ u.out = Append(s.out, x)
      BY <3>1
    <3>5. s.bits > 0 /\ b \in Nat /\ x \in Nat
      BY <1>12, <1>14, <3>1
    <3> QED
      BY <1>17, <2>1, <3>3, <3>4, <3>5 DEF Takes, u, b, x
  <2> QED
    BY <2>3, <2>4
<1> QED
  BY <1>15, <1>16, <1>17

(* The states of the decoder, one for each character and one before.       *)
Decodes(t, input) ==
  /\ t \in [0 .. Len(input) -> DecoderState]
  /\ t[0] = [buffer |-> 0, bits |-> 0, out |-> <<>>]
  /\ \A k \in 1 .. Len(input) : t[k] = TakeChar(t[k - 1], input[k])

DecodedBy(bytes, input) == \E t : Decodes(t, input) /\ bytes = t[Len(input)].out

LEMMA DecodeDefined ==
  ASSUME NEW input \in Seq(Nat), NEW cap, ~(cap < base64_decoded_size(input))
  PROVE  DecodedBy(base64_decode(input, cap).out, input)
<1> DEFINE n == Len(input)
           V == DecoderState
           c == [buffer |-> 0, bits |-> 0, out |-> <<>>]
           C(k, s) == TakeChar(s, input[k])
           E == [k \in 1 .. n |-> [s \in V |-> C(k, s)]]
           Def(f) == [k \in 0 .. n |-> IF k = 0 THEN c ELSE C(k, f[k - 1])]
           p == CHOOSE f : f = Def(f)
<1>1. base64_decode(input, cap).out = p[n].out
  <2>1. base64_decode(input, cap) = [ret |-> 0, out |-> p[n].out]
    BY DEF base64_decode
  <2> HIDE DEF p
  <2> QED
    BY <2>1
<1>2. n \in Nat /\ \A k \in 1 .. n : input[k] \in Nat
  OBVIOUS
<1>3. c \in V
  BY DEF DecoderState
<1>4. ASSUME NEW k \in 1 .. n, NEW s \in V PROVE C(k, s) \in V
  BY <1>2, TakeCharTakes DEF Takes
<1> HIDE DEF n, c, C, V
<1>5. E \in Passes(1, n, V) /\ \A k \in 1 .. n, s \in V : E[k][s] = C(k, s)
  BY <1>4 DEF Passes
<1> HIDE DEF E
<1>6. PICK f \in [0 .. n -> V] : Continues(f, n, E, c)
  BY <1>2, <1>3, <1>5, FoldDefined
<1>7. f[0] = c /\ \A k \in 1 .. n : f[k] = C(k, f[k - 1])
  <2>1. \A k \in 1 .. n : k - 1 \in 0 .. n
    BY <1>2
  <2>2. \A k \in 1 .. n : f[k - 1] \in V
    BY <2>1
  <2> QED
    BY <1>5, <1>6, <2>2 DEF Continues
<1>8. f = Def(f)
  <2>1. \A k \in 0 .. n : k = 0 \/ k \in 1 .. n
    BY <1>2
  <2> QED
    BY <1>7, <2>1
<1>9. p = Def(p)
  BY <1>8
<1> HIDE DEF p
<1>10. p[0] = c /\ \A k \in 1 .. n : p[k] = C(k, p[k - 1])
  BY <1>2, <1>9
<1>11. \A k \in 0 .. n : p[k] \in V
  <2> DEFINE S == {k \in Nat : p[k] \in V}
  <2>1. 0 \in S
    BY <1>3, <1>10
  <2>2. ASSUME NEW k \in 1 .. n, k - 1 \in S PROVE k \in S
    BY <1>4, <1>10, <2>2
  <2>3. \A k \in 0 .. n : k \in S
    <3> HIDE DEF S
    <3> QED
      BY <1>2, <2>1, <2>2, IntervalInduction
  <2> QED
    BY <2>3
<1>12. p \in [0 .. n -> V]
  <2>1. Def(p) \in [0 .. n -> V]
    <3>1. \A k \in 0 .. n : Def(p)[k] \in V
      BY <1>9, <1>11
    <3> QED
      BY <3>1
  <2> QED
    BY <1>9, <2>1
<1> QED
  BY <1>1, <1>10, <1>12 DEF DecodedBy, Decodes, n, c, C, V

(* The characters among the first k that are not skipped.                  *)
TakenOf(input, k) == Cardinality({i \in 1 .. k : input[i] <= Pad})

LEMMA TakenStep ==
  ASSUME NEW input, NEW k \in Nat
  PROVE  /\ TakenOf(input, 0) = 0 /\ TakenOf(input, k) \in Nat
         /\ TakenOf(input, k + 1) = IF input[k + 1] <= Pad THEN TakenOf(input, k) + 1 ELSE TakenOf(input, k)
<1> DEFINE S == {i \in 1 .. k : input[i] <= Pad}
           T == {i \in 1 .. k + 1 : input[i] <= Pad}
<1>1. IsFiniteSet(S) /\ Cardinality(S) \in Nat
  <2>1. IsFiniteSet(1 .. k) /\ S \subseteq 1 .. k
    BY FS_Interval
  <2>2. IsFiniteSet(S)
    BY <2>1, FS_Subset
  <2> QED
    BY <2>2, FS_CardinalityType
<1>2. {i \in 1 .. 0 : input[i] <= Pad} = {}
  OBVIOUS
<1>3. \A i : i \in 1 .. k + 1 <=> i \in 1 .. k \/ i = k + 1
  OBVIOUS
<1>4. k + 1 \notin S
  OBVIOUS
<1>5. CASE input[k + 1] <= Pad
  <2>1. T = S \cup {k + 1}
    BY <1>3, <1>5
  <2> HIDE DEF S, T
  <2>2. Cardinality(T) = Cardinality(S) + 1
    BY <1>1, <1>4, <2>1, FS_AddElement
  <2> QED
    BY <1>1, <1>2, <1>5, <2>2, FS_EmptySet DEF TakenOf, S, T
<1>6. CASE ~(input[k + 1] <= Pad)
  <2>1. T = S
    BY <1>3, <1>6
  <2> QED
    BY <1>1, <1>2, <1>6, <2>1, FS_EmptySet DEF TakenOf
<1> QED
  BY <1>5, <1>6

(* Six bits come in with every character that is taken, and eight go out   *)
(* with every byte.                                                        *)
LEMMA BitsKept ==
  ASSUME NEW input \in Seq(Nat), NEW t, Decodes(t, input)
  PROVE  \A k \in 0 .. Len(input) : 8 * Len(t[k].out) + t[k].bits = 6 * TakenOf(input, k)
<1> DEFINE n == Len(input)
           S == {k \in Nat : 8 * Len(t[k].out) + t[k].bits = 6 * TakenOf(input, k)}
<1>1. n \in Nat /\ \A k \in 1 .. n : input[k] \in Nat
  OBVIOUS
<1>2. /\ t[0] = [buffer |-> 0, bits |-> 0, out |-> <<>>]
      /\ \A k \in 1 .. n : t[k] = TakeChar(t[k - 1], input[k])
      /\ \A k \in 0 .. n : t[k] \in DecoderState
  BY DEF Decodes
<1> HIDE DEF n
<1>3. 0 \in S
  <2>1. t[0].bits = 0 /\ Len(t[0].out) = 0 /\ TakenOf(input, 0) = 0
    BY <1>2, TakenStep
  <2> QED
    BY <2>1
<1>4. ASSUME NEW k \in 1 .. n, k - 1 \in S PROVE k \in S
  <2> DEFINE s == t[k - 1]
             c == input[k]
             u == t[k]
             m == TakenOf(input, k - 1)
  <2>1. k - 1 \in 0 .. n /\ k - 1 \in Nat /\ (k - 1) + 1 = k /\ k \in Nat
    BY <1>1
  <2>2. s \in DecoderState /\ c \in Nat /\ u = TakeChar(s, c)
    BY <1>1, <1>2, <2>1
  <2>3. m \in Nat /\ TakenOf(input, k) = IF c <= Pad THEN m + 1 ELSE m
    <3>1. TakenOf(input, k - 1) \in Nat
      BY <2>1, TakenStep
    <3>2. TakenOf(input, (k - 1) + 1) = IF input[(k - 1) + 1] <= Pad THEN TakenOf(input, k - 1) + 1
                                        ELSE TakenOf(input, k - 1)
      BY <2>1, TakenStep
    <3> QED
      BY <2>1, <3>1, <3>2
  <2>4. 8 * Len(s.out) + s.bits = 6 * m
    BY <1>4
  <2>5. s.bits \in {0, 2, 4, 6} /\ s.out \in Seq(Nat) /\ Len(s.out) \in Nat
    BY <2>2 DEF DecoderState
  <2>6. Takes(s, c, u)
    BY <2>2, TakeCharTakes
  <2> HIDE DEF s, c, u, m
  <2>8. 8 * Len(u.out) + u.bits = 6 * TakenOf(input, k)
    <3>1. CASE c > Pad
      <4>1. u = s /\ ~(c <= Pad)
        BY <2>2, <2>6, <3>1 DEF Pad, Takes
      <4> QED
        BY <2>3, <2>4, <4>1
    <3>2. CASE c <= Pad
      <4>1. TakenOf(input, k) = m + 1
        BY <2>3, <3>2
      <4>2. CASE s.bits = 0
        <5>1. u.out = s.out /\ u.bits = 6
          BY <2>6, <3>2, <4>2 DEF Takes
        <5> DEFINE l == Len(s.out)
        <5>2. l \in Nat /\ 8 * l + 0 = 6 * m /\ Len(u.out) = l
          BY <2>4, <2>5, <4>2, <5>1
        <5> HIDE DEF l
        <5>3. 8 * l + 6 = 6 * (m + 1)
          BY <2>3, <5>2
        <5> QED
          BY <4>1, <5>1, <5>2, <5>3
      <4>3. CASE s.bits # 0
        <5>1. PICK x \in Nat : u.out = Append(s.out, x) /\ u.bits = s.bits - 2
          BY <2>6, <3>2, <4>3 DEF Takes
        <5>2. Len(u.out) = Len(s.out) + 1 /\ s.bits \in Nat
          BY <2>5, <5>1
        <5> DEFINE l == Len(s.out)
                   h == s.bits
        <5>3. l \in Nat /\ h \in Nat /\ 8 * l + h = 6 * m
          BY <2>4, <2>5, <5>2
        <5>4. Len(u.out) = l + 1 /\ u.bits = h - 2
          BY <5>1, <5>2
        <5> HIDE DEF l, h
        <5>5. 8 * (l + 1) + (h - 2) = 6 * (m + 1)
          BY <2>3, <5>3
        <5> QED
          BY <4>1, <5>4, <5>5
      <4> QED
        BY <4>2, <4>3
    <3> QED
      BY <2>2, <3>1, <3>2 DEF Pad
  <2> QED
    BY <2>1, <2>8 DEF u
<1>5. \A k \in 0 .. n : k \in S
  <2> HIDE DEF S
  <2> QED
    BY <1>1, <1>3, <1>4, IntervalInduction
<1> QED
  BY <1>5 DEF n

LEMMA RemainderIs ==
  ASSUME NEW m \in Nat, m > 0, NEW n \in Nat, NEW k \in Int, NEW r \in 0 .. m - 1, n = m * k + r
  PROVE  n % m = r
<1> DEFINE s == n % m
<1>1. s \in 0 .. m - 1 /\ \E q \in Int : n = m * q + s
  BY Remainder
<1> HIDE DEF s
<1>2. PICK q \in Int : n = m * q + s
  BY <1>1
<1>3. m * q + s = m * k + r
  BY <1>2
<1>4. s = r
  BY <1>1, <1>3, RemainderUnique
<1> QED
  BY <1>4 DEF s

(* The byte that goes out consists of bits of the last character before    *)
(* and of this one.                                                        *)
LastTwo(p, d, x) ==
  /\ ByteOut(6, x) = 4 * p + (d \div 16)
  /\ ByteOut(4, x) = 16 * (p % 16) + (d \div 4)
  /\ ByteOut(2, x) = 64 * (p % 4) + d
  /\ x % 64 = d

LEMMA ByteShifted ==
  ASSUME NEW b \in Nat, NEW c \in Nat
  PROVE  LastTwo(b % 64, c % 64, Shifted(b, c))
<1> DEFINE p == b % 64
           d == c % 64
           x == Shifted(b, c)
<1>10. p \in Nat /\ d \in Nat /\ p < 64 /\ d < 64 /\ b % 64 = p /\ c % 64 = d
  OBVIOUS
<1>11. x = (b * 64 + d) % 65536
  BY DEF Shifted
<1> HIDE DEF p, d, x
<1>0. p \in Nat /\ d \in Nat /\ p < 64 /\ d < 64
  BY <1>10
<1>1. x = (b * 64 + d) % 65536
  BY <1>11
<1>2. PICK q \in Nat : b = 64 * q + p
  BY <1>10
<1>3. x \in Nat /\ x < 65536 /\ \E r \in Nat : 4096 * q + 64 * p + d = 65536 * r + x
  <2> DEFINE y == 4096 * q + 64 * p + d
  <2>1. y \in Nat /\ x = y % 65536
    <3>1. b * 64 + d = y
      BY <1>0, <1>2
    <3>2. y \in Nat
      BY <1>0, <1>2
    <3> QED
      BY <1>1, <3>1, <3>2
  <2> HIDE DEF y
  <2>2. x \in Nat /\ x < 65536 /\ \E r \in Nat : y = 65536 * r + x
    BY <2>1
  <2> QED
    BY <2>2 DEF y
<1>4. PICK r \in Nat : 4096 * q + 64 * p + d = 65536 * r + x
  BY <1>3
<1>5. x \in Nat /\ x < 65536
  BY <1>3
<1>6. x % 64 = d
  <2> DEFINE m == 64
             k == 64 * q + p - 1024 * r
             z == d
  <2>1. m \in Nat /\ m > 0 /\ k \in Int /\ z \in 0 .. m - 1
    BY <1>0, <1>4, <1>5
  <2>2. x = m * k + z
    BY <1>0, <1>4, <1>5
  <2> HIDE DEF m, k, z
  <2>3. x % m = z
    BY <1>5, <2>1, <2>2, RemainderIs
  <2> QED
    BY <2>3 DEF m, z
<1>7. x % 256 = 64 * (p % 4) + d
  <2>0. p % 4 \in Nat /\ p \div 4 \in Nat /\ p = 4 * (p \div 4) + (p % 4) /\ p % 4 < 4
    BY <1>0
  <2>1. PICK u \in Nat, v \in Nat : p = 4 * v + u /\ p % 4 = u /\ u < 4
    BY <2>0
  <2>2. x % 256 = 64 * u + d
    <3> DEFINE m == 256
               k == 16 * q + v - 256 * r
               z == 64 * u + d
    <3>1. m \in Nat /\ m > 0 /\ k \in Int /\ z \in 0 .. m - 1
      BY <1>0, <1>4, <1>5, <2>1
    <3>2. x = m * k + z
      BY <1>0, <1>4, <1>5, <2>1
    <3> HIDE DEF m, k, z
    <3>3. x % m = z
      BY <1>5, <3>1, <3>2, RemainderIs
    <3> QED
      BY <3>3 DEF m, z
  <2> QED
    BY <2>1, <2>2
<1>8. (x \div 4) % 256 = 16 * (p % 16) + (d \div 4)
  <2>0. p % 16 \in Nat /\ p \div 16 \in Nat /\ p = 16 * (p \div 16) + (p % 16) /\ p % 16 < 16
    BY <1>0
  <2>1. PICK u \in Nat, v \in Nat : p = 16 * v + u /\ p % 16 = u /\ u < 16
    BY <2>0
  <2>2. x % 1024 = 64 * u + d
    <3> DEFINE m == 1024
               k == 4 * q + v - 64 * r
               z == 64 * u + d
    <3>1. m \in Nat /\ m > 0 /\ k \in Int /\ z \in 0 .. m - 1
      BY <1>0, <1>4, <1>5, <2>1
    <3>2. x = m * k + z
      BY <1>0, <1>4, <1>5, <2>1
    <3> HIDE DEF m, k, z
    <3>3. x % m = z
      BY <1>5, <3>1, <3>2, RemainderIs
    <3> QED
      BY <3>3 DEF m, z
  <2>3. (x \div 4) % 256 = (x % 1024) \div 4
    BY <1>5
  <2>4. (64 * u + d) \div 4 = 16 * u + (d \div 4)
    BY <1>0, <2>1
  <2> QED
    BY <2>1, <2>2, <2>3, <2>4
<1>9. (x \div 16) % 256 = 4 * p + (d \div 16)
  <2>2. x % 4096 = 64 * p + d
    <3> DEFINE m == 4096
               k == q - 16 * r
               z == 64 * p + d
    <3>1. m \in Nat /\ m > 0 /\ k \in Int /\ z \in 0 .. m - 1
      BY <1>0, <1>4, <1>5
    <3>2. x = m * k + z
      BY <1>0, <1>4, <1>5
    <3> HIDE DEF m, k, z
    <3>3. x % m = z
      BY <1>5, <3>1, <3>2, RemainderIs
    <3> QED
      BY <3>3 DEF m, z
  <2>3. (x \div 16) % 256 = (x % 4096) \div 16
    BY <1>5
  <2>4. (64 * p + d) \div 16 = 4 * p + (d \div 16)
    BY <1>0
  <2> QED
    BY <2>2, <2>3, <2>4
<1> QED
  BY <1>6, <1>7, <1>8, <1>9 DEF ByteOut, LastTwo, p, d, x

(* The bytes of a group of four sextets.                                   *)
GroupOf(a, b, c, d) == 64 * (64 * (64 * a + b) + c) + d

LEMMA GroupBytes ==
  ASSUME NEW a \in Nat, NEW b \in Nat, NEW c \in Nat, NEW d \in Nat,
         a < 64, b < 64, c < 64, d < 64,
         NEW g, g = GroupOf(a, b, c, d)
  PROVE  /\ (g \div 65536) % 256 = 4 * a + (b \div 16)
         /\ (g \div 256) % 256 = 16 * (b % 16) + (c \div 4)
         /\ g % 256 = 64 * (c % 4) + d
<1>1. g = 262144 * a + 4096 * b + 64 * c + d /\ g \in Nat
  BY DEF GroupOf
<1>2. PICK u \in Nat, v \in Nat : u < 4 /\ v < 16 /\ b = 16 * u + v /\ b % 16 = v /\ b \div 16 = u
  OBVIOUS
<1>3. PICK w \in Nat, z \in Nat : w < 16 /\ z < 4 /\ c = 4 * w + z /\ c % 4 = z /\ c \div 4 = w
  OBVIOUS
<1>4. g % 256 = 64 * z + d
  BY <1>1, <1>2, <1>3
<1>5. g \div 256 = 1024 * a + 16 * b + w
  BY <1>1, <1>2, <1>3
<1>6. (g \div 256) % 256 = 16 * v + w
  BY <1>2, <1>3, <1>5
<1>7. g \div 65536 = 4 * a + u
  BY <1>1, <1>2, <1>3
<1>8. (g \div 65536) % 256 = 4 * a + u
  BY <1>2, <1>7
<1> QED
  BY <1>2, <1>3, <1>4, <1>6, <1>8

(* A text of which nothing is skipped.                                     *)
AllTaken(input) == \A i \in 1 .. Len(input) : input[i] <= Pad

(* The byte of index i, from the characters it comes from.                 *)
ByteAt(input, i) ==
  LET g == 4 * (i \div 3)
  IN CASE i % 3 = 0 -> 4 * (input[g + 1] % 64) + ((input[g + 2] % 64) \div 16)
       [] i % 3 = 1 -> 16 * ((input[g + 2] % 64) % 16) + ((input[g + 3] % 64) \div 4)
       [] OTHER     -> 64 * ((input[g + 3] % 64) % 4) + (input[g + 4] % 64)

(* So many bits are held back after a character: which byte comes next.    *)
LEMMA Position ==
  ASSUME NEW l \in Nat, NEW h \in {2, 4, 6}, NEW j \in Nat, 8 * l + h = 6 * j
  PROVE  /\ h = 6 => j = 4 * (l \div 3) + 1 /\ l % 3 = 0
         /\ h = 4 => j = 4 * (l \div 3) + 2 /\ l % 3 = 1
         /\ h = 2 => j = 4 * (l \div 3) + 3 /\ l % 3 = 2
<1>1. PICK m \in Nat, r \in Nat : l = 3 * m + r /\ r < 3 /\ l \div 3 = m /\ l % 3 = r
  OBVIOUS
<1>2. h = 6 => r = 0 /\ j = 4 * m + 1
  BY <1>1
<1>3. h = 4 => r = 1 /\ j = 4 * m + 2
  BY <1>1
<1>4. h = 2 => r = 2 /\ j = 4 * m + 3
  BY <1>1
<1> QED
  BY <1>1, <1>2, <1>3, <1>4

LEMMA TakenAll ==
  ASSUME NEW input \in Seq(Nat), AllTaken(input)
  PROVE  \A k \in 0 .. Len(input) : TakenOf(input, k) = k
<1> DEFINE n == Len(input)
           S == {k \in Nat : TakenOf(input, k) = k}
<1>1. n \in Nat /\ 0 \in S
  BY TakenStep
<1>2. ASSUME NEW k \in 1 .. n, k - 1 \in S PROVE k \in S
  <2>1. input[k] <= Pad /\ k - 1 \in Nat /\ (k - 1) + 1 = k
    BY <1>1 DEF AllTaken
  <2>2. TakenOf(input, (k - 1) + 1) = IF input[(k - 1) + 1] <= Pad THEN TakenOf(input, k - 1) + 1
                                      ELSE TakenOf(input, k - 1)
    BY <2>1, TakenStep
  <2> QED
    BY <1>2, <2>1, <2>2
<1> HIDE DEF n, S
<1>3. \A k \in 0 .. n : k \in S
  BY <1>1, <1>2, IntervalInduction
<1> QED
  BY <1>3 DEF n, S

(* What has been decoded of the first k characters.                        *)
Written(s, input, k) ==
  /\ k > 0 => s.buffer % 64 = input[k] % 64
  /\ \A i \in 1 .. Len(s.out) : s.out[i] = ByteAt(input, i - 1)

(* A step of the decoder.                                                  *)
LEMMA WrittenStep ==
  ASSUME NEW input \in Seq(Nat), NEW k \in 1 .. Len(input), NEW s \in DecoderState, NEW u,
         input[k] <= Pad, Takes(s, input[k], u),
         8 * Len(s.out) + s.bits = 6 * (k - 1),
         Written(s, input, k - 1)
  PROVE  Written(u, input, k)
<1> DEFINE c == input[k]
           l == Len(s.out)
           h == s.bits
           b == s.buffer
           x == Shifted(b, c)
           d == c % 64
           p == b % 64
<1>1. /\ k \in Nat /\ k > 0 /\ k - 1 \in Nat /\ c \in Nat /\ l \in Nat /\ b \in Nat /\ h \in {0, 2, 4, 6}
      /\ s.out \in Seq(Nat)
  BY DEF DecoderState
<1>2. d \in Nat /\ p \in Nat
  BY <1>1
<1>3. /\ ByteOut(6, x) = 4 * p + (d \div 16)
      /\ ByteOut(4, x) = 16 * (p % 16) + (d \div 4)
      /\ ByteOut(2, x) = 64 * (p % 4) + d
      /\ x % 64 = d
  <2>1. LastTwo(p, d, x)
    <3> HIDE DEF b, c
    <3> QED
      BY <1>1, ByteShifted
  <2> HIDE DEF d, p, x
  <2> QED
    BY <2>1 DEF LastTwo
<1>4. u.buffer % 64 = input[k] % 64
  <2>1. u.buffer = x
    BY DEF Takes
  <2> QED
    BY <1>3, <2>1
<1>5. CASE h = 0
  <2>1. u.out = s.out
    BY <1>5 DEF Takes
  <2> QED
    BY <1>4, <2>1 DEF Written
<1>6. CASE h # 0
  <2> DEFINE y == ByteOut(h, x)
             o == s.out
             w == u.out
  <2>1. w = Append(o, y) /\ y \in Nat
    BY <1>6 DEF Takes
  <2>2. y = ByteAt(input, l)
    <3> DEFINE g == 4 * (l \div 3)
               j == k - 1
    <3>1. /\ h = 6 => j = g + 1 /\ l % 3 = 0
          /\ h = 4 => j = g + 2 /\ l % 3 = 1
          /\ h = 2 => j = g + 3 /\ l % 3 = 2
          /\ h \in {2, 4, 6}
      <4>1. h \in {2, 4, 6} /\ 8 * l + h = 6 * j /\ j \in Nat
        BY <1>1, <1>6
      <4> HIDE DEF h, j, l
      <4> QED
        BY <1>1, <4>1, Position
    <3>2. g \in Nat /\ j \in Nat /\ k = j + 1
      <4>1. j \in Nat /\ k = j + 1
        BY <1>1
      <4> HIDE DEF l
      <4>2. g \in Nat
        BY <1>1
      <4> QED
        BY <4>1, <4>2
    <3>3. j > 0 => p = input[j] % 64
      BY DEF Written
    <3>4. d = input[k] % 64
      OBVIOUS
    <3> HIDE DEF b, c, d, h, j, l, p, x, g
    <3>5. CASE h = 6
      <4>1. j > 0 /\ k = g + 2 /\ l % 3 = 0 /\ j = g + 1
        BY <3>1, <3>2, <3>5
      <4>2. ByteAt(input, l) = 4 * (input[g + 1] % 64) + ((input[g + 2] % 64) \div 16)
        BY <4>1 DEF ByteAt, g
      <4> QED
        BY <1>3, <3>3, <3>4, <3>5, <4>1, <4>2
    <3>6. CASE h = 4
      <4>1. j > 0 /\ k = g + 3 /\ l % 3 = 1 /\ j = g + 2
        BY <3>1, <3>2, <3>6
      <4>2. ByteAt(input, l) = 16 * ((input[g + 2] % 64) % 16) + ((input[g + 3] % 64) \div 4)
        BY <4>1 DEF ByteAt, g
      <4> QED
        BY <1>3, <3>3, <3>4, <3>6, <4>1, <4>2
    <3>7. CASE h = 2
      <4>1. j > 0 /\ k = g + 4 /\ l % 3 = 2 /\ j = g + 3
        BY <3>1, <3>2, <3>7
      <4>2. ByteAt(input, l) = 64 * ((input[g + 3] % 64) % 4) + (input[g + 4] % 64)
        <5>1. ~(l % 3 = 0) /\ ~(l % 3 = 1)
          BY <4>1
        <5> QED
          BY <5>1 DEF ByteAt, g
      <4> QED
        BY <1>3, <3>3, <3>4, <3>7, <4>1, <4>2
    <3> QED
      BY <3>1, <3>5, <3>6, <3>7
  <2>3. o \in Seq(Nat) /\ l = Len(o) /\ \A i \in 1 .. l : o[i] = ByteAt(input, i - 1)
    BY <1>1 DEF Written
  <2> HIDE DEF y, o, w, l
  <2>4. /\ Len(w) = l + 1 /\ w[l + 1] = y
        /\ \A i \in 1 .. l : w[i] = o[i]
    BY <2>1, <2>3
  <2>5. ASSUME NEW i \in 1 .. Len(w) PROVE w[i] = ByteAt(input, i - 1)
    <3>1. CASE i = l + 1
      <4>1. i - 1 = l
        BY <1>1, <3>1
      <4> QED
        BY <2>2, <2>4, <3>1, <4>1
    <3>2. CASE i # l + 1
      <4>1. i \in 1 .. l
        BY <1>1, <2>4, <3>2
      <4> QED
        BY <2>3, <2>4, <4>1
    <3> QED
      BY <3>1, <3>2
  <2> QED
    BY <1>4, <2>5 DEF Written, w
<1> QED
  BY <1>5, <1>6

(* What the decoder writes for a text of which nothing is skipped.         *)
LEMMA DecodeWrites ==
  ASSUME NEW input \in Seq(Nat), NEW t, Decodes(t, input), AllTaken(input)
  PROVE  Written(t[Len(input)], input, Len(input))
<1> DEFINE n == Len(input)
           S == {k \in Nat : Written(t[k], input, k)}
<1>1. n \in Nat /\ \A k \in 1 .. n : input[k] \in Nat /\ input[k] <= Pad
  BY DEF AllTaken
<1>2. /\ t[0] = [buffer |-> 0, bits |-> 0, out |-> <<>>]
      /\ \A k \in 1 .. n : t[k] = TakeChar(t[k - 1], input[k])
      /\ \A k \in 0 .. n : t[k] \in DecoderState
  BY DEF Decodes
<1>3. \A k \in 0 .. n : 8 * Len(t[k].out) + t[k].bits = 6 * k
  BY BitsKept, TakenAll
<1>4. 0 \in S
  <2>1. Len(t[0].out) = 0
    BY <1>2
  <2> QED
    BY <2>1 DEF Written
<1>5. ASSUME NEW k \in 1 .. n, k - 1 \in S PROVE k \in S
  <2>1. k - 1 \in 0 .. n /\ k \in Nat
    BY <1>1
  <2>2. t[k - 1] \in DecoderState /\ 8 * Len(t[k - 1].out) + t[k - 1].bits = 6 * (k - 1)
    BY <1>2, <1>3, <2>1
  <2>3. Takes(t[k - 1], input[k], t[k])
    BY <1>1, <1>2, <2>2, TakeCharTakes
  <2>4. Written(t[k], input, k)
    BY <1>1, <1>5, <2>2, <2>3, WrittenStep
  <2> QED
    BY <2>1, <2>4
<1> HIDE DEF n, S
<1>6. \A k \in 0 .. n : k \in S
  BY <1>1, <1>4, <1>5, IntervalInduction
<1> QED
  BY <1>1, <1>6 DEF n, S
=============================================================================
