-------------------------- MODULE EventQueueProofs --------------------------
(***************************************************************************)
(* Theorems about EventQueue for every capacity, every finite set of       *)
(* producers and consumers and every bound on the number of pushes.  The   *)
(* last part shows that EventQueue implements BoundedFifo: the ring, read  *)
(* from head onwards, is the sequence of accepted and not yet taken        *)
(* events, and a call takes effect in the step in which it returns.        *)
(***************************************************************************)
EXTENDS EventQueue, FiniteSetTheorems, TLAPS

(* The ring index arithmetic of event_queue.c:60 and 86 stays in range.    *)
LEMMA NextSlotInRange == \A i \in Slots : NextSlot(i) \in Slots
  BY QueueAssumption DEF Slots, NextSlot

(* What signalling and returning does to pc, whoever is woken.             *)
LEMMA SignalType ==
  ASSUME TypeOK, NEW t \in Threads, NEW S \in SUBSET Threads,
         SignalAndReturn(t, S)
  PROVE  /\ pc' \in [Threads -> {"idle", "ready", "waiting"}]
         /\ pc'[t] = "idle" \/ t \in Waiting(S)
         /\ \A u \in Threads : pc[u] = "idle" => pc'[u] = "idle"
  BY DEF TypeOK, SignalAndReturn, Waiting

(* The fields keep their types: in particular the indices stay inside the  *)
(* buffer and the size never passes the capacity (event_queue.c:50-103).   *)
THEOREM TypeCorrect == Spec => []TypeOK
<1>1. Init => TypeOK
  <2> SUFFICES ASSUME Init PROVE TypeOK
    OBVIOUS
  <2>1. 0 \in Slots /\ 0 \in 0 .. Capacity
    BY QueueAssumption DEF Slots
  <2>2. \A p \in Producers : pc[p] = "idle"
    BY DEF Init, Threads
  <2> QED
    BY <2>1, <2>2 DEF Init, TypeOK
<1>2. TypeOK /\ [Next]_vars => TypeOK'
  <2> SUFFICES ASSUME TypeOK, [Next]_vars PROVE TypeOK'
    OBVIOUS
  <2> USE QueueAssumption
  <2>1. ASSUME NEW p \in Producers, NEW e \in Events, CallPush(p, e) PROVE TypeOK'
    BY <2>1 DEF CallPush, TypeOK, Returns, ring, metrics, Threads
  <2>2. ASSUME NEW p \in Producers, PushWait(p) PROVE TypeOK'
    BY <2>2 DEF PushWait, TypeOK, Wait, ring, metrics, Threads
  <2>3. ASSUME NEW p \in Producers, PushRefuse(p) PROVE TypeOK'
    BY <2>3 DEF PushRefuse, TypeOK, Return, Returns, DropEvent, ring, metrics, Threads
  <2>4. ASSUME NEW p \in Producers, PushAccept(p) PROVE TypeOK'
    <3>1. p \in Threads /\ Consumers \in SUBSET Threads /\ p \notin Waiting(Consumers)
      BY DEF Threads, Waiting
    <3>2. SignalAndReturn(p, Consumers)
      BY <2>4 DEF PushAccept
    <3>3. /\ pc' \in [Threads -> {"idle", "ready", "waiting"}]
          /\ pc'[p] = "idle"
          /\ \A u \in Threads : pc[u] = "idle" => pc'[u] = "idle"
      BY <3>1, <3>2, SignalType
    <3>4. tail' \in Slots /\ buffer' \in [Slots -> Events \cup {NoEvent}]
      BY <2>4, NextSlotInRange DEF PushAccept, TypeOK
    <3>5. size' \in 0 .. Capacity /\ queue_pushes' \in Nat /\ queue_high_water' \in Nat
      BY <2>4 DEF PushAccept, TypeOK, HighWater
    <3>6. \A q \in Producers : pc'[q] # "idle" => event'[q] \in Events
      BY <2>4, <3>3 DEF PushAccept, TypeOK, DropEvent, Threads
    <3> QED
      BY <2>4, <3>3, <3>4, <3>5, <3>6
         DEF PushAccept, TypeOK, Returns, DropEvent, Threads
  <2>5. ASSUME NEW c \in Consumers, NEW b \in BOOLEAN, CallPop(c, b) PROVE TypeOK'
    BY <2>5 DEF CallPop, TypeOK, Returns, ring, metrics, Threads
  <2>6. ASSUME NEW c \in Consumers, PopWait(c) PROVE TypeOK'
    BY <2>6 DEF PopWait, TypeOK, Wait, ring, metrics, Threads
  <2>7. ASSUME NEW c \in Consumers, PopRefuse(c) PROVE TypeOK'
    BY <2>7 DEF PopRefuse, TypeOK, Return, Returns, DropBlock, ring, metrics, Threads
  <2>8. ASSUME NEW c \in Consumers, PopAccept(c) PROVE TypeOK'
    <3>1. c \in Threads /\ Producers \in SUBSET Threads /\ c \notin Waiting(Producers)
      BY DEF Threads, Waiting
    <3>2. SignalAndReturn(c, Producers)
      BY <2>8 DEF PopAccept
    <3>3. /\ pc' \in [Threads -> {"idle", "ready", "waiting"}]
          /\ \A u \in Threads : pc[u] = "idle" => pc'[u] = "idle"
      BY <3>1, <3>2, SignalType
    <3>4. head' \in Slots /\ size' \in 0 .. Capacity /\ queue_pops' \in Nat
      BY <2>8, NextSlotInRange DEF PopAccept, TypeOK
    <3> QED
      BY <2>8, <3>3, <3>4 DEF PopAccept, TypeOK, Returns, DropBlock, Threads
  <2>9. ASSUME NEW t \in Threads, SpuriousWakeup(t) PROVE TypeOK'
    BY <2>9 DEF SpuriousWakeup, TypeOK, ring, metrics, Threads
  <2>10. ASSUME Close PROVE TypeOK'
    BY <2>10 DEF Close, TypeOK, Waiting, ring, metrics, Threads
  <2>11. ASSUME UNCHANGED vars PROVE TypeOK'
    BY <2>11 DEF vars, TypeOK, ring, metrics
  <2> QED
    BY <2>1, <2>2, <2>3, <2>4, <2>5, <2>6, <2>7, <2>8, <2>9, <2>10, <2>11
       DEF Next, PushStep, PopStep
<1> QED
  BY <1>1, <1>2, PTL DEF Spec
-----------------------------------------------------------------------------
(* One subtraction undoes the only wrap a ring index can make.             *)
LEMMA ModOnce ==
  \A x \in 0 .. 2 * Capacity - 1 :
    x % Capacity = IF x < Capacity THEN x ELSE x - Capacity
  BY QueueAssumption

(* The slot n positions after i.                                           *)
LEMMA SlotAfter ==
  ASSUME NEW i \in Slots, NEW n \in 0 .. Capacity
  PROVE  (i + n) % Capacity = IF i + n < Capacity THEN i + n ELSE i + n - Capacity
  BY QueueAssumption, ModOnce DEF Slots

(* Head, tail, size and the counters agree after every call: what is       *)
(* between head and tail is what was pushed and not yet popped             *)
(* (event_queue.c:59-65, 85-90).                                           *)
THEOREM RingCorrect == Spec => []RingConsistent
<1>1. Init => RingConsistent
  BY QueueAssumption DEF Init, RingConsistent
<1>2. TypeOK /\ RingConsistent /\ [Next]_vars => RingConsistent'
  <2> SUFFICES ASSUME TypeOK, RingConsistent, [Next]_vars PROVE RingConsistent'
    OBVIOUS
  <2> USE QueueAssumption
  <2>1. ASSUME UNCHANGED <<ring, metrics>> PROVE RingConsistent'
    BY <2>1 DEF RingConsistent, ring, metrics
  <2>2. ASSUME NEW p \in Producers, PushAccept(p) PROVE RingConsistent'
    <3>1. tail' = (head' + size') % Capacity
      <4>1. head \in Slots /\ tail \in Slots /\ 1 \in 0 .. Capacity
        BY DEF TypeOK
      <4>2. size \in 0 .. Capacity /\ size + 1 \in 0 .. Capacity
        BY <2>2 DEF PushAccept, TypeOK
      <4>3. tail = IF head + size < Capacity THEN head + size ELSE head + size - Capacity
        BY <4>1, <4>2, SlotAfter DEF RingConsistent
      <4>4. tail' = IF tail + 1 < Capacity THEN tail + 1 ELSE tail + 1 - Capacity
        BY <2>2, <4>1, SlotAfter DEF PushAccept, NextSlot
      <4>5. (head + (size + 1)) % Capacity = IF head + (size + 1) < Capacity
                 THEN head + (size + 1) ELSE head + (size + 1) - Capacity
        BY <4>1, <4>2, SlotAfter
      <4> QED
        BY <2>2, <4>1, <4>2, <4>3, <4>4, <4>5 DEF PushAccept, Slots
    <3>2. size' <= queue_high_water' /\ queue_high_water' <= Capacity
      BY <2>2 DEF PushAccept, RingConsistent, HighWater, TypeOK
    <3> QED
      BY <2>2, <3>1, <3>2 DEF PushAccept, RingConsistent, TypeOK
  <2>3. ASSUME NEW c \in Consumers, PopAccept(c) PROVE RingConsistent'
    <3>1. tail' = (head' + size') % Capacity
      <4>1. head \in Slots /\ 1 \in 0 .. Capacity /\ head' \in Slots
        BY <2>3, NextSlotInRange DEF PopAccept, TypeOK
      <4>2. size \in 0 .. Capacity /\ size - 1 \in 0 .. Capacity
        BY <2>3 DEF PopAccept, TypeOK
      <4>3. tail = IF head + size < Capacity THEN head + size ELSE head + size - Capacity
        BY <4>1, <4>2, SlotAfter DEF RingConsistent
      <4>4. head' = IF head + 1 < Capacity THEN head + 1 ELSE head + 1 - Capacity
        BY <2>3, <4>1, SlotAfter DEF PopAccept, NextSlot
      <4>5. (head' + (size - 1)) % Capacity = IF head' + (size - 1) < Capacity
                 THEN head' + (size - 1) ELSE head' + (size - 1) - Capacity
        BY <4>1, <4>2, SlotAfter
      <4> QED
        BY <2>3, <4>1, <4>2, <4>3, <4>4, <4>5 DEF PopAccept, Slots
    <3> QED
      BY <2>3, <3>1 DEF PopAccept, RingConsistent, TypeOK
  <2>4. CASE UNCHANGED vars
    BY <2>1, <2>4 DEF vars
  <2>5. CASE \E p \in Producers : (\E e \in Events : CallPush(p, e)) \/ PushStep(p)
    BY <2>1, <2>2, <2>5 DEF PushStep, CallPush, PushWait, PushRefuse
  <2>6. CASE \E c \in Consumers : (\E b \in BOOLEAN : CallPop(c, b)) \/ PopStep(c)
    BY <2>1, <2>3, <2>6 DEF PopStep, CallPop, PopWait, PopRefuse
  <2>7. CASE (\E t \in Threads : SpuriousWakeup(t)) \/ Close
    BY <2>1, <2>7 DEF SpuriousWakeup, Close
  <2> QED
    BY <2>4, <2>5, <2>6, <2>7 DEF Next
<1> QED
  BY <1>1, <1>2, TypeCorrect, PTL DEF Spec

-----------------------------------------------------------------------------
(* A group in which nobody stops being ready has no fewer ready threads.   *)
LEMMA ReadyGrows ==
  ASSUME NEW S, IsFiniteSet(S), Ready(S) \subseteq Ready(S)'
  PROVE  Cardinality(Ready(S)) <= Cardinality(Ready(S)')
  <1>1. IsFiniteSet(Ready(S)')
    <2>1. Ready(S)' \subseteq S
      BY DEF Ready
    <2> QED
      BY <2>1, FS_Subset
  <1> QED
    BY <1>1, FS_Subset

(* One more ready thread counts one more.                                  *)
LEMMA ReadyGains ==
  ASSUME NEW S, IsFiniteSet(S), NEW u \in S, u \notin Ready(S),
         Ready(S)' = Ready(S) \cup {u}
  PROVE  Cardinality(Ready(S)') = Cardinality(Ready(S)) + 1
  <1>1. IsFiniteSet(Ready(S))
    BY FS_Subset DEF Ready
  <1> QED
    BY <1>1, FS_AddElement

(* One ready thread less counts one less.                                  *)
LEMMA ReadyLoses ==
  ASSUME NEW S, IsFiniteSet(S), NEW u \in Ready(S), Ready(S)' = Ready(S) \ {u}
  PROVE  Cardinality(Ready(S)') = Cardinality(Ready(S)) - 1
  <1>1. IsFiniteSet(Ready(S))
    BY FS_Subset DEF Ready
  <1> QED
    BY <1>1, FS_RemoveElement

(* A finite group has a natural number of ready threads, before and after. *)
LEMMA ReadyCount ==
  ASSUME NEW S, IsFiniteSet(S)
  PROVE  Cardinality(Ready(S)) \in Nat /\ Cardinality(Ready(S)') \in Nat
  <1>1. Ready(S) \subseteq S /\ Ready(S)' \subseteq S
    BY DEF Ready
  <1>2. IsFiniteSet(Ready(S)) /\ IsFiniteSet(Ready(S)')
    BY <1>1, FS_Subset
  <1> QED
    BY <1>2, FS_CardinalityType

(* A step that leaves no fewer free slots taken, puts no producer to sleep *)
(* and makes none return keeps the producers' half of NoLostWakeup.        *)
LEMMA QuietProducers ==
  ASSUME TypeOK, TypeOK', ProducersAwake, size' >= size,
         Ready(Producers) \subseteq Ready(Producers)',
         Waiting(Producers)' \subseteq Waiting(Producers)
  PROVE  ProducersAwake'
  <1>1. Cardinality(Ready(Producers)) <= Cardinality(Ready(Producers)')
    BY ReadyGrows, QueueAssumption
  <1>2. Cardinality(Ready(Producers)) \in Nat /\ Cardinality(Ready(Producers)') \in Nat
    BY ReadyCount, QueueAssumption
  <1> QED
    BY <1>1, <1>2, QueueAssumption DEF ProducersAwake, TypeOK

(* The same for the consumers, when no event is added.                     *)
LEMMA QuietConsumers ==
  ASSUME TypeOK, TypeOK', ConsumersAwake, size' <= size,
         Ready(Consumers) \subseteq Ready(Consumers)',
         Waiting(Consumers)' \subseteq Waiting(Consumers)
  PROVE  ConsumersAwake'
  <1>1. Cardinality(Ready(Consumers)) <= Cardinality(Ready(Consumers)')
    BY ReadyGrows, QueueAssumption
  <1>2. Cardinality(Ready(Consumers)) \in Nat /\ Cardinality(Ready(Consumers)') \in Nat
    BY ReadyCount, QueueAssumption
  <1> QED
    BY <1>1, <1>2 DEF ConsumersAwake, TypeOK

(* The signal of a push: a sleeping consumer, if there is one, is added to *)
(* the ready ones, and no producer but the caller changes.                 *)
LEMMA PushSignal ==
  ASSUME TypeOK, NEW p \in Producers, pc[p] = "ready", SignalAndReturn(p, Consumers)
  PROVE  /\ Ready(Producers)' = Ready(Producers) \ {p}
         /\ Waiting(Producers)' = Waiting(Producers)
         /\ \/ Waiting(Consumers)' = {}
            \/ \E u \in Waiting(Consumers) : Ready(Consumers)' = Ready(Consumers) \cup {u}
         /\ Waiting(Consumers)' \subseteq Waiting(Consumers)
  BY QueueAssumption DEF TypeOK, SignalAndReturn, Ready, Waiting, Threads

(* The signal of a pop, likewise.                                          *)
LEMMA PopSignal ==
  ASSUME TypeOK, NEW c \in Consumers, pc[c] = "ready", SignalAndReturn(c, Producers)
  PROVE  /\ Ready(Consumers)' = Ready(Consumers) \ {c}
         /\ Waiting(Consumers)' = Waiting(Consumers)
         /\ \/ Waiting(Producers)' = {}
            \/ \E u \in Waiting(Producers) : Ready(Producers)' = Ready(Producers) \cup {u}
         /\ Waiting(Producers)' \subseteq Waiting(Producers)
  BY QueueAssumption DEF TypeOK, SignalAndReturn, Ready, Waiting, Threads

(* No signal of event_queue.c:67 and 92 is ever lost, and nobody sleeps in *)
(* a closed queue (97-102).  The two are inductive together: a refused     *)
(* push makes a ready producer leave, which is harmless because the queue  *)
(* is then closed and no producer sleeps.                                  *)
THEOREM WakeupsKept == Spec => [](NoLostWakeup /\ NoSleeperAfterClose)
<1> DEFINE WInv == NoLostWakeup /\ NoSleeperAfterClose
<1>1. Init => WInv
  <2> SUFFICES ASSUME Init PROVE WInv
    OBVIOUS
  <2>1. \A t \in Threads : pc[t] = "idle"
    BY DEF Init
  <2>2. Waiting(Producers) = {} /\ Waiting(Consumers) = {} /\ Waiting(Threads) = {}
    BY <2>1 DEF Waiting, Threads
  <2> QED
    BY <2>2 DEF NoLostWakeup, ProducersAwake, ConsumersAwake, NoSleeperAfterClose
<1>2. TypeOK /\ TypeOK' /\ WInv /\ [Next]_vars => WInv'
  <2> SUFFICES ASSUME TypeOK, TypeOK', WInv, [Next]_vars PROVE WInv'
    OBVIOUS
  <2> USE QueueAssumption
  <2>0. ProducersAwake /\ ConsumersAwake /\ NoSleeperAfterClose /\ size \in Nat
    BY DEF NoLostWakeup, TypeOK
  <2>1. ASSUME NEW p \in Producers, NEW e \in Events, CallPush(p, e) PROVE WInv'
    <3>1. /\ Ready(Producers) \subseteq Ready(Producers)'
          /\ Waiting(Producers)' = Waiting(Producers)
          /\ Ready(Consumers)' = Ready(Consumers)
          /\ Waiting(Consumers)' = Waiting(Consumers)
          /\ Waiting(Threads)' = Waiting(Threads)
          /\ size' = size /\ closed' = closed
      BY <2>1 DEF CallPush, Ready, Waiting, Threads, TypeOK, ring
    <3> QED
      BY <2>0, <3>1, QuietProducers, QuietConsumers DEF NoLostWakeup, NoSleeperAfterClose
  <2>2. ASSUME NEW p \in Producers, PushWait(p) PROVE WInv'
    <3>1. /\ Ready(Consumers)' = Ready(Consumers)
          /\ Waiting(Consumers)' = Waiting(Consumers)
          /\ size' = size /\ size' = Capacity /\ ~closed'
      BY <2>2 DEF PushWait, Wait, Ready, Waiting, Threads, TypeOK, ring
    <3>2. ProducersAwake'
      <4>1. Cardinality(Ready(Producers)') \in Nat
        BY ReadyCount
      <4> QED
        BY <3>1, <4>1 DEF ProducersAwake
    <3> QED
      BY <2>0, <3>1, <3>2, QuietConsumers DEF NoLostWakeup, NoSleeperAfterClose
  <2>3. ASSUME NEW p \in Producers, PushRefuse(p) PROVE WInv'
    <3>1. /\ Waiting(Threads)' = {} /\ Waiting(Producers)' = {} /\ Waiting(Consumers)' = {}
      BY <2>0, <2>3 DEF PushRefuse, Return, Waiting, Threads, TypeOK, NoSleeperAfterClose
    <3> QED
      BY <3>1 DEF NoLostWakeup, ProducersAwake, ConsumersAwake, NoSleeperAfterClose
  <2>4. ASSUME NEW p \in Producers, PushAccept(p) PROVE WInv'
    <3>1. pc[p] = "ready" /\ SignalAndReturn(p, Consumers) /\ ~closed' /\ size' = size + 1
      BY <2>4 DEF PushAccept
    <3>2. /\ Ready(Producers)' = Ready(Producers) \ {p}
          /\ Waiting(Producers)' = Waiting(Producers)
          /\ \/ Waiting(Consumers)' = {}
             \/ \E u \in Waiting(Consumers) : Ready(Consumers)' = Ready(Consumers) \cup {u}
          /\ Waiting(Consumers)' \subseteq Waiting(Consumers)
      BY <3>1, PushSignal
    <3>3. ProducersAwake'
      <4>1. p \in Ready(Producers)
        BY <3>1 DEF Ready
      <4>2. Cardinality(Ready(Producers)') = Cardinality(Ready(Producers)) - 1
        BY <3>2, <4>1, ReadyLoses
      <4>3. Cardinality(Ready(Producers)) \in Nat
        BY ReadyCount
      <4> QED
        BY <2>0, <3>1, <3>2, <4>2, <4>3 DEF ProducersAwake
    <3>4. ConsumersAwake'
      <4>1. CASE Waiting(Consumers)' = {}
        BY <4>1 DEF ConsumersAwake
      <4>2. ASSUME NEW u \in Waiting(Consumers), Ready(Consumers)' = Ready(Consumers) \cup {u}
            PROVE  ConsumersAwake'
        <5>1. u \in Consumers /\ u \notin Ready(Consumers) /\ Waiting(Consumers) # {}
          BY DEF Ready, Waiting
        <5>2. Cardinality(Ready(Consumers)') = Cardinality(Ready(Consumers)) + 1
          BY <4>2, <5>1, ReadyGains
        <5>3. Cardinality(Ready(Consumers)) \in Nat
          BY ReadyCount
        <5> QED
          BY <2>0, <3>1, <5>1, <5>2, <5>3 DEF ConsumersAwake
      <4> QED
        BY <3>2, <4>1, <4>2
    <3> QED
      BY <3>1, <3>3, <3>4 DEF NoLostWakeup, NoSleeperAfterClose
  <2>5. ASSUME NEW c \in Consumers, NEW b \in BOOLEAN, CallPop(c, b) PROVE WInv'
    <3>1. /\ Ready(Consumers) \subseteq Ready(Consumers)'
          /\ Waiting(Producers)' = Waiting(Producers)
          /\ Ready(Producers)' = Ready(Producers)
          /\ Waiting(Consumers)' = Waiting(Consumers)
          /\ Waiting(Threads)' = Waiting(Threads)
          /\ size' = size /\ closed' = closed
      BY <2>5 DEF CallPop, Ready, Waiting, Threads, TypeOK, ring
    <3> QED
      BY <2>0, <3>1, QuietProducers, QuietConsumers DEF NoLostWakeup, NoSleeperAfterClose
  <2>6. ASSUME NEW c \in Consumers, PopWait(c) PROVE WInv'
    <3>1. /\ Ready(Producers)' = Ready(Producers)
          /\ Waiting(Producers)' = Waiting(Producers)
          /\ size' = size /\ size' = 0 /\ ~closed'
      BY <2>6 DEF PopWait, Wait, Ready, Waiting, Threads, TypeOK, ring
    <3>2. ConsumersAwake'
      <4>1. Cardinality(Ready(Consumers)') \in Nat
        BY ReadyCount
      <4> QED
        BY <3>1, <4>1 DEF ConsumersAwake
    <3> QED
      BY <2>0, <3>1, <3>2, QuietProducers DEF NoLostWakeup, NoSleeperAfterClose
  <2>7. ASSUME NEW c \in Consumers, PopRefuse(c) PROVE WInv'
    <3>1. /\ Ready(Producers)' = Ready(Producers)
          /\ Waiting(Producers)' = Waiting(Producers)
          /\ Waiting(Threads)' = Waiting(Threads)
          /\ size' = size /\ size' = 0 /\ closed' = closed
      BY <2>7 DEF PopRefuse, Return, Ready, Waiting, Threads, TypeOK, ring
    <3>2. ConsumersAwake'
      <4>1. Cardinality(Ready(Consumers)') \in Nat
        BY ReadyCount
      <4> QED
        BY <3>1, <4>1 DEF ConsumersAwake
    <3> QED
      BY <2>0, <3>1, <3>2, QuietProducers DEF NoLostWakeup, NoSleeperAfterClose
  <2>8. ASSUME NEW c \in Consumers, PopAccept(c) PROVE WInv'
    <3>1. /\ pc[c] = "ready" /\ SignalAndReturn(c, Producers)
          /\ closed' = closed /\ size' = size - 1
      BY <2>8 DEF PopAccept
    <3>2. /\ Ready(Consumers)' = Ready(Consumers) \ {c}
          /\ Waiting(Consumers)' = Waiting(Consumers)
          /\ \/ Waiting(Producers)' = {}
             \/ \E u \in Waiting(Producers) : Ready(Producers)' = Ready(Producers) \cup {u}
          /\ Waiting(Producers)' \subseteq Waiting(Producers)
      BY <3>1, PopSignal
    <3>3. ConsumersAwake'
      <4>1. c \in Ready(Consumers)
        BY <3>1 DEF Ready
      <4>2. Cardinality(Ready(Consumers)') = Cardinality(Ready(Consumers)) - 1
        BY <3>2, <4>1, ReadyLoses
      <4>3. Cardinality(Ready(Consumers)) \in Nat
        BY ReadyCount
      <4> QED
        BY <2>0, <3>1, <3>2, <4>2, <4>3 DEF ConsumersAwake
    <3>4. ProducersAwake'
      <4>1. CASE Waiting(Producers)' = {}
        BY <4>1 DEF ProducersAwake
      <4>2. ASSUME NEW u \in Waiting(Producers), Ready(Producers)' = Ready(Producers) \cup {u}
            PROVE  ProducersAwake'
        <5>1. u \in Producers /\ u \notin Ready(Producers) /\ Waiting(Producers) # {}
          BY DEF Ready, Waiting
        <5>2. Cardinality(Ready(Producers)') = Cardinality(Ready(Producers)) + 1
          BY <4>2, <5>1, ReadyGains
        <5>3. Cardinality(Ready(Producers)) \in Nat
          BY ReadyCount
        <5> QED
          BY <2>0, <3>1, <5>1, <5>2, <5>3 DEF ProducersAwake
      <4> QED
        BY <3>2, <4>1, <4>2
    <3>5. NoSleeperAfterClose'
      <4>1. Waiting(Threads)' \subseteq Waiting(Threads)
        BY <3>2 DEF Waiting, Threads
      <4> QED
        BY <2>0, <3>1, <4>1 DEF NoSleeperAfterClose
    <3> QED
      BY <3>3, <3>4, <3>5 DEF NoLostWakeup
  <2>9. ASSUME NEW t \in Threads, SpuriousWakeup(t) PROVE WInv'
    <3>1. /\ Ready(Producers) \subseteq Ready(Producers)'
          /\ Ready(Consumers) \subseteq Ready(Consumers)'
          /\ Waiting(Producers)' \subseteq Waiting(Producers)
          /\ Waiting(Consumers)' \subseteq Waiting(Consumers)
          /\ Waiting(Threads)' \subseteq Waiting(Threads)
          /\ size' = size /\ closed' = closed
      BY <2>9 DEF SpuriousWakeup, Ready, Waiting, Threads, TypeOK, ring
    <3> QED
      BY <2>0, <3>1, QuietProducers, QuietConsumers DEF NoLostWakeup, NoSleeperAfterClose
  <2>10. ASSUME Close PROVE WInv'
    <3>1. Waiting(Threads)' = {} /\ Waiting(Producers)' = {} /\ Waiting(Consumers)' = {}
      BY <2>10 DEF Close, Waiting, Threads, TypeOK
    <3> QED
      BY <3>1 DEF NoLostWakeup, ProducersAwake, ConsumersAwake, NoSleeperAfterClose
  <2>11. ASSUME UNCHANGED vars PROVE WInv'
    BY <2>0, <2>11 DEF vars, ring, NoLostWakeup, ProducersAwake, ConsumersAwake,
                       NoSleeperAfterClose, Waiting, Ready
  <2> QED
    BY <2>1, <2>2, <2>3, <2>4, <2>5, <2>6, <2>7, <2>8, <2>9, <2>10, <2>11
       DEF Next, PushStep, PopStep
<1> QED
  BY <1>1, <1>2, TypeCorrect, PTL DEF Spec

(* event_queue_close (97-102) leaves nobody asleep in a closed queue, and  *)
(* nobody goes to sleep in one later on: a thread that is inside a call    *)
(* and finds the queue full or empty looks at closed before it waits.      *)
THEOREM SleepersReleased == Spec => []NoSleeperAfterClose
<1>1. NoLostWakeup /\ NoSleeperAfterClose => NoSleeperAfterClose
  OBVIOUS
<1> QED
  BY <1>1, WakeupsKept, PTL

-----------------------------------------------------------------------------
(* EventQueue implements BoundedFifo                                       *)

(* Reading the ring yields a sequence of length size.                      *)
LEMMA ContentsSeq ==
  ASSUME TypeOK
  PROVE  /\ Contents \in Seq(Events \cup {NoEvent})
         /\ Len(Contents) = size
         /\ DOMAIN Contents = 1 .. size
  <1>1. size \in Nat /\ head \in Slots /\ size \in 0 .. Capacity
    BY QueueAssumption DEF TypeOK
  <1>2. ASSUME NEW i \in 1 .. size
        PROVE  (head + i - 1) % Capacity \in Slots
    BY <1>1, QueueAssumption DEF Slots
  <1>3. Contents \in [1 .. size -> Events \cup {NoEvent}]
    BY <1>2 DEF TypeOK, Contents
  <1> QED
    BY <1>1, <1>3

(* Slots at different distances from head, less than a full turn apart,    *)
(* are different slots.                                                    *)
LEMMA SlotsDiffer ==
  ASSUME NEW h \in Slots, NEW m \in 0 .. Capacity, NEW n \in 0 .. Capacity,
         m < n, n - m < Capacity
  PROVE  (h + m) % Capacity # (h + n) % Capacity
  <1>1. (h + m) % Capacity = IF h + m < Capacity THEN h + m ELSE h + m - Capacity
    BY SlotAfter
  <1>2. (h + n) % Capacity = IF h + n < Capacity THEN h + n ELSE h + n - Capacity
    BY SlotAfter
  <1> QED
    BY <1>1, <1>2, QueueAssumption DEF Slots

(* An accepted push appends its event to what the ring holds               *)
(* (event_queue.c:59-61).                                                  *)
LEMMA PushAppends ==
  ASSUME TypeOK, TypeOK', RingConsistent, NEW p \in Producers, PushAccept(p)
  PROVE  Contents' = Append(Contents, event[p])
  <1> USE QueueAssumption
  <1>1. /\ head' = head /\ size' = size + 1 /\ size < Capacity
        /\ buffer' = [buffer EXCEPT ![tail] = event[p]]
        /\ head \in Slots /\ tail \in Slots /\ size \in Nat
        /\ buffer \in [Slots -> Events \cup {NoEvent}]
        /\ tail = (head + size) % Capacity
        /\ event[p] \in Events
    BY DEF PushAccept, TypeOK, RingConsistent
  <1>2. /\ Contents \in Seq(Events \cup {NoEvent}) /\ Len(Contents) = size
    BY ContentsSeq
  <1>3. Contents' \in Seq(Events \cup {NoEvent}) /\ Len(Contents') = size + 1
    <2>1. Contents' = [i \in 1 .. size + 1 |-> buffer'[(head + i - 1) % Capacity]]
      BY <1>1 DEF Contents
    <2>2. ASSUME NEW i \in 1 .. size + 1 PROVE (head + i - 1) % Capacity \in Slots
      BY <1>1 DEF Slots
    <2>3. buffer' \in [Slots -> Events \cup {NoEvent}]
      BY DEF TypeOK
    <2>4. Contents' \in [1 .. size + 1 -> Events \cup {NoEvent}]
      BY <2>1, <2>2, <2>3
    <2> QED
      BY <1>1, <2>4
  <1>4. ASSUME NEW i \in 1 .. size PROVE Contents'[i] = Contents[i]
    <2>1. i - 1 \in 0 .. Capacity /\ size \in 0 .. Capacity /\ i - 1 < size
          /\ size - (i - 1) < Capacity /\ head + i - 1 = head + (i - 1)
      BY <1>1 DEF Slots
    <2>2. (head + (i - 1)) % Capacity # tail
      BY <1>1, <2>1, SlotsDiffer
    <2>3. (head + (i - 1)) % Capacity \in Slots
      BY <1>1, <2>1 DEF Slots
    <2>4. buffer'[(head + (i - 1)) % Capacity] = buffer[(head + (i - 1)) % Capacity]
      BY <1>1, <2>2, <2>3
    <2> QED
      BY <1>1, <2>1, <2>4 DEF Contents
  <1>5. Contents'[size + 1] = event[p]
    <2>1. head + (size + 1) - 1 = head + size /\ size + 1 \in 1 .. size + 1
      BY <1>1 DEF Slots
    <2>2. Contents'[size + 1] = buffer'[(head + size) % Capacity]
      BY <1>1, <2>1 DEF Contents
    <2> QED
      BY <1>1, <2>2
  <1> DEFINE A == Append(Contents, event[p])
  <1>6. /\ A \in Seq(Events \cup {NoEvent}) /\ Len(A) = size + 1
        /\ A[size + 1] = event[p]
        /\ \A i \in 1 .. size : A[i] = Contents[i]
    BY <1>1, <1>2
  <1>7. \A i \in 1 .. size + 1 : Contents'[i] = A[i]
    BY <1>1, <1>4, <1>5, <1>6
  <1> HIDE DEF A
  <1>8. Contents' = A
    BY <1>3, <1>6, <1>7
  <1> QED
    BY <1>8 DEF A

(* A successful pop takes the oldest event (event_queue.c:85-87).          *)
LEMMA PopTakesHead ==
  ASSUME TypeOK, TypeOK', RingConsistent, NEW c \in Consumers, PopAccept(c)
  PROVE  /\ Contents # <<>>
         /\ out' = [out EXCEPT ![c] = Head(Contents)]
         /\ Contents' = Tail(Contents)
  <1> USE QueueAssumption
  <1>1. /\ head' = (head + 1) % Capacity /\ size' = size - 1 /\ buffer' = buffer
        /\ size \in 1 .. Capacity /\ head \in Slots
        /\ out' = [out EXCEPT ![c] = buffer[head]]
    BY DEF PopAccept, TypeOK, NextSlot
  <1>2. Contents \in Seq(Events \cup {NoEvent}) /\ Len(Contents) = size
    BY ContentsSeq
  <1>3. Head(Contents) = buffer[head]
    <2>1. head + 1 - 1 = head /\ head % Capacity = head /\ 1 \in 1 .. size
      BY <1>1 DEF Slots
    <2>2. Contents[1] = buffer[head]
      BY <2>1 DEF Contents
    <2> QED
      BY <1>2, <2>2
  <1>4. Contents' = [i \in 1 .. size - 1 |-> buffer[(((head + 1) % Capacity) + i - 1) % Capacity]]
    BY <1>1 DEF Contents
  <1>5. /\ Tail(Contents) \in Seq(Events \cup {NoEvent}) /\ Len(Tail(Contents)) = size - 1
        /\ \A i \in 1 .. size - 1 : Tail(Contents)[i] = Contents[i + 1]
    BY <1>1, <1>2
  <1>6. ASSUME NEW i \in 1 .. size - 1
        PROVE  buffer[(((head + 1) % Capacity) + i - 1) % Capacity] = Contents[i + 1]
    <2>1. /\ i \in 0 .. Capacity /\ i - 1 \in 0 .. Capacity /\ 1 \in 0 .. Capacity
          /\ i + 1 \in 1 .. size /\ head + (i + 1) - 1 = head + i
          /\ ((head + 1) % Capacity) + i - 1 = ((head + 1) % Capacity) + (i - 1)
      BY <1>1 DEF Slots
    <2>2. (head + 1) % Capacity = IF head + 1 < Capacity THEN head + 1 ELSE head + 1 - Capacity
      BY <1>1, <2>1, SlotAfter
    <2>3. (head + 1) % Capacity \in Slots
      BY <1>1 DEF Slots
    <2>4. (((head + 1) % Capacity) + (i - 1)) % Capacity =
            IF ((head + 1) % Capacity) + (i - 1) < Capacity
            THEN ((head + 1) % Capacity) + (i - 1)
            ELSE ((head + 1) % Capacity) + (i - 1) - Capacity
      BY <2>1, <2>3, SlotAfter
    <2>5. (head + i) % Capacity = IF head + i < Capacity THEN head + i ELSE head + i - Capacity
      BY <1>1, <2>1, SlotAfter
    <2>6. (((head + 1) % Capacity) + (i - 1)) % Capacity = (head + i) % Capacity
      BY <1>1, <2>1, <2>2, <2>3, <2>4, <2>5 DEF Slots
    <2>7. Contents[i + 1] = buffer[(head + i) % Capacity]
      BY <2>1 DEF Contents
    <2> QED
      BY <2>1, <2>6, <2>7
  <1>7. Contents' = Tail(Contents)
    <2>1. Contents' \in Seq(Events \cup {NoEvent}) /\ Len(Contents') = size - 1
      <3>1. ASSUME NEW i \in 1 .. size - 1
            PROVE  buffer[(((head + 1) % Capacity) + i - 1) % Capacity] \in Events \cup {NoEvent}
        <4>1. (head + 1) % Capacity \in Nat
          BY <1>1 DEF Slots
        <4>2. (((head + 1) % Capacity) + i - 1) % Capacity \in Slots
          BY <4>1 DEF Slots
        <4> QED
          BY <4>2 DEF TypeOK
      <3>2. Contents' \in [1 .. size - 1 -> Events \cup {NoEvent}]
        BY <1>4, <3>1
      <3> QED
        BY <1>1, <3>2
    <2>2. \A i \in 1 .. size - 1 : Contents'[i] = Tail(Contents)[i]
      BY <1>4, <1>5, <1>6
    <2> QED
      BY <1>5, <2>1, <2>2
  <1>8. Contents # <<>>
    BY <1>1, <1>2
  <1> QED
    BY <1>1, <1>3, <1>7, <1>8

-----------------------------------------------------------------------------
(* event_queue_create yields an empty open queue with no call pending.     *)
LEMMA InitRefines == Init => Fifo!Init
  <1> SUFFICES ASSUME Init PROVE Fifo!Init
    OBVIOUS
  <1>1. Contents = <<>>
    BY DEF Init, Contents
  <1>2. CallStatus = [t \in Fifo!Threads |-> "none"]
    BY DEF Init, CallStatus, Fifo!Threads, Threads
  <1> QED
    BY <1>1, <1>2 DEF Init, Fifo!Init

(* What a thread's return does to the abstract status of the calls.        *)
LEMMA ReturnStatus ==
  ASSUME TypeOK, NEW t \in Threads, NEW r \in {"ok", "refused"}, Returns(t, r),
         pc' \in [Threads -> {"idle", "ready", "waiting"}], pc'[t] = "idle",
         \A u \in Threads \ {t} : (pc'[u] = "idle") <=> (pc[u] = "idle")
  PROVE  CallStatus' = [CallStatus EXCEPT ![t] = r]
  BY DEF TypeOK, Returns, CallStatus

(* What calling push or pop does to it.                                    *)
LEMMA CallsStatus ==
  ASSUME TypeOK, NEW t \in Threads, Returns(t, "none"), pc' = [pc EXCEPT ![t] = "ready"]
  PROVE  CallStatus' = [CallStatus EXCEPT ![t] = "pending"]
  BY DEF TypeOK, Returns, CallStatus

(* Waking a thread of the other group leaves its call pending.             *)
LEMMA SignalKeepsPending ==
  ASSUME TypeOK, NEW t \in Threads, NEW S \in SUBSET Threads, t \notin S,
         SignalAndReturn(t, S)
  PROVE  /\ pc' \in [Threads -> {"idle", "ready", "waiting"}]
         /\ pc'[t] = "idle"
         /\ \A u \in Threads \ {t} : (pc'[u] = "idle") <=> (pc[u] = "idle")
  BY DEF TypeOK, SignalAndReturn, Waiting

(* A step that moves nobody into or out of a call and touches neither the  *)
(* ring nor a result is invisible.                                         *)
LEMMA InvisibleStep ==
  ASSUME TypeOK, UNCHANGED <<ring, event, block, out, result>>,
         pc' \in [Threads -> {"idle", "ready", "waiting"}],
         \A u \in Threads : (pc'[u] = "idle") <=> (pc[u] = "idle")
  PROVE  Contents' = Contents /\ CallStatus' = CallStatus
  BY DEF TypeOK, ring, Contents, CallStatus

(* The contents depend on the ring only.                                   *)
LEMMA SameContents == UNCHANGED ring => Contents' = Contents
  BY DEF ring, Contents

(* Every step of the ring is a step of the abstract queue or invisible.    *)
LEMMA StepRefines ==
  TypeOK /\ TypeOK' /\ RingConsistent /\ [Next]_vars => [Fifo!Next]_(Fifo!vars)
  <1> SUFFICES ASSUME TypeOK, TypeOK', RingConsistent, [Next]_vars
               PROVE  Fifo!Next \/ UNCHANGED Fifo!vars
    OBVIOUS
  <1> USE QueueAssumption
  <1>1. ASSUME NEW p \in Producers, NEW e \in Events, CallPush(p, e) PROVE Fifo!CallPush(p, e)
    <2>1. CallStatus' = [CallStatus EXCEPT ![p] = "pending"]
      BY <1>1, CallsStatus DEF CallPush, Threads
    <2>2. CallStatus[p] # "pending"
      BY <1>1 DEF CallPush, CallStatus, TypeOK, Threads
    <2> QED
      BY <1>1, <2>1, <2>2, SameContents DEF CallPush, Fifo!CallPush, Fifo!Becomes
  <1>2. ASSUME NEW p \in Producers, PushWait(p) PROVE UNCHANGED Fifo!vars
    <2>1. \A u \in Threads : (pc'[u] = "idle") <=> (pc[u] = "idle")
      BY <1>2 DEF PushWait, Wait, TypeOK, Threads
    <2> QED
      BY <1>2, <2>1, InvisibleStep DEF PushWait, TypeOK, Fifo!vars
  <1>3. ASSUME NEW p \in Producers, PushRefuse(p) PROVE Fifo!RefusePush(p)
    <2>1. pc'[p] = "idle" /\ \A u \in Threads \ {p} : (pc'[u] = "idle") <=> (pc[u] = "idle")
      BY <1>3 DEF PushRefuse, Return, TypeOK, Threads
    <2>2. CallStatus' = [CallStatus EXCEPT ![p] = "refused"]
      BY <1>3, <2>1, ReturnStatus DEF PushRefuse, TypeOK, Threads
    <2>3. CallStatus[p] = "pending"
      BY <1>3 DEF PushRefuse, CallStatus, Threads
    <2> QED
      BY <1>3, <2>2, <2>3, SameContents
         DEF PushRefuse, DropEvent, Fifo!RefusePush, Fifo!Becomes, Fifo!DropEvent
  <1>4. ASSUME NEW p \in Producers, PushAccept(p) PROVE Fifo!Push(p)
    <2>1. pc'[p] = "idle" /\ \A u \in Threads \ {p} : (pc'[u] = "idle") <=> (pc[u] = "idle")
      BY <1>4, SignalKeepsPending DEF PushAccept, Threads
    <2>2. CallStatus' = [CallStatus EXCEPT ![p] = "ok"]
      BY <1>4, <2>1, ReturnStatus DEF PushAccept, TypeOK, Threads
    <2>3. CallStatus[p] = "pending"
      BY <1>4 DEF PushAccept, CallStatus, Threads
    <2>4. Contents' = Append(Contents, event[p])
      BY <1>4, PushAppends
    <2>5. Len(Contents) < Capacity
      BY <1>4, ContentsSeq DEF PushAccept, TypeOK
    <2> QED
      BY <1>4, <2>2, <2>3, <2>4, <2>5
         DEF PushAccept, DropEvent, Fifo!Push, Fifo!Becomes, Fifo!DropEvent
  <1>5. ASSUME NEW c \in Consumers, NEW b \in BOOLEAN, CallPop(c, b) PROVE Fifo!CallPop(c, b)
    <2>1. CallStatus' = [CallStatus EXCEPT ![c] = "pending"]
      BY <1>5, CallsStatus DEF CallPop, Threads
    <2>2. CallStatus[c] # "pending"
      BY <1>5 DEF CallPop, CallStatus, TypeOK, Threads
    <2> QED
      BY <1>5, <2>1, <2>2, SameContents DEF CallPop, Fifo!CallPop, Fifo!Becomes
  <1>6. ASSUME NEW c \in Consumers, PopWait(c) PROVE UNCHANGED Fifo!vars
    <2>1. \A u \in Threads : (pc'[u] = "idle") <=> (pc[u] = "idle")
      BY <1>6 DEF PopWait, Wait, TypeOK, Threads
    <2> QED
      BY <1>6, <2>1, InvisibleStep DEF PopWait, TypeOK, Fifo!vars
  <1>7. ASSUME NEW c \in Consumers, PopRefuse(c) PROVE Fifo!RefusePop(c)
    <2>1. pc'[c] = "idle" /\ \A u \in Threads \ {c} : (pc'[u] = "idle") <=> (pc[u] = "idle")
      BY <1>7 DEF PopRefuse, Return, TypeOK, Threads
    <2>2. CallStatus' = [CallStatus EXCEPT ![c] = "refused"]
      BY <1>7, <2>1, ReturnStatus DEF PopRefuse, TypeOK, Threads
    <2>3. CallStatus[c] = "pending"
      BY <1>7 DEF PopRefuse, CallStatus, Threads
    <2>4. Contents = <<>>
      BY <1>7, ContentsSeq DEF PopRefuse
    <2> QED
      BY <1>7, <2>2, <2>3, <2>4, SameContents
         DEF PopRefuse, DropBlock, Fifo!RefusePop, Fifo!Becomes, Fifo!DropBlock
  <1>8. ASSUME NEW c \in Consumers, PopAccept(c) PROVE Fifo!Pop(c)
    <2>1. pc'[c] = "idle" /\ \A u \in Threads \ {c} : (pc'[u] = "idle") <=> (pc[u] = "idle")
      BY <1>8, SignalKeepsPending DEF PopAccept, Threads
    <2>2. CallStatus' = [CallStatus EXCEPT ![c] = "ok"]
      BY <1>8, <2>1, ReturnStatus DEF PopAccept, TypeOK, Threads
    <2>3. CallStatus[c] = "pending"
      BY <1>8 DEF PopAccept, CallStatus, Threads
    <2>4. /\ Contents # <<>>
          /\ out' = [out EXCEPT ![c] = Head(Contents)]
          /\ Contents' = Tail(Contents)
      BY <1>8, PopTakesHead
    <2> QED
      BY <1>8, <2>2, <2>3, <2>4
         DEF PopAccept, DropBlock, Fifo!Pop, Fifo!Becomes, Fifo!DropBlock
  <1>9. ASSUME NEW t \in Threads, SpuriousWakeup(t) PROVE UNCHANGED Fifo!vars
    <2>1. \A u \in Threads : (pc'[u] = "idle") <=> (pc[u] = "idle")
      BY <1>9 DEF SpuriousWakeup, TypeOK
    <2> QED
      BY <1>9, <2>1, InvisibleStep DEF SpuriousWakeup, TypeOK, Fifo!vars
  <1>10. ASSUME Close PROVE Fifo!Close
    <2>1. \A u \in Threads : (pc'[u] = "idle") <=> (pc[u] = "idle")
      BY <1>10 DEF Close, Waiting, TypeOK
    <2>2. Contents' = Contents /\ CallStatus' = CallStatus
      BY <1>10, <2>1, InvisibleStep DEF Close, TypeOK
    <2> QED
      BY <1>10, <2>2 DEF Close, Fifo!Close
  <1>11. ASSUME UNCHANGED vars PROVE UNCHANGED Fifo!vars
    BY <1>11 DEF vars, ring, Fifo!vars, Contents, CallStatus
  <1> QED
    BY <1>1, <1>2, <1>3, <1>4, <1>5, <1>6, <1>7, <1>8, <1>9, <1>10, <1>11
       DEF Next, PushStep, PopStep, Fifo!Next

(* The ring with its condition variables is a bounded first-in first-out   *)
(* queue that loses, duplicates and reorders nothing, refuses a push only  *)
(* once closed, and hands out what it holds even after that                *)
(* (event_queue.c:50-103).                                                 *)
THEOREM QueueImplementsFifo == Spec => ImplementsFifo
  <1> QED
    BY InitRefines, StepRefines, TypeCorrect, RingCorrect, PTL
       DEF Spec, ImplementsFifo, Fifo!Spec

-----------------------------------------------------------------------------
(* The safety half of CallsReturnAfterClose                                *)

(* Once the queue is closed (event_queue.c:97-103) it only drains: it      *)
(* accepts nothing, nobody goes to sleep on it again, every call inside it *)
(* returns at its next step, a push refused and a pop with an event as     *)
(* long as there is one left (event_queue.c:52-57, 74-83).                 *)
OnlyDrains ==
  closed =>
    /\ closed' /\ queue_pushes' = queue_pushes /\ size' <= size
    /\ \A t \in Threads : /\ pc'[t] # "waiting"
                          /\ pc[t] # "idle" /\ pc'[t] # pc[t] => pc'[t] = "idle"
    /\ \A p \in Producers : pc[p] # "idle" /\ pc'[p] = "idle" => result'[p] = "refused"
    /\ \A c \in Consumers : pc[c] # "idle" /\ pc'[c] = "idle" =>
                              result'[c] = IF size = 0 THEN "refused" ELSE "ok"

(* With nobody asleep a signal wakes nobody.                               *)
LEMMA SignalsUnheard ==
  ASSUME NoSleeperAfterClose, closed, NEW t \in Threads, NEW S \in SUBSET Threads,
         SignalAndReturn(t, S)
  PROVE  pc' = [pc EXCEPT ![t] = "idle"]
  BY DEF SignalAndReturn, NoSleeperAfterClose, Waiting

(* A call that returns moves its own thread only.                          *)
LEMMA ReturnMovesOne ==
  ASSUME TypeOK, NoSleeperAfterClose, closed, NEW t \in Threads, NEW r, Returns(t, r),
         pc' = [pc EXCEPT ![t] = "idle"]
  PROVE  /\ pc'[t] = "idle" /\ result'[t] = r
         /\ \A u \in Threads : pc'[u] # "waiting" /\ (u # t => pc'[u] = pc[u])
  BY DEF TypeOK, NoSleeperAfterClose, Waiting, Returns

(* A step that enters, or does not move at all.                            *)
LEMMA QuietAfterClose ==
  ASSUME closed, closed', UNCHANGED <<ring, metrics>>, TypeOK,
         \A u \in Threads : pc'[u] # "waiting" /\ (pc[u] # "idle" => pc'[u] = pc[u])
  PROVE  OnlyDrains
<1>1. size' = size /\ queue_pushes' = queue_pushes /\ size \in Nat
  BY DEF ring, metrics, TypeOK
<1>2. \A u \in Threads : ~(pc[u] # "idle" /\ pc'[u] = "idle")
  OBVIOUS
<1> QED
  BY <1>1, <1>2 DEF OnlyDrains, Threads

(* A call that returns does what OnlyDrains asks of its group.             *)
LEMMA ReturnAfterClose ==
  ASSUME TypeOK, closed, closed', NEW t \in Threads,
         queue_pushes' = queue_pushes, size' <= size, pc'[t] = "idle",
         \A u \in Threads : pc'[u] # "waiting" /\ (u # t => pc'[u] = pc[u]),
         t \in Producers => result'[t] = "refused",
         t \in Consumers => result'[t] = IF size = 0 THEN "refused" ELSE "ok"
  PROVE  OnlyDrains
<1>1. \A u \in Threads \ {t} : ~(pc[u] # "idle" /\ pc'[u] = "idle")
  OBVIOUS
<1>2. \A p \in Producers : pc[p] # "idle" /\ pc'[p] = "idle" => result'[p] = "refused"
  BY <1>1 DEF Threads
<1>3. \A c \in Consumers : pc[c] # "idle" /\ pc'[c] = "idle" =>
                              result'[c] = IF size = 0 THEN "refused" ELSE "ok"
  BY <1>1 DEF Threads
<1>4. \A u \in Threads : pc[u] # "idle" /\ pc'[u] # pc[u] => pc'[u] = "idle"
  OBVIOUS
<1> QED
  BY <1>2, <1>3, <1>4 DEF OnlyDrains

(* event_queue_close leaves a queue that hands out what it holds and takes *)
(* nothing more, and in which no call can stay (event_queue.c:52-57,       *)
(* 74-84, 97-103), for any number of producers and consumers.              *)
THEOREM ClosedQueueDrains == Spec => [][OnlyDrains]_vars
<1>1. TypeOK /\ NoSleeperAfterClose /\ [Next]_vars => [OnlyDrains]_vars
  <2> SUFFICES ASSUME TypeOK, NoSleeperAfterClose, Next, closed
               PROVE  OnlyDrains
    BY DEF OnlyDrains
  <2>0. /\ size \in Nat /\ pc \in [Threads -> {"idle", "ready", "waiting"}]
        /\ \A u \in Threads : pc[u] # "waiting"
    BY QueueAssumption DEF TypeOK, NoSleeperAfterClose, Waiting
  <2>1. ASSUME NEW t \in Threads, closed' = closed, UNCHANGED <<ring, metrics>>,
               pc[t] = "idle", pc' = [pc EXCEPT ![t] = "ready"]
        PROVE  OnlyDrains
    BY <2>0, <2>1, QuietAfterClose
  <2>2. ASSUME NEW p \in Producers, (\E e \in Events : CallPush(p, e)) \/ PushStep(p)
        PROVE  OnlyDrains
    <3>0. p \in Threads /\ p \notin Consumers
      BY QueueAssumption DEF Threads
    <3>1. CASE \E e \in Events : CallPush(p, e)
      BY <3>0, <3>1, <2>1 DEF CallPush
    <3>2. CASE PushRefuse(p)
      <4>1. /\ Returns(p, "refused") /\ pc' = [pc EXCEPT ![p] = "idle"]
            /\ closed' = closed /\ queue_pushes' = queue_pushes /\ size' = size
        BY <3>2 DEF PushRefuse, Return, ring, metrics
      <4>2. /\ pc'[p] = "idle" /\ result'[p] = "refused"
            /\ \A u \in Threads : pc'[u] # "waiting" /\ (u # p => pc'[u] = pc[u])
        BY <3>0, <4>1, ReturnMovesOne
      <4> QED
        BY <2>0, <3>0, <4>1, <4>2, ReturnAfterClose
    <3> QED
      BY <2>2, <3>1, <3>2 DEF PushStep, PushWait, PushAccept
  <2>3. ASSUME NEW c \in Consumers, (\E b \in BOOLEAN : CallPop(c, b)) \/ PopStep(c)
        PROVE  OnlyDrains
    <3>0. c \in Threads /\ c \notin Producers /\ Producers \in SUBSET Threads
      BY QueueAssumption DEF Threads
    <3>1. CASE \E b \in BOOLEAN : CallPop(c, b)
      BY <3>0, <3>1, <2>1 DEF CallPop
    <3>2. CASE PopRefuse(c)
      <4>1. /\ Returns(c, "refused") /\ pc' = [pc EXCEPT ![c] = "idle"] /\ size = 0
            /\ closed' = closed /\ queue_pushes' = queue_pushes /\ size' = size
        BY <3>2 DEF PopRefuse, Return, ring, metrics
      <4>2. /\ pc'[c] = "idle" /\ result'[c] = "refused"
            /\ \A u \in Threads : pc'[u] # "waiting" /\ (u # c => pc'[u] = pc[u])
        BY <3>0, <4>1, ReturnMovesOne
      <4> QED
        BY <2>0, <3>0, <4>1, <4>2, ReturnAfterClose
    <3>3. CASE PopAccept(c)
      <4>1. /\ Returns(c, "ok") /\ SignalAndReturn(c, Producers) /\ size # 0
            /\ closed' = closed /\ queue_pushes' = queue_pushes /\ size' = size - 1
        BY <3>3 DEF PopAccept
      <4>2. pc' = [pc EXCEPT ![c] = "idle"]
        BY <3>0, <4>1, SignalsUnheard
      <4>3. /\ pc'[c] = "idle" /\ result'[c] = "ok"
            /\ \A u \in Threads : pc'[u] # "waiting" /\ (u # c => pc'[u] = pc[u])
        BY <3>0, <4>1, <4>2, ReturnMovesOne
      <4>4. size' <= size
        BY <2>0, <4>1
      <4> QED
        BY <3>0, <4>1, <4>3, <4>4, ReturnAfterClose
    <3> QED
      BY <2>3, <3>1, <3>2, <3>3 DEF PopStep, PopWait
  <2>4. CASE \E t \in Threads : SpuriousWakeup(t)
    BY <2>0, <2>4 DEF SpuriousWakeup
  <2>5. CASE Close
    <3>1. \A u \in Threads : pc'[u] = pc[u]
      BY <2>0, <2>5 DEF Close, Waiting
    <3> QED
      BY <2>0, <2>5, <3>1, QuietAfterClose DEF Close
  <2> QED
    BY <2>2, <2>3, <2>4, <2>5 DEF Next
<1> QED
  BY <1>1, TypeCorrect, SleepersReleased, PTL DEF Spec
=============================================================================
