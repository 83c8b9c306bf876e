--------------------------- MODULE DbWriterProofs ---------------------------
(***************************************************************************)
(* Theorems about DbWriter for every queue capacity, batch size, number of *)
(* events and number of faults.                                            *)
(***************************************************************************)
EXTENDS DbWriter, SequenceTheorems, TLAPS

(* The rows of a statement that leaves some out are events of the batch.   *)
LEMMA WithoutType ==
  ASSUME NEW S, NEW s \in Seq(S), NEW drop, NEW rows \in Without(s, drop)
  PROVE  rows \in Seq(S)
  <1>1. PICK m \in 0 .. Len(s) : \E pos \in [1 .. m -> (1 .. Len(s)) \ drop] :
          rows = [i \in DOMAIN pos |-> s[pos[i]]]
    BY DEF Without
  <1>2. PICK pos \in [1 .. m -> (1 .. Len(s)) \ drop] :
          rows = [i \in DOMAIN pos |-> s[pos[i]]]
    BY <1>1
  <1>3. rows \in [1 .. m -> S]
    BY <1>2
  <1> QED
    BY <1>3

(* What a flush can do to the writer's fields, in types.                   *)
LEMMA FlushType ==
  ASSUME TypeOK, NEW k \in Kinds, Flush(k)
  PROVE  /\ conn' \in {"null", "ok", "bad"}
         /\ batch' \in [Kinds -> Seq(Event)] /\ table' \in [Kinds -> Seq(Event)]
         /\ events_inserted' \in [Kinds -> Nat]
         /\ db_inserts_success' \in Nat /\ db_inserts_failed' \in Nat
         /\ db_batches' \in Nat /\ db_reconnects' \in Nat
         /\ faults' \in 0 .. MaxFaults
         /\ kept' \subseteq Kinds /\ skipped' \subseteq Event /\ ambiguous' \in Nat
  <1> USE WriterAssumption
  <1>1. CASE UNCHANGED <<batch, database>>
    BY <1>1 DEF TypeOK, database, counters
  <1>2. CASE NoConnection(k)
    BY <1>2 DEF NoConnection, KeepBatch, Fault, TypeOK, counters
  <1>3. CASE NoStatement(k)
    BY <1>3 DEF NoStatement, KeepBatch, EnsureConnection, Fault, TypeOK
  <1>4. CASE InsertAll(k)
    <2>1. table[k] \o batch[k] \in Seq(Event) /\ Len(batch[k]) \in Nat
      BY DEF TypeOK
    <2> QED
      BY <1>4, <2>1 DEF InsertAll, EnsureConnection, CountInserted, TypeOK
  <1>5. CASE InsertSome(k)
    <2>0. PICK drop \in (SUBSET (2 .. Len(batch[k]))) \ {{}} :
            \E rows \in Without(batch[k], drop) :
              /\ table' = [table EXCEPT ![k] = @ \o rows]
              /\ skipped' = skipped \cup {batch[k][i] : i \in drop}
      BY <1>5 DEF InsertSome
    <2>1. PICK rows \in Without(batch[k], drop) :
            /\ table' = [table EXCEPT ![k] = @ \o rows]
            /\ skipped' = skipped \cup {batch[k][i] : i \in drop}
      BY <2>0
    <2>2. batch[k] \in Seq(Event) /\ table[k] \in Seq(Event) /\ Len(batch[k]) \in Nat
      BY DEF TypeOK
    <2>3. rows \in Seq(Event)
      BY <2>2, WithoutType
    <2>4. table' \in [Kinds -> Seq(Event)]
      BY <2>1, <2>2, <2>3 DEF TypeOK
    <2>5. skipped' \subseteq Event
      BY <2>1, <2>2 DEF TypeOK
    <2>6. /\ conn' \in {"null", "ok", "bad"} /\ db_reconnects' \in Nat
          /\ faults' \in 0 .. MaxFaults /\ ambiguous' \in Nat
      <3>1. /\ EnsureConnection /\ Fault /\ conn' = "ok" /\ UNCHANGED ambiguous
        BY <1>5 DEF InsertSome
      <3> QED
        BY <3>1 DEF EnsureConnection, Fault, TypeOK
    <2>7. /\ batch' \in [Kinds -> Seq(Event)] /\ events_inserted' \in [Kinds -> Nat]
          /\ db_inserts_success' \in Nat /\ db_inserts_failed' \in Nat
          /\ db_batches' \in Nat /\ kept' \subseteq Kinds
      <3>1. CountInserted(k)
        BY <1>5 DEF InsertSome
      <3> QED
        BY <2>2, <3>1 DEF CountInserted, TypeOK
    <2> QED
      BY <2>4, <2>5, <2>6, <2>7
  <1>6. CASE InsertRejected(k)
    BY <1>6 DEF InsertRejected, KeepBatch, EnsureConnection, Fault, CountFailed, TypeOK
  <1>7. CASE ConnectionLost(k)
    <2>1. table[k] \o batch[k] \in Seq(Event)
      BY DEF TypeOK
    <2>2. table' \in [Kinds -> Seq(Event)] /\ ambiguous' \in Nat
      <3>1. [table EXCEPT ![k] = @ \o batch[k]] \in [Kinds -> Seq(Event)]
        BY <2>1 DEF TypeOK
      <3>2. table \in [Kinds -> Seq(Event)] /\ ambiguous \in Nat
        BY DEF TypeOK
      <3>3. CASE UNCHANGED <<table, ambiguous>>
        BY <3>2, <3>3
      <3>4. CASE /\ table' = [table EXCEPT ![k] = @ \o batch[k]]
                 /\ ambiguous' = ambiguous + 1
        <4>1. table' \in [Kinds -> Seq(Event)]
          BY <3>1, <3>4, Zenon
        <4> QED
          BY <3>2, <3>4, <4>1
      <3> QED
        BY <1>7, <3>3, <3>4 DEF ConnectionLost
    <2> QED
      BY <1>7, <2>2 DEF ConnectionLost, KeepBatch, EnsureConnection, Fault, CountFailed, TypeOK
  <1> QED
    BY <1>1, <1>2, <1>3, <1>4, <1>5, <1>6, <1>7 DEF Flush

(* The fields keep their types; the batch lengths are another matter, see  *)
(* BatchWithinBound.                                                       *)
THEOREM TypeCorrect == Spec => []TypeOK
<1> USE WriterAssumption
<1>1. Init => TypeOK
  <2> SUFFICES ASSUME Init PROVE TypeOK
    OBVIOUS
  <2>1. /\ <<>> \in Seq(Event) /\ Len(<<>>) <= Capacity
        /\ 0 \in 0 .. MaxEvents /\ 0 \in 0 .. MaxFaults
        /\ "pumpfun" \in Kinds /\ "test" \in PcValues
    BY DEF Kinds, PcValues
  <2>2. /\ batch \in [Kinds -> Seq(Event)] /\ table \in [Kinds -> Seq(Event)]
        /\ taken \in [Kinds -> Seq(Event)] /\ events_inserted \in [Kinds -> Nat]
    BY <2>1 DEF Init
  <2> QED
    BY <2>1, <2>2 DEF Init, TypeOK
<1>2. TypeOK /\ [Next]_vars => TypeOK'
  <2> SUFFICES ASSUME TypeOK, [Next]_vars PROVE TypeOK'
    OBVIOUS
  <2>1. ASSUME NEW k \in Kinds, Ingest(k) PROVE TypeOK'
    <3>1. [kind |-> k, id |-> pushed + 1] \in Event /\ pushed' \in 0 .. MaxEvents
      BY <2>1 DEF Ingest, TypeOK, Event
    <3>2. queue' \in Seq(Event) /\ Len(queue') <= Capacity
      BY <2>1, <3>1 DEF Ingest, TypeOK
    <3> QED
      BY <2>1, <3>1, <3>2 DEF Ingest, TypeOK, database, counters
  <2>2. ASSUME StopFlag PROVE TypeOK'
    BY <2>2 DEF StopFlag, TypeOK, database, counters
  <2>3. ASSUME StopClose PROVE TypeOK'
    BY <2>3 DEF StopClose, TypeOK, database, counters
  <2>4. ASSUME StopJoin PROVE TypeOK'
    BY <2>4 DEF StopJoin, TypeOK, database, counters
  <2>5. ASSUME ClockTick PROVE TypeOK'
    BY <2>5 DEF ClockTick, TypeOK, env, database, counters
  <2>6. ASSUME TestRunning \/ PopNothing \/ TestTimer PROVE TypeOK'
    <3>1. /\ pc' \in PcValues
          /\ UNCHANGED <<env, filled, batch, due, database, events_total, taken>>
      BY <2>6 DEF TestRunning, PopNothing, TestTimer, PcValues
    <3> QED
      BY <3>1 DEF TypeOK, env, database, counters
  <2>7. ASSUME PopEvent \/ PopOverrun PROVE TypeOK'
    <3>1. TakeEvent /\ queue # <<>>
      BY <2>7 DEF PopEvent, PopOverrun, TakeEvent
    <3>2. Head(queue) \in Event /\ Tail(queue) \in Seq(Event) /\ Len(Tail(queue)) <= Capacity
      BY <3>1 DEF TypeOK
    <3>3. Head(queue).kind \in Kinds
      BY <3>2 DEF Event
    <3>4. taken' \in [Kinds -> Seq(Event)] /\ events_total' \in Nat
      BY <3>1, <3>2, <3>3 DEF TakeEvent, TypeOK
    <3>5. batch' \in [Kinds -> Seq(Event)]
      <4>1. batch' = [batch EXCEPT ![Head(queue).kind] = Append(@, Head(queue))]
        BY <2>7 DEF PopEvent, PopOverrun
      <4> QED
        BY <3>2, <3>3, <4>1 DEF TypeOK
    <3>6. pc' \in PcValues /\ filled' \in Kinds
      BY <2>7, <3>3 DEF PopEvent, PopOverrun, TypeOK, PcValues
    <3> QED
      BY <3>1, <3>2, <3>4, <3>5, <3>6 DEF TakeEvent, TypeOK, database, counters
  <2>8. ASSUME FlushFull \/ FlushAllPumpfun \/ FlushAllRaydium \/ FinalPumpfun \/ FinalRaydium
        PROVE  TypeOK'
    <3>1. PICK k \in Kinds : Flush(k)
      BY <2>8 DEF FlushFull, FlushAllPumpfun, FlushAllRaydium, FinalPumpfun, FinalRaydium,
                  TypeOK, Kinds
    <3>2. pc' \in PcValues /\ due' \in BOOLEAN
      BY <2>8 DEF FlushFull, FlushAllPumpfun, FlushAllRaydium, FinalPumpfun, FinalRaydium,
                  TypeOK, PcValues
    <3>3. UNCHANGED <<env, filled, events_total, taken>>
      BY <2>8 DEF FlushFull, FlushAllPumpfun, FlushAllRaydium, FinalPumpfun, FinalRaydium
    <3> QED
      BY <3>1, <3>2, <3>3, FlushType DEF TypeOK, env
  <2>9. ASSUME Finish PROVE TypeOK'
    BY <2>9 DEF Finish, TypeOK, PcValues, env, counters
  <2>10. ASSUME UNCHANGED vars PROVE TypeOK'
    BY <2>10 DEF vars, TypeOK, env, database, counters
  <2> QED
    BY <2>1, <2>2, <2>3, <2>4, <2>5, <2>6, <2>7, <2>8, <2>9, <2>10
       DEF Next, WriterStep, Ended
<1> QED
  BY <1>1, <1>2, PTL DEF Spec

-----------------------------------------------------------------------------
(* The two sums are natural numbers.                                       *)
LEMMA SumsAreNat ==
  ASSUME TypeOK PROVE Pending \in Nat /\ InsertedByKind \in Nat
  <1>1. batch["pumpfun"] \in Seq(Event) /\ batch["raydium"] \in Seq(Event)
    BY DEF TypeOK, Kinds
  <1>2. events_inserted["pumpfun"] \in Nat /\ events_inserted["raydium"] \in Nat
    BY DEF TypeOK, Kinds
  <1>3. Len(batch["pumpfun"]) \in Nat /\ Len(batch["raydium"]) \in Nat
    BY <1>1
  <1>4. \A m, n \in Nat : m + n \in Nat
    OBVIOUS
  <1> QED
    BY <1>2, <1>3, <1>4, Zenon DEF Pending, InsertedByKind

(* What changing one of the two summands does to a sum.                    *)
LEMMA SumChanges ==
  ASSUME NEW f, NEW g, NEW k \in Kinds, NEW d \in Int,
         f["pumpfun"] \in Nat, f["raydium"] \in Nat,
         g[k] = f[k] + d, \A j \in Kinds \ {k} : g[j] = f[j]
  PROVE  g["pumpfun"] + g["raydium"] = f["pumpfun"] + f["raydium"] + d
  <1> DEFINE p == f["pumpfun"]  r == f["raydium"]
             gp == g["pumpfun"]  gr == g["raydium"]
  <1>1. (gp = p + d /\ gr = r) \/ (gp = p /\ gr = r + d)
    BY DEF Kinds
  <1>2. p \in Nat /\ r \in Nat
    OBVIOUS
  <1> HIDE DEF p, r, gp, gr
  <1>3. gp + gr = p + r + d
    BY <1>1, <1>2
  <1> QED
    BY <1>3 DEF p, r, gp, gr

(* The lengths of the batches as a function of the kind.                   *)
LEMMA PendingChanges ==
  ASSUME TypeOK, NEW k \in Kinds, NEW d \in Int,
         Len(batch'[k]) = Len(batch[k]) + d,
         \A j \in Kinds \ {k} : batch'[j] = batch[j]
  PROVE  Pending' = Pending + d
  <1> DEFINE f == [j \in Kinds |-> Len(batch[j])]
             g == [j \in Kinds |-> Len(batch'[j])]
  <1>1. f["pumpfun"] \in Nat /\ f["raydium"] \in Nat
    <2>1. batch["pumpfun"] \in Seq(Event) /\ batch["raydium"] \in Seq(Event)
      BY DEF TypeOK, Kinds
    <2> QED
      BY <2>1 DEF Kinds
  <1>2. g[k] = f[k] + d /\ \A j \in Kinds \ {k} : g[j] = f[j]
    OBVIOUS
  <1>3. g["pumpfun"] + g["raydium"] = f["pumpfun"] + f["raydium"] + d
    <2> HIDE DEF f, g
    <2> QED
      BY <1>1, <1>2, SumChanges
  <1>4. /\ f["pumpfun"] = Len(batch["pumpfun"]) /\ f["raydium"] = Len(batch["raydium"])
        /\ g["pumpfun"] = Len(batch'["pumpfun"]) /\ g["raydium"] = Len(batch'["raydium"])
    BY DEF Kinds
  <1> HIDE DEF f, g
  <1> QED
    BY <1>3, <1>4 DEF Pending

(* A flush moves events from "in a batch" to "counted as inserted" and     *)
(* counts them once, under their kind (db_writer.c:129-136, 192-199).      *)
LEMMA FlushKeepsTotals ==
  ASSUME TypeOK, NEW k \in Kinds, Flush(k)
  PROVE  \E n \in Nat : /\ db_inserts_success' = db_inserts_success + n
                        /\ Pending' = Pending - n
                        /\ InsertedByKind' = InsertedByKind + n
  <1>0. db_inserts_success \in Nat /\ Pending \in Nat /\ InsertedByKind \in Nat
    BY SumsAreNat DEF TypeOK
  <1>1. CASE CountInserted(k)
    <2> DEFINE n == Len(batch[k])
    <2>1. batch[k] \in Seq(Event)
      BY DEF TypeOK
    <2>2. n \in Nat /\ -n \in Int /\ n + (-n) = 0
      BY <2>1
    <2>3. db_inserts_success' = db_inserts_success + n
      BY <1>1 DEF CountInserted
    <2>4. batch'[k] = <<>> /\ \A j \in Kinds \ {k} : batch'[j] = batch[j]
      BY <1>1 DEF CountInserted, TypeOK
    <2>5. Len(batch'[k]) = n + (-n)
      BY <2>2, <2>4
    <2>6. Pending' = Pending + (-n)
      BY <2>2, <2>4, <2>5, PendingChanges
    <2>7. /\ events_inserted'[k] = events_inserted[k] + n
          /\ \A j \in Kinds \ {k} : events_inserted'[j] = events_inserted[j]
      BY <1>1 DEF CountInserted, TypeOK
    <2>8. events_inserted["pumpfun"] \in Nat /\ events_inserted["raydium"] \in Nat
      BY DEF TypeOK, Kinds
    <2> HIDE DEF n
    <2>9. InsertedByKind' = InsertedByKind + n
      BY <2>2, <2>7, <2>8, SumChanges DEF InsertedByKind
    <2>10. Pending' = Pending - n
      BY <1>0, <2>2, <2>6
    <2> QED
      BY <2>2, <2>3, <2>9, <2>10
  <1>2. CASE UNCHANGED <<batch, db_inserts_success, events_inserted>>
    <2>1. Pending' = Pending /\ InsertedByKind' = InsertedByKind
      BY <1>2 DEF Pending, InsertedByKind
    <2>2. 0 \in Nat /\ Pending' = Pending - 0 /\ InsertedByKind' = InsertedByKind + 0
          /\ db_inserts_success' = db_inserts_success + 0
      BY <1>0, <1>2, <2>1
    <2> QED
      BY <2>2
  <1> QED
    BY <1>1, <1>2 DEF Flush, NoConnection, NoStatement, InsertAll, InsertSome,
                      InsertRejected, ConnectionLost, KeepBatch, database, counters

(* A flush that leaves no row out and whose outcome is known neither loses *)
(* nor reorders an event.                                                  *)
LEMMA FlushKeepsOrder ==
  ASSUME TypeOK, NEW k \in Kinds, Flush(k), skipped' = {}, ambiguous' = 0
  PROVE  /\ skipped = {} /\ ambiguous = 0
         /\ \A j \in Kinds : table'[j] \o batch'[j] = table[j] \o batch[j]
  <1>0. \A j \in Kinds : table[j] \in Seq(Event) /\ batch[j] \in Seq(Event)
    BY DEF TypeOK
  <1>1. CASE UNCHANGED <<batch, table, skipped, ambiguous>>
    BY <1>1
  <1>2. CASE InsertAll(k)
    <2>1. UNCHANGED <<skipped, ambiguous>>
      BY <1>2 DEF InsertAll
    <2>2. /\ table' = [table EXCEPT ![k] = @ \o batch[k]]
          /\ batch' = [batch EXCEPT ![k] = <<>>]
      BY <1>2 DEF InsertAll, CountInserted
    <2>3. ASSUME NEW j \in Kinds PROVE table'[j] \o batch'[j] = table[j] \o batch[j]
      <3>1. CASE j = k
        <4>1. table'[j] = table[j] \o batch[j] /\ batch'[j] = <<>>
          BY <2>2, <3>1 DEF TypeOK
        <4>2. table[j] \o batch[j] \in Seq(Event)
          BY <1>0
        <4> QED
          BY <4>1, <4>2, ConcatEmptySeq
      <3>2. CASE j # k
        BY <2>2, <3>2 DEF TypeOK
      <3> QED
        BY <3>1, <3>2
    <2> QED
      BY <2>1, <2>3
  <1>3. CASE InsertSome(k)
    <2>1. PICK drop \in (SUBSET (2 .. Len(batch[k]))) \ {{}} :
            skipped' = skipped \cup {batch[k][i] : i \in drop}
      BY <1>3 DEF InsertSome
    <2> QED
      BY <2>1
  <1>4. CASE ConnectionLost(k)
    <2>1. ambiguous' # ambiguous + 1
      BY DEF TypeOK
    <2> QED
      BY <1>1, <1>4, <2>1 DEF ConnectionLost, KeepBatch
  <1> QED
    BY <1>1, <1>2, <1>3, <1>4
       DEF Flush, NoConnection, NoStatement, InsertRejected, KeepBatch, database

(* Taking an event moves it from the queue to the end of its batch, and to *)
(* the end of the history (db_writer.c:234-248).                           *)
LEMMA PopMoves ==
  ASSUME TypeOK, PopEvent \/ PopOverrun
  PROVE  /\ Head(queue) \in Event /\ Head(queue).kind \in Kinds
         /\ batch' = [batch EXCEPT ![Head(queue).kind] = Append(@, Head(queue))]
         /\ taken' = [taken EXCEPT ![Head(queue).kind] = Append(@, Head(queue))]
         /\ events_total' = events_total + 1
         /\ UNCHANGED <<database, stopper>>
  <1>1. TakeEvent /\ queue # <<>>
    BY DEF PopEvent, PopOverrun, TakeEvent
  <1>2. Head(queue) \in Event
    BY <1>1 DEF TypeOK
  <1>3. Head(queue).kind \in Kinds
    BY <1>2 DEF Event
  <1>4. batch' = [batch EXCEPT ![Head(queue).kind] = Append(@, Head(queue))]
    BY DEF PopEvent, PopOverrun
  <1> QED
    BY <1>1, <1>2, <1>3, <1>4 DEF TakeEvent

(* Concatenation and Append.                                               *)
LEMMA AppendMoves ==
  \A s, t \in Seq(Event) : \A e \in Event : Append(s \o t, e) = s \o Append(t, e)
  <1> SUFFICES ASSUME NEW s \in Seq(Event), NEW t \in Seq(Event), NEW e \in Event
               PROVE  Append(s \o t, e) = s \o Append(t, e)
    OBVIOUS
  <1>1. s \o t \in Seq(Event) /\ <<e>> \in Seq(Event)
    BY ConcatProperties
  <1>2. Append(s \o t, e) = (s \o t) \o <<e>>
    BY <1>1, AppendIsConcat
  <1>3. Append(t, e) = t \o <<e>>
    BY AppendIsConcat
  <1> QED
    BY <1>1, <1>2, <1>3, ConcatAssociative

(* events_total is the rows counted as inserted plus the events waiting in *)
(* the batches, whatever fails (db_writer.c:129-133, 192-196, 234).        *)
THEOREM EventsAccountedFor == Spec => []EventsAccounted
<1>1. Init => EventsAccounted
  <2> SUFFICES ASSUME Init PROVE EventsAccounted
    OBVIOUS
  <2>1. Len(batch["pumpfun"]) = 0 /\ Len(batch["raydium"]) = 0
    BY DEF Init, Kinds
  <2>2. events_inserted["pumpfun"] = 0 /\ events_inserted["raydium"] = 0
    BY DEF Init, Kinds
  <2>3. Pending = 0 /\ InsertedByKind = 0
    BY <2>1, <2>2 DEF Pending, InsertedByKind
  <2> QED
    BY <2>3 DEF Init, EventsAccounted
<1>2. TypeOK /\ EventsAccounted /\ [Next]_vars => EventsAccounted'
  <2> SUFFICES ASSUME TypeOK, EventsAccounted, [Next]_vars PROVE EventsAccounted'
    OBVIOUS
  <2>0. /\ Pending \in Nat /\ InsertedByKind \in Nat
        /\ db_inserts_success \in Nat /\ events_total \in Nat
    BY SumsAreNat DEF TypeOK
  <2>1. ASSUME UNCHANGED <<batch, counters, events_total>>, Allocated' => Allocated
        PROVE  EventsAccounted'
    BY <2>1 DEF EventsAccounted, Pending, InsertedByKind, counters
  <2>2. ASSUME StopJoin PROVE EventsAccounted'
    BY <2>2 DEF StopJoin, EventsAccounted, Allocated, InsertedByKind, database, counters
  <2>3. ASSUME PopEvent \/ PopOverrun PROVE EventsAccounted'
    <3> DEFINE e == Head(queue)
    <3>1. /\ UNCHANGED <<db_inserts_success, events_inserted, stopper>>
          /\ events_total' = events_total + 1
          /\ e \in Event /\ e.kind \in Kinds
          /\ batch' = [batch EXCEPT ![e.kind] = Append(@, e)]
      BY <2>3, PopMoves DEF database, counters
    <3>2. batch[e.kind] \in Seq(Event)
      BY <3>1 DEF TypeOK
    <3>3. /\ batch'[e.kind] = Append(batch[e.kind], e)
          /\ \A j \in Kinds \ {e.kind} : batch'[j] = batch[j]
      BY <3>1 DEF TypeOK
    <3>4. Len(batch'[e.kind]) = Len(batch[e.kind]) + 1
      BY <3>1, <3>2, <3>3
    <3>5. Pending' = Pending + 1
      <4> HIDE DEF e
      <4> QED
        BY <3>1, <3>3, <3>4, PendingChanges
    <3>6. InsertedByKind' = InsertedByKind /\ (Allocated' <=> Allocated)
      BY <3>1 DEF InsertedByKind, Allocated
    <3> QED
      BY <2>0, <3>1, <3>5, <3>6 DEF EventsAccounted
  <2>4. ASSUME NEW k \in Kinds, Flush(k), UNCHANGED <<events_total, stopper>>
        PROVE  EventsAccounted'
    <3>1. PICK n \in Nat : /\ db_inserts_success' = db_inserts_success + n
                           /\ Pending' = Pending - n
                           /\ InsertedByKind' = InsertedByKind + n
      BY <2>4, FlushKeepsTotals
    <3>2. Allocated' <=> Allocated
      BY <2>4 DEF Allocated
    <3> QED
      BY <2>0, <2>4, <3>1, <3>2 DEF EventsAccounted
  <2>5. CASE \/ \E k \in Kinds : Ingest(k)
             \/ StopFlag \/ StopClose \/ ClockTick
             \/ TestRunning \/ PopNothing \/ TestTimer \/ Finish \/ UNCHANGED vars
    BY <2>1, <2>5 DEF Ingest, StopFlag, StopClose, ClockTick, TestRunning, PopNothing,
                      TestTimer, Finish, vars, env, database, Allocated
  <2>6. CASE FlushFull \/ FlushAllPumpfun \/ FlushAllRaydium \/ FinalPumpfun \/ FinalRaydium
    BY <2>4, <2>6 DEF FlushFull, FlushAllPumpfun, FlushAllRaydium, FinalPumpfun,
                      FinalRaydium, TypeOK, Kinds, env
  <2> QED
    BY <2>2, <2>3, <2>5, <2>6 DEF Next, WriterStep, Ended
<1> QED
  BY <1>1, <1>2, TypeCorrect, PTL DEF Spec

(* Unless an INSERT failed ambiguously or a row was left out, each table   *)
(* followed by its batch is exactly what was popped of its kind: failed    *)
(* flushes, retries and reconnections lose, repeat and reorder nothing     *)
(* (db_writer.c:64-138, 141-201, 238, 244).                                *)
THEOREM PersistedExactlyOnce == Spec => []ExactlyOnce
<1>1. Init => ExactlyOnce
  <2> SUFFICES ASSUME Init PROVE ExactlyOnce
    OBVIOUS
  <2>1. <<>> \o <<>> = <<>>
    BY ConcatEmptySeq
  <2> QED
    BY <2>1 DEF Init, ExactlyOnce
<1>2. TypeOK /\ ExactlyOnce /\ [Next]_vars => ExactlyOnce'
  <2> SUFFICES ASSUME TypeOK, ExactlyOnce, [Next]_vars,
                      Allocated', ambiguous' = 0, skipped' = {}, NEW j \in Kinds
               PROVE  taken'[j] = table'[j] \o batch'[j]
    BY DEF ExactlyOnce
  <2>1. ASSUME UNCHANGED <<batch, table, taken, skipped, ambiguous>>, Allocated
        PROVE  taken'[j] = table'[j] \o batch'[j]
    BY <2>1 DEF ExactlyOnce
  <2>2. CASE StopJoin
    BY <2>2 DEF StopJoin, Allocated
  <2>3. CASE PopEvent \/ PopOverrun
    <3> DEFINE e == Head(queue)
    <3>1. /\ e \in Event /\ e.kind \in Kinds
          /\ batch' = [batch EXCEPT ![e.kind] = Append(@, e)]
          /\ taken' = [taken EXCEPT ![e.kind] = Append(@, e)]
          /\ UNCHANGED <<table, skipped, ambiguous, stopper>>
      BY <2>3, PopMoves DEF database
    <3>2. taken[j] = table[j] \o batch[j]
      BY <3>1 DEF ExactlyOnce, Allocated
    <3>3. /\ table[j] \in Seq(Event) /\ batch[j] \in Seq(Event) /\ taken[j] \in Seq(Event)
      BY DEF TypeOK
    <3>4. CASE j = e.kind
      <4>1. taken'[j] = Append(taken[j], e) /\ batch'[j] = Append(batch[j], e)
        BY <3>1, <3>4 DEF TypeOK
      <4>2. Append(table[j] \o batch[j], e) = table[j] \o Append(batch[j], e)
        <5>1. e \in Event
          BY <3>1
        <5> HIDE DEF e
        <5> QED
          BY <3>3, <5>1, AppendMoves, Zenon
      <4> QED
        BY <3>1, <3>2, <4>1, <4>2
    <3>5. CASE j # e.kind
      BY <3>1, <3>2, <3>5 DEF TypeOK
    <3> QED
      BY <3>4, <3>5
  <2>4. ASSUME NEW k \in Kinds, Flush(k), UNCHANGED <<taken, stopper>>
        PROVE  taken'[j] = table'[j] \o batch'[j]
    <3>1. /\ skipped = {} /\ ambiguous = 0
          /\ table'[j] \o batch'[j] = table[j] \o batch[j]
      BY <2>4, FlushKeepsOrder
    <3> QED
      BY <2>4, <3>1 DEF ExactlyOnce, Allocated
  <2>5. CASE \/ \E k \in Kinds : Ingest(k)
             \/ StopFlag \/ StopClose \/ ClockTick
             \/ TestRunning \/ PopNothing \/ TestTimer \/ Finish \/ UNCHANGED vars
    BY <2>1, <2>5 DEF Ingest, StopFlag, StopClose, ClockTick, TestRunning, PopNothing,
                      TestTimer, Finish, vars, env, database, Allocated
  <2>6. CASE FlushFull \/ FlushAllPumpfun \/ FlushAllRaydium \/ FinalPumpfun \/ FinalRaydium
    BY <2>4, <2>6 DEF FlushFull, FlushAllPumpfun, FlushAllRaydium, FinalPumpfun,
                      FinalRaydium, TypeOK, Kinds, env
  <2> QED
    BY <2>2, <2>3, <2>5, <2>6 DEF Next, WriterStep, Ended
<1> QED
  BY <1>1, <1>2, TypeCorrect, PTL DEF Spec

-----------------------------------------------------------------------------
(* The safety half of StopCompletes                                        *)

(* The most steps the thread can take from each place in db_writer_main    *)
(* until it ends, when it does not go round the loop again.                *)
StepsLeft ==
  [pop |-> 9, full |-> 8, timer |-> 7, all_pumpfun |-> 6, all_raydium |-> 5, test |-> 4,
   final_pumpfun |-> 3, final_raydium |-> 2, finish |-> 1, done |-> 0, overrun |-> 0]

(* Once db_writer_stop has cleared running (db_writer.c:290-294), nothing  *)
(* sets it again, nothing is added to the queue, every step of the thread  *)
(* brings it nearer to its end, and an event is taken from the queue only  *)
(* by a pop that was already due when the flag was cleared: at most one.   *)
StopWindsDown ==
  ~running =>
    /\ ~running' /\ Len(queue') <= Len(queue)
    /\ pc' # pc => StepsLeft[pc'] < StepsLeft[pc]
    /\ taken' # taken => pc = "pop" /\ pc' # "pop"

(* A stop flag goes with a stop in progress, after which nobody ingests.   *)
LEMMA StopIsFlagged == Spec => [](~running => stopper # "none")
<1> DEFINE Flagged == ~running => stopper # "none"
<1>1. Init => Flagged
  BY DEF Init
<1>2. Flagged /\ [Next]_vars => Flagged'
  BY DEF Next, vars, env, database, counters, Ingest, StopFlag, StopClose, StopJoin, ClockTick,
    WriterStep, TestRunning, PopNothing, PopEvent, PopOverrun, TakeEvent, FlushFull, TestTimer,
    FlushAllPumpfun, FlushAllRaydium, FinalPumpfun, FinalRaydium, Finish, Ended
<1> QED
  BY <1>1, <1>2, PTL DEF Spec

(* What the writer does after the stop, step by step.                      *)
LEMMA StoppedWriterStep ==
  ASSUME TypeOK, ~running, WriterStep
  PROVE  StopWindsDown
<1>1. queue \in Seq(Event) /\ Len(queue) \in Nat
  BY DEF TypeOK
<1>2. CASE TestRunning
  BY <1>1, <1>2 DEF TestRunning, StopWindsDown, StepsLeft, env
<1>3. CASE PopNothing
  BY <1>1, <1>3 DEF PopNothing, StopWindsDown, StepsLeft, env
<1>4. CASE PopEvent \/ PopOverrun
  <2>1. queue # <<>> /\ queue' = Tail(queue) /\ running' = running
    BY <1>4 DEF PopEvent, PopOverrun, TakeEvent
  <2>2. Len(queue') <= Len(queue)
    BY <1>1, <2>1
  <2>3. pc = "pop" /\ pc' \in {"full", "timer", "overrun"}
    BY <1>4 DEF PopEvent, PopOverrun
  <2> QED
    BY <2>1, <2>2, <2>3 DEF StopWindsDown, StepsLeft
<1>5. CASE FlushFull
  BY <1>1, <1>5 DEF FlushFull, StopWindsDown, StepsLeft, env
<1>6. CASE TestTimer
  BY <1>1, <1>6 DEF TestTimer, StopWindsDown, StepsLeft, env
<1>7. CASE FlushAllPumpfun
  BY <1>1, <1>7 DEF FlushAllPumpfun, StopWindsDown, StepsLeft, env
<1>8. CASE FlushAllRaydium
  BY <1>1, <1>8 DEF FlushAllRaydium, StopWindsDown, StepsLeft, env
<1>9. CASE FinalPumpfun
  BY <1>1, <1>9 DEF FinalPumpfun, StopWindsDown, StepsLeft, env
<1>10. CASE FinalRaydium
  BY <1>1, <1>10 DEF FinalRaydium, StopWindsDown, StepsLeft, env
<1>11. CASE Finish
  BY <1>1, <1>11 DEF Finish, StopWindsDown, StepsLeft, env
<1> QED
  BY <1>2, <1>3, <1>4, <1>5, <1>6, <1>7, <1>8, <1>9, <1>10, <1>11 DEF WriterStep

(* The loop of db_writer_main ends within nine steps of db_writer_stop,    *)
(* whatever the database does, and takes at most one event in them: the    *)
(* rest of the queue is not drained (db_writer.c:221-267).                 *)
THEOREM StopIsBounded == Spec => [][StopWindsDown]_vars
<1>1. TypeOK /\ (~running => stopper # "none") /\ [Next]_vars => [StopWindsDown]_vars
  <2> SUFFICES ASSUME TypeOK, ~running => stopper # "none", Next, ~running
               PROVE  StopWindsDown
    BY DEF StopWindsDown
  <2>1. queue \in Seq(Event) /\ Len(queue) \in Nat
    BY DEF TypeOK
  <2>2. CASE StopFlag \/ StopClose \/ StopJoin \/ ClockTick \/ Ended
    BY <2>1, <2>2 DEF StopFlag, StopClose, StopJoin, ClockTick, Ended, vars, env, StopWindsDown
  <2>3. CASE \E k \in Kinds : Ingest(k)
    BY <2>3 DEF Ingest
  <2>4. CASE WriterStep
    BY <2>4, StoppedWriterStep
  <2> QED
    BY <2>2, <2>3, <2>4 DEF Next
<1> QED
  BY <1>1, TypeCorrect, StopIsFlagged, PTL DEF Spec
=============================================================================
