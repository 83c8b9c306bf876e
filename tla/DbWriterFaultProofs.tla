------------------------ MODULE DbWriterFaultProofs ------------------------
(***************************************************************************)
(* What faults of the database can and cannot do to the events, for every  *)
(* queue capacity, batch size, number of events and number of faults.      *)
(***************************************************************************)
EXTENDS DbWriterProofs, FiniteSetTheorems

(* Until the first fault every flush empties its batch, so a batch is full *)
(* only between the store that fills it and the flush that follows, and    *)
(* the final flushes leave both batches empty.                             *)
Healthy ==
  faults = 0 =>
    /\ conn # "bad" /\ pc # "overrun"
    /\ \A k \in Kinds : Len(batch[k]) < BATCH_SIZE \/ (pc = "full" /\ k = filled)
    /\ pc \in {"final_raydium", "finish", "done"} => batch["pumpfun"] = <<>>
    /\ pc \in {"finish", "done"} => batch["raydium"] = <<>>
    /\ \A k \in Kinds : taken[k] = table[k] \o batch[k]

(* The events of a kind that are in the table or wait in the batch.        *)
Kept(k) == Range(table[k]) \cup Range(batch[k])

(* The ids in the queue are the last ones given out, in order, and what    *)
(* has been popped has smaller ones: no event is popped twice.             *)
Fresh ==
  /\ Len(queue) <= pushed
  /\ \A i \in 1 .. Len(queue) : queue[i].id = pushed - Len(queue) + i
  /\ \A k \in Kinds : \A e \in Kept(k) : e.id <= pushed - Len(queue)

(* An event is in its batch at most once, and in its table once more for   *)
(* each INSERT that was applied and repeated.                              *)
Repeats ==
  \A k \in Kinds : \A e \in Event :
    /\ Occurrences(e, batch[k]) <= 1
    /\ Occurrences(e, table[k]) + Occurrences(e, batch[k]) <= 1 + ambiguous

FaultInv == Healthy /\ Fresh /\ Repeats

-----------------------------------------------------------------------------
(* Without faults                                                          *)

(* The only flushes that no fault is part of are that of an empty batch    *)
(* and that of all rows.                                                   *)
LEMMA HealthyFlush ==
  ASSUME TypeOK, Healthy, NEW k \in Kinds, Flush(k), faults' = 0
  PROVE  /\ faults = 0 /\ conn' # "bad"
         /\ batch'[k] = <<>> /\ \A j \in Kinds : j # k => batch'[j] = batch[j]
         /\ \A j \in Kinds : table'[j] \o batch'[j] = table[j] \o batch[j]
<1>1. ~Fault
  BY DEF Fault, TypeOK
<1>2. faults = 0 /\ conn # "bad"
  BY <1>1 DEF Flush, NoConnection, NoStatement, InsertAll, InsertSome, InsertRejected,
    ConnectionLost, database, Healthy, TypeOK
<1>3. CASE batch[k] = <<>> /\ UNCHANGED <<batch, database>>
  BY <1>2, <1>3 DEF database
<1>4. CASE InsertAll(k)
  <2>1. /\ conn' = "ok" /\ table' = [table EXCEPT ![k] = @ \o batch[k]]
        /\ batch' = [batch EXCEPT ![k] = <<>>]
    BY <1>4 DEF InsertAll, CountInserted
  <2>2. ASSUME NEW j \in Kinds PROVE table'[j] \o batch'[j] = table[j] \o batch[j]
    <3>1. CASE j = k
      <4>1. table'[j] = table[j] \o batch[j] /\ batch'[j] = <<>>
        BY <2>1, <3>1 DEF TypeOK
      <4>2. table[j] \o batch[j] \in Seq(Event)
        BY DEF TypeOK
      <4> QED
        BY <4>1, <4>2, ConcatEmptySeq
    <3>2. CASE j # k
      BY <2>1, <3>2 DEF TypeOK
    <3> QED
      BY <3>1, <3>2
  <2>3. batch'[k] = <<>> /\ \A j \in Kinds : j # k => batch'[j] = batch[j]
    BY <2>1 DEF TypeOK
  <2> QED
    BY <1>2, <2>1, <2>2, <2>3
<1> QED
  BY <1>1, <1>2, <1>3, <1>4 DEF Flush, NoConnection, NoStatement, InsertSome, InsertRejected,
    ConnectionLost

(* Nothing but a flush can meet a fault.                                   *)
LEMMA HealthyStep ==
  ASSUME TypeOK, Healthy, [Next]_vars
  PROVE  Healthy'
<1> SUFFICES ASSUME faults' = 0
             PROVE  /\ conn' # "bad" /\ pc' # "overrun"
                    /\ \A k \in Kinds : Len(batch'[k]) < BATCH_SIZE \/ (pc' = "full" /\ k = filled')
                    /\ pc' \in {"final_raydium", "finish", "done"} => batch'["pumpfun"] = <<>>
                    /\ pc' \in {"finish", "done"} => batch'["raydium"] = <<>>
                    /\ \A k \in Kinds : taken'[k] = table'[k] \o batch'[k]
  BY DEF Healthy
<1> USE DEF Healthy
<1>0. Len(<<>>) < BATCH_SIZE
  BY WriterAssumption
<1>1. CASE \/ \E k \in Kinds : Ingest(k)
           \/ StopFlag \/ StopClose \/ ClockTick \/ UNCHANGED vars
  BY <1>1 DEF Ingest, StopFlag, StopClose, ClockTick, vars, database
<1>2. CASE TestRunning \/ PopNothing \/ TestTimer
  BY <1>2 DEF TestRunning, PopNothing, TestTimer, database
<1>3. CASE Finish
  BY <1>3 DEF Finish
<1>4. CASE StopJoin
  <2>1. /\ faults = 0 /\ pc = "done" /\ batch' = [k \in Kinds |-> <<>>]
        /\ UNCHANGED <<pc, conn, table, taken>>
    BY <1>4 DEF StopJoin, database
  <2>2. \A k \in Kinds : batch[k] = <<>>
    BY <2>1 DEF Kinds
  <2> QED
    BY <1>0, <2>1, <2>2 DEF Kinds
<1>5. CASE PopEvent \/ PopOverrun
  <2> DEFINE e == Head(queue)  n == e.kind
  <2>1. /\ e \in Event /\ n \in Kinds
        /\ batch' = [batch EXCEPT ![n] = Append(@, e)]
        /\ taken' = [taken EXCEPT ![n] = Append(@, e)]
        /\ UNCHANGED <<table, conn, faults>>
    BY <1>5, PopMoves DEF database
  <2>2. pc = "pop"
    BY <1>5 DEF PopEvent, PopOverrun
  <2>3. \A k \in Kinds : Len(batch[k]) < BATCH_SIZE
    BY <2>1, <2>2
  <2>4. PopEvent
    BY <1>5, <2>1, <2>3, WriterAssumption DEF PopOverrun
  <2>5. pc' \in {"full", "timer"}
    BY <2>4 DEF PopEvent
  <2>6. ASSUME NEW k \in Kinds
        PROVE  Len(batch'[k]) < BATCH_SIZE \/ (pc' = "full" /\ k = filled')
    <3>1. CASE k # n
      BY <2>1, <2>3, <3>1 DEF TypeOK
    <3>2. CASE k = n
      <4>1. Len(batch[n]) \in Nat /\ Len(batch'[n]) = Len(batch[n]) + 1
        BY <2>1 DEF TypeOK
      <4> QED
        BY <2>4, <3>2, <4>1, WriterAssumption DEF PopEvent
    <3> QED
      BY <3>1, <3>2
  <2>7. ASSUME NEW k \in Kinds PROVE taken'[k] = table'[k] \o batch'[k]
    <3>1. taken[k] = table[k] \o batch[k] /\ UNCHANGED table
      BY <2>1
    <3>2. CASE k # n
      BY <2>1, <3>1, <3>2 DEF TypeOK
    <3>3. CASE k = n
      <4>1. taken'[k] = Append(taken[k], e) /\ batch'[k] = Append(batch[k], e)
        BY <2>1, <3>3 DEF TypeOK
      <4>2. table[k] \in Seq(Event) /\ batch[k] \in Seq(Event) /\ e \in Event
        BY <2>1 DEF TypeOK
      <4> HIDE DEF e
      <4>3. Append(table[k] \o batch[k], e) = table[k] \o Append(batch[k], e)
        BY <4>2, AppendMoves, Zenon
      <4> QED
        BY <3>1, <4>1, <4>3
    <3> QED
      BY <3>2, <3>3
  <2> QED
    BY <2>1, <2>5, <2>6, <2>7
<1>6. CASE FlushFull \/ FlushAllPumpfun \/ FlushAllRaydium \/ FinalPumpfun \/ FinalRaydium
  <2>1. PICK k \in Kinds :
          /\ Flush(k) /\ UNCHANGED <<filled, taken>>
          /\ pc' \in {"timer", "all_raydium", "test", "final_raydium", "finish"}
          /\ pc = "full" => k = filled
          /\ pc' = "final_raydium" => k = "pumpfun"
          /\ pc' = "finish" => pc = "final_raydium" /\ k = "raydium"
    BY <1>6 DEF FlushFull, FlushAllPumpfun, FlushAllRaydium, FinalPumpfun, FinalRaydium,
      TypeOK, Kinds
  <2>2. /\ faults = 0 /\ conn' # "bad"
        /\ batch'[k] = <<>> /\ \A j \in Kinds : j # k => batch'[j] = batch[j]
        /\ \A j \in Kinds : table'[j] \o batch'[j] = table[j] \o batch[j]
    BY <2>1, HealthyFlush
  <2>3. \A j \in Kinds : Len(batch'[j]) < BATCH_SIZE
    BY <1>0, <2>1, <2>2
  <2>4. \A j \in Kinds : taken'[j] = table'[j] \o batch'[j]
    BY <2>1, <2>2
  <2>5. pc' = "final_raydium" => batch'["pumpfun"] = <<>>
    BY <2>1, <2>2
  <2>6. pc' = "finish" => batch'["pumpfun"] = <<>> /\ batch'["raydium"] = <<>>
    BY <2>1, <2>2 DEF Kinds
  <2> QED
    BY <2>1, <2>2, <2>3, <2>4, <2>5, <2>6
<1> QED
  BY <1>1, <1>2, <1>3, <1>4, <1>5, <1>6 DEF Next, WriterStep, Ended

(* A writer whose database never fails.                                    *)
LEMMA HealthyHolds == Spec => []Healthy
<1>1. Init => Healthy
  <2> SUFFICES ASSUME Init PROVE Healthy
    OBVIOUS
  <2>1. Len(<<>>) < BATCH_SIZE /\ <<>> \o <<>> = <<>>
    BY WriterAssumption, ConcatEmptySeq
  <2> QED
    BY <2>1 DEF Init, Healthy
<1> QED
  BY <1>1, HealthyStep, TypeCorrect, PTL DEF Spec

(* Outside the moment between the store that fills a batch and the flush   *)
(* that follows, a full batch is one whose flush has failed.               *)
FullIsKept ==
  \A k \in Kinds : Len(batch[k]) >= BATCH_SIZE => 
    k \in kept \/ (pc = "full" /\ k = filled /\ Len(batch[k]) = BATCH_SIZE)

(* A flush empties the batch, or leaves it and says so.                    *)
LEMMA FlushKeepsOrEmpties ==
  ASSUME TypeOK, NEW k \in Kinds, Flush(k)
  PROVE  /\ \/ batch'[k] = <<>>
            \/ batch'[k] = batch[k] /\ (Len(batch[k]) >= BATCH_SIZE => k \in kept')
         /\ \A j \in Kinds : j # k => batch'[j] = batch[j] /\ (j \in kept => j \in kept')
<1>1. CASE batch[k] = <<>> /\ UNCHANGED <<batch, database>>
  BY <1>1 DEF database
<1>2. CASE CountInserted(k)
  BY <1>2 DEF CountInserted, TypeOK
<1>3. CASE KeepBatch(k)
  BY <1>3 DEF KeepBatch
<1> QED
  BY <1>1, <1>2, <1>3 DEF Flush, NoConnection, NoStatement, InsertAll, InsertSome,
    InsertRejected, ConnectionLost

(* A batch is full in the loop only after its flush has failed.            *)
LEMMA FullIsKeptStep ==
  ASSUME TypeOK, FullIsKept, [Next]_vars
  PROVE  FullIsKept'
<1> USE DEF FullIsKept
<1>0. Len(<<>>) < BATCH_SIZE /\ BATCH_SIZE \in Nat
  BY WriterAssumption
<1>1. CASE \/ \E k \in Kinds : Ingest(k)
           \/ StopFlag \/ StopClose \/ ClockTick \/ UNCHANGED vars
  BY <1>1 DEF Ingest, StopFlag, StopClose, ClockTick, vars, database
<1>2. CASE TestRunning \/ PopNothing \/ TestTimer \/ Finish
  BY <1>2 DEF TestRunning, PopNothing, TestTimer, Finish, database
<1>3. CASE StopJoin
  BY <1>0, <1>3 DEF StopJoin
<1>4. CASE PopEvent \/ PopOverrun
  <2> DEFINE e == Head(queue)  n == e.kind
  <2>1. /\ e \in Event /\ n \in Kinds
        /\ batch' = [batch EXCEPT ![n] = Append(@, e)] /\ UNCHANGED kept
    BY <1>4, PopMoves DEF database
  <2>2. pc = "pop"
    BY <1>4 DEF PopEvent, PopOverrun
  <2> SUFFICES ASSUME NEW k \in Kinds, Len(batch'[k]) >= BATCH_SIZE
               PROVE  \/ k \in kept'
                      \/ pc' = "full" /\ k = filled' /\ Len(batch'[k]) = BATCH_SIZE
    OBVIOUS
  <2>3. CASE k # n
    BY <2>1, <2>2, <2>3 DEF TypeOK
  <2>4. CASE k = n /\ PopEvent
    <3>1. Len(batch[n]) \in Nat /\ Len(batch'[n]) = Len(batch[n]) + 1
      BY <2>1 DEF TypeOK
    <3> QED
      BY <1>0, <2>4, <3>1 DEF PopEvent
  <2>5. CASE k = n /\ PopOverrun
    BY <1>0, <2>1, <2>2, <2>5 DEF PopOverrun
  <2> QED
    BY <1>4, <2>3, <2>4, <2>5
<1>5. CASE FlushFull \/ FlushAllPumpfun \/ FlushAllRaydium \/ FinalPumpfun \/ FinalRaydium
  <2>1. PICK k \in Kinds : Flush(k) /\ (pc = "full" => k = filled)
    BY <1>5 DEF FlushFull, FlushAllPumpfun, FlushAllRaydium, FinalPumpfun, FinalRaydium,
      TypeOK, Kinds
  <2>2. /\ \/ batch'[k] = <<>>
           \/ batch'[k] = batch[k] /\ (Len(batch[k]) >= BATCH_SIZE => k \in kept')
        /\ \A j \in Kinds : j # k => batch'[j] = batch[j] /\ (j \in kept => j \in kept')
    BY <2>1, FlushKeepsOrEmpties
  <2>3. ASSUME NEW j \in Kinds, Len(batch'[j]) >= BATCH_SIZE PROVE j \in kept'
    <3>1. CASE j = k
      <4>1. batch'[k] # <<>>
        BY <1>0, <2>3, <3>1
      <4> QED
        BY <2>2, <2>3, <3>1, <4>1
    <3>2. CASE j # k
      BY <2>1, <2>2, <2>3, <3>2
    <3> QED
      BY <3>1, <3>2
  <2> QED
    BY <2>3
<1> QED
  BY <1>1, <1>2, <1>3, <1>4, <1>5 DEF Next, WriterStep, Ended

(* The store past the end of a batch array needs a failed flush of that    *)
(* very batch when it was full (db_writer.c:238-241, 244-247).             *)
THEOREM OverrunCause == Spec => []OverrunNeedsFailedFlush
<1>1. Init => FullIsKept
  <2>1. Len(<<>>) < BATCH_SIZE /\ BATCH_SIZE \in Nat
    BY WriterAssumption
  <2> QED
    BY <2>1 DEF Init, FullIsKept
<1>2. FullIsKept /\ TypeOK => OverrunNeedsFailedFlush
  <2> SUFFICES ASSUME FullIsKept, TypeOK, NEW k \in Kinds, Len(batch[k]) > BATCH_SIZE
               PROVE  k \in kept
    BY DEF OverrunNeedsFailedFlush
  <2>1. Len(batch[k]) \in Nat /\ BATCH_SIZE \in Nat
    BY WriterAssumption DEF TypeOK
  <2> QED
    BY <2>1 DEF FullIsKept
<1> QED
  BY <1>1, <1>2, FullIsKeptStep, TypeCorrect, PTL DEF Spec

(* With a healthy database the final flush leaves nothing behind of what   *)
(* was popped (db_writer.c:259-260).                                       *)
THEOREM CleanShutdown == Spec => []CleanShutdownKeepsAll
<1>1. TypeOK /\ Healthy => CleanShutdownKeepsAll
  <2> SUFFICES ASSUME TypeOK, Healthy, pc = "done", faults = 0, NEW k \in Kinds
               PROVE  table[k] = taken[k]
    BY DEF CleanShutdownKeepsAll
  <2>1. batch[k] = <<>> /\ taken[k] = table[k] \o batch[k]
    BY DEF Healthy, Kinds
  <2>2. table[k] \in Seq(Event)
    BY DEF TypeOK
  <2> QED
    BY <2>1, <2>2, ConcatEmptySeq
<1> QED
  BY <1>1, HealthyHolds, TypeCorrect, PTL

-----------------------------------------------------------------------------
(* What is in a table, in a batch or left out                              *)

(* The elements of a sequence followed by another.                         *)
LEMMA RangeConcat ==
  ASSUME NEW S, NEW s \in Seq(S), NEW t \in Seq(S)
  PROVE  Range(s \o t) = Range(s) \cup Range(t)
<1>1. Range(s) = {s[i] : i \in 1 .. Len(s)} /\ Range(t) = {t[i] : i \in 1 .. Len(t)}
  BY DEF Range
<1>2. /\ Len(s) \in Nat /\ Len(t) \in Nat /\ Len(s \o t) = Len(s) + Len(t)
      /\ s \o t \in Seq(S)
      /\ \A i \in 1 .. Len(s) : (s \o t)[i] = s[i]
      /\ \A i \in 1 .. Len(t) : (s \o t)[i + Len(s)] = t[i]
  OBVIOUS
<1>3. Range(s \o t) = {(s \o t)[i] : i \in 1 .. Len(s) + Len(t)}
  BY <1>2 DEF Range
<1>4. ASSUME NEW x \in Range(s \o t) PROVE x \in Range(s) \cup Range(t)
  <2>1. PICK i \in 1 .. Len(s) + Len(t) : x = (s \o t)[i]
    BY <1>3, <1>4
  <2>2. i \in 1 .. Len(s) \/ (i - Len(s) \in 1 .. Len(t) /\ i = (i - Len(s)) + Len(s))
    BY <1>2
  <2> QED
    BY <1>1, <1>2, <2>1, <2>2
<1>5. ASSUME NEW i \in 1 .. Len(s) PROVE s[i] \in Range(s \o t)
  <2>1. i \in 1 .. Len(s) + Len(t) /\ s[i] = (s \o t)[i]
    BY <1>2
  <2> QED
    BY <1>3, <2>1
<1>6. ASSUME NEW i \in 1 .. Len(t) PROVE t[i] \in Range(s \o t)
  <2>1. i + Len(s) \in 1 .. Len(s) + Len(t) /\ t[i] = (s \o t)[i + Len(s)]
    BY <1>2
  <2> QED
    BY <1>3, <2>1
<1> QED
  BY <1>1, <1>4, <1>5, <1>6

(* The elements of a sequence with one more.                               *)
LEMMA RangeAppend ==
  ASSUME NEW S, NEW s \in Seq(S), NEW e \in S
  PROVE  Range(Append(s, e)) = Range(s) \cup {e}
<1>1. <<e>> \in Seq(S) /\ Range(<<e>>) = {e}
  <2>1. <<e>> \in Seq(S) /\ DOMAIN <<e>> = {1} /\ <<e>>[1] = e
    OBVIOUS
  <2>2. Range(<<e>>) = {<<e>>[i] : i \in DOMAIN <<e>>}
    BY Zenon DEF Range
  <2>3. Range(<<e>>) = {<<e>>[i] : i \in {1}}
    BY <2>1, <2>2, Zenon
  <2>4. Range(<<e>>) = {<<e>>[1]}
    BY <2>3, Zenon
  <2> QED
    BY <2>1, <2>4, Zenon
<1>2. Append(s, e) = s \o <<e>>
  BY AppendIsConcat
<1>3. Range(s \o <<e>>) = Range(s) \cup Range(<<e>>)
  <2> DEFINE t == <<e>>
  <2>1. t \in Seq(S)
    BY <1>1
  <2> HIDE DEF t
  <2>2. Range(s \o t) = Range(s) \cup Range(t)
    BY <2>1, RangeConcat
  <2> QED
    BY <2>2 DEF t
<1> QED
  BY <1>1, <1>2, <1>3, Zenon

(* The rows of a statement that leaves some out are the others.            *)
LEMMA WithoutRange ==
  ASSUME NEW S, NEW s \in Seq(S), NEW drop, NEW rows \in Without(s, drop)
  PROVE  Range(s) \subseteq Range(rows) \cup {s[i] : i \in drop} /\ Range(rows) \subseteq Range(s)
<1>1. PICK m \in 0 .. Len(s) : \E pos \in [1 .. m -> (1 .. Len(s)) \ drop] :
        Range(pos) = (1 .. Len(s)) \ drop /\ rows = [i \in DOMAIN pos |-> s[pos[i]]]
  BY DEF Without
<1>2. PICK pos \in [1 .. m -> (1 .. Len(s)) \ drop] :
        Range(pos) = (1 .. Len(s)) \ drop /\ rows = [i \in DOMAIN pos |-> s[pos[i]]]
  BY <1>1
<1>3. Range(rows) = {s[pos[i]] : i \in 1 .. m}
  BY <1>2 DEF Range
<1>4. {pos[i] : i \in 1 .. m} = (1 .. Len(s)) \ drop
  BY <1>2 DEF Range
<1>5. Range(s) = {s[i] : i \in 1 .. Len(s)}
  BY DEF Range
<1>6. ASSUME NEW j \in 1 .. Len(s), j \notin drop PROVE s[j] \in Range(rows)
  BY <1>3, <1>4, <1>6
<1> QED
  BY <1>3, <1>4, <1>5, <1>6

(* A flush takes nothing out of what is stored, waits or is left out, and  *)
(* brings nothing new into it.                                             *)
LEMMA FlushKeepsEvents ==
  ASSUME TypeOK, NEW k \in Kinds, Flush(k), NEW j \in Kinds
  PROVE  /\ Kept(j) \cup skipped \subseteq Kept(j)' \cup skipped'
         /\ Kept(j)' \subseteq Kept(j)
<1>0. table[k] \in Seq(Event) /\ batch[k] \in Seq(Event) /\ table[j] \in Seq(Event)
  BY DEF TypeOK
<1>1. CASE UNCHANGED <<batch, table, skipped>>
  BY <1>1 DEF Kept
<1>2. ASSUME NEW rows \in Seq(Event), NEW drop,
             Range(batch[k]) \subseteq Range(rows) \cup {batch[k][i] : i \in drop},
             Range(rows) \subseteq Range(batch[k]),
             table' = [table EXCEPT ![k] = @ \o rows],
             \/ UNCHANGED batch \/ batch' = [batch EXCEPT ![k] = <<>>],
             skipped' = skipped \cup {batch[k][i] : i \in drop}
      PROVE  /\ Kept(j) \cup skipped \subseteq Kept(j)' \cup skipped'
             /\ Kept(j)' \subseteq Kept(j)
  <2>1. CASE j # k
    BY <1>2, <2>1 DEF Kept, TypeOK
  <2>2. CASE j = k
    <3>1. table'[j] = table[k] \o rows
      BY <1>2, <2>2 DEF TypeOK
    <3>2. Range(table'[j]) = Range(table[k]) \cup Range(rows)
      <4> DEFINE old == table[k]
                 new == table'[j]
      <4>1. old \in Seq(Event) /\ rows \in Seq(Event) /\ new = old \o rows
        BY <1>0, <1>2, <3>1
      <4> HIDE DEF old, new
      <4>2. Range(old \o rows) = Range(old) \cup Range(rows)
        BY <4>1, RangeConcat
      <4> QED
        BY <4>1, <4>2 DEF old, new
    <3>3. batch'[j] = batch[k] \/ batch'[j] = <<>>
      BY <1>2, <2>2 DEF TypeOK
    <3>4. Range(<<>>) = {}
      BY DEF Range
    <3> QED
      BY <1>2, <2>2, <3>2, <3>3, <3>4 DEF Kept
  <2> QED
    BY <2>1, <2>2
<1>3. CASE InsertAll(k)
  <2>1. /\ table' = [table EXCEPT ![k] = @ \o batch[k]]
        /\ batch' = [batch EXCEPT ![k] = <<>>] /\ UNCHANGED skipped
    BY <1>3 DEF InsertAll, CountInserted
  <2>2. {batch[k][i] : i \in {}} = {}
    OBVIOUS
  <2> QED
    BY <1>0, <1>2, <2>1, <2>2
<1>4. CASE InsertSome(k)
  <2>1. PICK drop \in (SUBSET (2 .. Len(batch[k]))) \ {{}} :
          \E rows \in Without(batch[k], drop) :
            /\ table' = [table EXCEPT ![k] = @ \o rows]
            /\ skipped' = skipped \cup {batch[k][i] : i \in drop}
    BY <1>4 DEF InsertSome
  <2>2. PICK rows \in Without(batch[k], drop) :
            /\ table' = [table EXCEPT ![k] = @ \o rows]
            /\ skipped' = skipped \cup {batch[k][i] : i \in drop}
    BY <2>1
  <2>3. rows \in Seq(Event)
    BY <1>0, WithoutType
  <2>4. /\ Range(batch[k]) \subseteq Range(rows) \cup {batch[k][i] : i \in drop}
        /\ Range(rows) \subseteq Range(batch[k])
    BY <1>0, WithoutRange
  <2>5. batch' = [batch EXCEPT ![k] = <<>>]
    BY <1>4 DEF InsertSome, CountInserted
  <2> QED
    BY <1>2, <2>2, <2>3, <2>4, <2>5
<1>5. CASE ConnectionLost(k)
  <2>1. {batch[k][i] : i \in {}} = {}
    OBVIOUS
  <2>2. UNCHANGED <<batch, skipped>> /\ (UNCHANGED table \/ table' = [table EXCEPT ![k] = @ \o batch[k]])
    BY <1>5 DEF ConnectionLost, KeepBatch
  <2>3. CASE table' = [table EXCEPT ![k] = @ \o batch[k]]
    BY <1>0, <1>2, <2>1, <2>2, <2>3
  <2> QED
    BY <1>1, <2>2, <2>3
<1> QED
  BY <1>1, <1>3, <1>4, <1>5 DEF Flush, NoConnection, NoStatement, InsertRejected, KeepBatch,
    database

(* A popped event is in its table, in its batch or among the rows left     *)
(* out, whatever fails (db_writer.c:86-90, 129-137).                       *)
THEOREM NothingLostSilently == Spec => []NoSilentLoss
<1> DEFINE Safe == Allocated => \A k \in Kinds : Range(taken[k]) \subseteq Kept(k) \cup skipped
<1>1. Init => Safe
  BY DEF Init, Range
<1>2. TypeOK /\ Safe /\ [Next]_vars => Safe'
  <2> SUFFICES ASSUME TypeOK, Safe, [Next]_vars, Allocated', NEW j \in Kinds
               PROVE  Range(taken'[j]) \subseteq Kept(j)' \cup skipped'
    OBVIOUS
  <2>1. CASE StopJoin
    BY <2>1 DEF StopJoin, Allocated
  <2>2. CASE PopEvent \/ PopOverrun
    <3> DEFINE e == Head(queue)
    <3>1. /\ e \in Event /\ e.kind \in Kinds
          /\ batch' = [batch EXCEPT ![e.kind] = Append(@, e)]
          /\ taken' = [taken EXCEPT ![e.kind] = Append(@, e)]
          /\ UNCHANGED <<table, skipped, stopper>>
      BY <2>2, PopMoves DEF database
    <3>2. Range(taken[j]) \subseteq Kept(j) \cup skipped
      BY <3>1 DEF Allocated
    <3>3. taken[j] \in Seq(Event) /\ batch[j] \in Seq(Event)
      BY DEF TypeOK
    <3>4. CASE j = e.kind
      <4>1. taken'[j] = Append(taken[j], e) /\ batch'[j] = Append(batch[j], e)
        BY <3>1, <3>4 DEF TypeOK
      <4>2. /\ Range(Append(taken[j], e)) = Range(taken[j]) \cup {e}
            /\ Range(Append(batch[j], e)) = Range(batch[j]) \cup {e}
        BY <3>1, <3>3, RangeAppend
      <4> HIDE DEF e
      <4> QED
        BY <3>1, <3>2, <4>1, <4>2 DEF Kept
    <3>5. CASE j # e.kind
      BY <3>1, <3>2, <3>5 DEF Kept, TypeOK
    <3> QED
      BY <3>4, <3>5
  <2>3. ASSUME NEW k \in Kinds, Flush(k), UNCHANGED <<taken, stopper>>
        PROVE  Range(taken'[j]) \subseteq Kept(j)' \cup skipped'
    BY <2>3, FlushKeepsEvents DEF Allocated
  <2>4. CASE \/ \E k \in Kinds : Ingest(k)
             \/ StopFlag \/ StopClose \/ ClockTick
             \/ TestRunning \/ PopNothing \/ TestTimer \/ Finish \/ UNCHANGED vars
    <3>1. UNCHANGED <<batch, table, taken, skipped>> /\ Allocated
      BY <2>4 DEF Ingest, StopFlag, StopClose, ClockTick, TestRunning, PopNothing,
                  TestTimer, Finish, vars, env, database, Allocated
    <3> QED
      BY <3>1 DEF Kept
  <2>5. CASE FlushFull \/ FlushAllPumpfun \/ FlushAllRaydium \/ FinalPumpfun \/ FinalRaydium
    BY <2>3, <2>5 DEF FlushFull, FlushAllPumpfun, FlushAllRaydium, FinalPumpfun,
                      FinalRaydium, TypeOK, Kinds, env
  <2> QED
    BY <2>1, <2>2, <2>4, <2>5 DEF Next, WriterStep, Ended
<1>3. TypeOK /\ Safe => NoSilentLoss
  <2> SUFFICES ASSUME TypeOK, Safe, Allocated, NEW k \in Kinds, NEW i \in 1 .. Len(taken[k])
               PROVE  taken[k][i] \in Range(table[k]) \cup Range(batch[k]) \cup skipped
    BY DEF NoSilentLoss
  <2>1. taken[k] \in Seq(Event)
    BY DEF TypeOK
  <2>2. taken[k][i] \in Range(taken[k])
    BY <2>1 DEF Range
  <2> QED
    BY <2>2 DEF Kept
<1> QED
  BY <1>1, <1>2, <1>3, TypeCorrect, PTL DEF Spec

-----------------------------------------------------------------------------
(* How often an event is stored                                            *)

(* A sequence is finite, and the empty one has no elements.                *)
LEMMA OccurrencesType ==
  ASSUME NEW S, NEW s \in Seq(S), NEW e
  PROVE  /\ IsFiniteSet({i \in DOMAIN s : s[i] = e}) /\ Occurrences(e, s) \in Nat
         /\ e \notin Range(s) => Occurrences(e, s) = 0
<1>1. DOMAIN s = 1 .. Len(s) /\ Len(s) \in Nat
  OBVIOUS
<1>2. IsFiniteSet(1 .. Len(s))
  BY <1>1, FS_Interval
<1>3. IsFiniteSet({i \in DOMAIN s : s[i] = e})
  BY <1>1, <1>2, FS_Subset
<1>4. Occurrences(e, s) \in Nat
  BY <1>3, FS_CardinalityType DEF Occurrences
<1>5. ASSUME e \notin Range(s) PROVE Occurrences(e, s) = 0
  <2>1. {i \in DOMAIN s : s[i] = e} = {}
    BY <1>5 DEF Range
  <2> QED
    BY <2>1, FS_EmptySet DEF Occurrences
<1> QED
  BY <1>3, <1>4, <1>5

(* Occurrences add up: those in the second part of a concatenation are     *)
(* those of the second sequence, moved by the length of the first.         *)
LEMMA OccurrencesConcat ==
  ASSUME NEW S, NEW s \in Seq(S), NEW t \in Seq(S), NEW e
  PROVE  Occurrences(e, s \o t) = Occurrences(e, s) + Occurrences(e, t)
<1> DEFINE n == Len(s)
           A == {i \in DOMAIN s : s[i] = e}
           B == {i \in DOMAIN t : t[i] = e}
           C == {i + n : i \in B}
           f == [i \in B |-> i + n]
<1>1. /\ n \in Nat /\ Len(t) \in Nat /\ Len(s \o t) = n + Len(t)
      /\ DOMAIN s = 1 .. n /\ DOMAIN t = 1 .. Len(t) /\ DOMAIN (s \o t) = 1 .. n + Len(t)
      /\ \A i \in 1 .. n : (s \o t)[i] = s[i]
      /\ \A i \in 1 .. Len(t) : (s \o t)[i + n] = t[i]
  OBVIOUS
<1>2. B \subseteq 1 .. Len(t) /\ A \subseteq 1 .. n
  BY <1>1
<1>3. A \cap C = {}
  BY <1>1, <1>2
<1>4. {i \in DOMAIN (s \o t) : (s \o t)[i] = e} = A \cup C
  <2>1. ASSUME NEW i \in 1 .. n + Len(t), (s \o t)[i] = e PROVE i \in A \cup C
    <3>1. CASE i \in 1 .. n
      BY <1>1, <2>1, <3>1
    <3>2. CASE i \notin 1 .. n
      <4>1. i - n \in 1 .. Len(t) /\ i = (i - n) + n
        BY <1>1, <3>2
      <4> QED
        BY <1>1, <2>1, <4>1
    <3> QED
      BY <3>1, <3>2
  <2>2. ASSUME NEW i \in A PROVE i \in 1 .. n + Len(t) /\ (s \o t)[i] = e
    BY <1>1
  <2>3. ASSUME NEW i \in B PROVE i + n \in 1 .. n + Len(t) /\ (s \o t)[i + n] = e
    BY <1>1
  <2> QED
    BY <1>1, <2>1, <2>2, <2>3
<1>5. IsFiniteSet(A) /\ IsFiniteSet(B) /\ Cardinality(A) \in Nat /\ Cardinality(B) \in Nat
  BY OccurrencesType DEF Occurrences
<1>6. ExistsBijection(B, C)
  <2>1. f \in [B -> C]
    OBVIOUS
  <2>2. \A i, j \in B : f[i] = f[j] => i = j
    BY <1>1, <1>2
  <2>3. \A c \in C : \E i \in B : f[i] = c
    OBVIOUS
  <2>4. f \in Bijection(B, C)
    BY <2>1, <2>2, <2>3 DEF Bijection, Injection, Surjection, IsInjective
  <2> QED
    BY <2>4 DEF ExistsBijection
<1> HIDE DEF A, B, C, f
<1>7. IsFiniteSet(C) /\ Cardinality(C) = Cardinality(B)
  BY <1>5, <1>6, FS_Bijection
<1>8. Cardinality(A \cup C) = Cardinality(A) + Cardinality(C) - Cardinality(A \cap C)
  BY <1>5, <1>7, FS_Union
<1>9. Cardinality(A \cap C) = 0
  BY <1>3, FS_EmptySet
<1>10. Cardinality(A \cup C) = Cardinality(A) + Cardinality(B)
  BY <1>5, <1>7, <1>8, <1>9
<1> QED
  BY <1>4, <1>10 DEF Occurrences, A, B

(* One more event at the end.                                              *)
LEMMA OccurrencesAppend ==
  ASSUME NEW S, NEW s \in Seq(S), NEW x \in S, NEW e
  PROVE  Occurrences(e, Append(s, x)) = Occurrences(e, s) + (IF x = e THEN 1 ELSE 0)
<1>1. <<x>> \in Seq(S) /\ DOMAIN <<x>> = {1} /\ <<x>>[1] = x
  OBVIOUS
<1>2. Append(s, x) = s \o <<x>>
  BY AppendIsConcat
<1>3. Occurrences(e, <<x>>) = IF x = e THEN 1 ELSE 0
  <2>1. {i \in DOMAIN <<x>> : <<x>>[i] = e} = IF x = e THEN {1} ELSE {}
    BY <1>1
  <2>2. Cardinality({1}) = 1 /\ Cardinality({}) = 0
    BY FS_Singleton, FS_EmptySet
  <2> QED
    BY <2>1, <2>2 DEF Occurrences
<1>4. Occurrences(e, s \o <<x>>) = Occurrences(e, s) + Occurrences(e, <<x>>)
  BY <1>1, OccurrencesConcat, Zenon
<1> QED
  BY <1>2, <1>3, <1>4, Zenon

(* Leaving rows out repeats none: each row comes from its own position.    *)
LEMMA OccurrencesWithout ==
  ASSUME NEW S, NEW s \in Seq(S), NEW drop, NEW rows \in Without(s, drop), NEW e
  PROVE  Occurrences(e, rows) <= Occurrences(e, s)
<1>1. PICK m \in 0 .. Len(s) : \E pos \in [1 .. m -> (1 .. Len(s)) \ drop] :
        /\ \A i, j \in DOMAIN pos : i < j => pos[i] < pos[j]
        /\ rows = [i \in DOMAIN pos |-> s[pos[i]]]
  BY DEF Without
<1>2. PICK pos \in [1 .. m -> (1 .. Len(s)) \ drop] :
        /\ \A i, j \in DOMAIN pos : i < j => pos[i] < pos[j]
        /\ rows = [i \in DOMAIN pos |-> s[pos[i]]]
  BY <1>1
<1> DEFINE A == {i \in DOMAIN rows : rows[i] = e}
           B == {i \in DOMAIN s : s[i] = e}
           f == [i \in A |-> pos[i]]
<1>3. DOMAIN rows = 1 .. m /\ DOMAIN s = 1 .. Len(s) /\ \A i \in 1 .. m : rows[i] = s[pos[i]]
  BY <1>2
<1>4. f \in [A -> B]
  BY <1>2, <1>3
<1>5. ASSUME NEW i \in A, NEW j \in A, f[i] = f[j] PROVE i = j
  <2>1. i \in Int /\ j \in Int /\ pos[i] \in Int /\ pos[j] \in Int /\ pos[i] = pos[j]
    BY <1>2, <1>3, <1>5
  <2>2. i < j => pos[i] < pos[j]
    BY <1>2, <1>3
  <2>3. j < i => pos[j] < pos[i]
    BY <1>2, <1>3
  <2> QED
    BY <2>1, <2>2, <2>3
<1>6. f \in Injection(A, B)
  BY <1>4, <1>5 DEF Injection, IsInjective
<1>7. IsFiniteSet(B)
  BY OccurrencesType
<1> HIDE DEF A, B, f
<1>8. Cardinality(A) <= Cardinality(B)
  BY <1>6, <1>7, FS_Injection
<1> QED
  BY <1>8 DEF A, B, Occurrences

(* The ids of what has been popped stay below those of the queue.          *)
LEMMA FreshStep ==
  ASSUME TypeOK, Fresh, [Next]_vars
  PROVE  Fresh'
<1> DEFINE low == pushed - Len(queue)
<1>0. /\ queue \in Seq(Event) /\ Len(queue) \in Nat /\ pushed \in Nat /\ low \in Int
      /\ \A k \in Kinds : Kept(k) \subseteq Event
  <2>1. queue \in Seq(Event) /\ Len(queue) \in Nat /\ pushed \in Nat /\ low \in Int
    BY DEF TypeOK
  <2>2. ASSUME NEW k \in Kinds PROVE Kept(k) \subseteq Event
    <3>1. table[k] \in Seq(Event) /\ batch[k] \in Seq(Event)
      BY DEF TypeOK
    <3> QED
      BY <3>1 DEF Kept, Range
  <2> QED
    BY <2>1, <2>2
<1>1. ASSUME UNCHANGED <<queue, pushed>>, \A k \in Kinds : Kept(k)' \subseteq Kept(k)
      PROVE  Fresh'
  BY <1>1 DEF Fresh
<1>2. ASSUME NEW k \in Kinds, Ingest(k) PROVE Fresh'
  <2> DEFINE e == [kind |-> k, id |-> pushed + 1]
  <2>1. /\ pushed' = pushed + 1 /\ queue' = Append(queue, e) /\ UNCHANGED <<table, batch>>
    BY <1>2 DEF Ingest, database
  <2>2. Len(queue') = Len(queue) + 1
    BY <1>0, <2>1
  <2>3. pushed' - Len(queue') = low
    BY <1>0, <2>1, <2>2
  <2>4. ASSUME NEW i \in 1 .. Len(queue') PROVE queue'[i].id = low + i
    <3>1. CASE i \in 1 .. Len(queue)
      <4>1. queue'[i] = queue[i]
        BY <1>0, <2>1, <3>1
      <4> QED
        BY <3>1, <4>1 DEF Fresh
    <3>2. CASE i = Len(queue) + 1
      <4>1. queue'[i] = e
        BY <1>0, <2>1, <3>2
      <4> QED
        BY <1>0, <3>2, <4>1
    <3> QED
      BY <1>0, <2>2, <3>1, <3>2
  <2>5. \A j \in Kinds : Kept(j)' = Kept(j)
    BY <2>1 DEF Kept
  <2>6. Len(queue') <= pushed'
    BY <1>0, <2>1, <2>2 DEF Fresh
  <2> QED
    BY <2>3, <2>4, <2>5, <2>6 DEF Fresh
<1>3. CASE PopEvent \/ PopOverrun
  <2> DEFINE e == Head(queue)
  <2>1. /\ queue # <<>> /\ queue' = Tail(queue) /\ UNCHANGED <<pushed, table>>
        /\ e \in Event /\ e.kind \in Kinds
        /\ batch' = [batch EXCEPT ![e.kind] = Append(@, e)]
    BY <1>3, PopMoves DEF PopEvent, PopOverrun, TakeEvent, database
  <2>2. /\ Len(queue') = Len(queue) - 1 /\ Len(queue) >= 1 /\ e = queue[1]
        /\ \A i \in 1 .. Len(queue') : queue'[i] = queue[i + 1] /\ i + 1 \in 1 .. Len(queue)
    BY <1>0, <2>1
  <2>3. pushed' - Len(queue') = low + 1
    BY <1>0, <2>1, <2>2
  <2>4. e.id = low + 1
    BY <1>0, <2>2 DEF Fresh
  <2>5. ASSUME NEW i \in 1 .. Len(queue') PROVE queue'[i].id = (low + 1) + i
    <3>1. queue[i + 1].id = low + (i + 1)
      BY <2>2 DEF Fresh
    <3> QED
      BY <1>0, <2>2, <3>1
  <2>6. \A k \in Kinds : Kept(k)' \subseteq Kept(k) \cup {e}
    <3>1. ASSUME NEW k \in Kinds PROVE Range(batch'[k]) \subseteq Range(batch[k]) \cup {e}
      <4>1. CASE k # e.kind
        BY <2>1, <4>1 DEF TypeOK
      <4>2. CASE k = e.kind
        <5>1. batch[k] \in Seq(Event) /\ batch'[k] = Append(batch[k], e)
          BY <2>1, <4>2 DEF TypeOK
        <5>2. Range(Append(batch[k], e)) = Range(batch[k]) \cup {e}
          BY <2>1, <5>1, RangeAppend
        <5> HIDE DEF e
        <5> QED
          BY <5>1, <5>2
      <4> QED
        BY <4>1, <4>2
    <3> HIDE DEF e
    <3> QED
      BY <2>1, <3>1 DEF Kept
  <2>7. ASSUME NEW k \in Kinds, NEW x \in Kept(k)' PROVE x.id <= low + 1
    <3>1. CASE x = e
      BY <1>0, <2>4, <3>1
    <3>2. CASE x \in Kept(k)
      <4>1. x.id <= low
        BY <3>2 DEF Fresh
      <4>2. x.id \in Int
        BY <1>0, <3>2 DEF Event
      <4> QED
        BY <1>0, <4>1, <4>2
    <3> QED
      BY <2>6, <3>1, <3>2
  <2>8. Len(queue') <= pushed'
    BY <1>0, <2>1, <2>2 DEF Fresh
  <2> QED
    BY <2>3, <2>5, <2>7, <2>8 DEF Fresh
<1>4. CASE StopJoin
  <2>1. \A k \in Kinds : Kept(k)' \subseteq Kept(k)
    BY <1>4 DEF StopJoin, database, Kept, Range
  <2> QED
    BY <1>1, <1>4, <2>1 DEF StopJoin
<1>5. CASE \/ StopFlag \/ StopClose \/ ClockTick
           \/ TestRunning \/ PopNothing \/ TestTimer \/ Finish \/ UNCHANGED vars
  <2>1. UNCHANGED <<queue, pushed, batch, table>>
    BY <1>5 DEF StopFlag, StopClose, ClockTick, TestRunning, PopNothing,
                TestTimer, Finish, vars, env, database
  <2>2. \A k \in Kinds : Kept(k)' \subseteq Kept(k)
    BY <2>1 DEF Kept
  <2> QED
    BY <1>1, <2>1, <2>2
<1>6. CASE FlushFull \/ FlushAllPumpfun \/ FlushAllRaydium \/ FinalPumpfun \/ FinalRaydium
  <2>1. PICK k \in Kinds : Flush(k) /\ UNCHANGED <<queue, pushed>>
    BY <1>6 DEF FlushFull, FlushAllPumpfun, FlushAllRaydium, FinalPumpfun,
                FinalRaydium, TypeOK, Kinds, env
  <2> QED
    BY <1>1, <2>1, FlushKeepsEvents
<1> QED
  BY <1>2, <1>3, <1>4, <1>5, <1>6 DEF Next, WriterStep, Ended

(* A flush repeats the rows of its batch only when its INSERT is applied   *)
(* and reported as failed.                                                 *)
LEMMA FlushRepeats ==
  ASSUME TypeOK, Repeats, NEW k \in Kinds, Flush(k)
  PROVE  Repeats'
<1> SUFFICES ASSUME NEW j \in Kinds, NEW e \in Event
             PROVE  /\ Occurrences(e, batch'[j]) <= 1
                    /\ Occurrences(e, table'[j]) + Occurrences(e, batch'[j]) <= 1 + ambiguous'
  BY DEF Repeats
<1> DEFINE b == Occurrences(e, batch[j])
           t == Occurrences(e, table[j])
<1>1. table[j] \in Seq(Event) /\ batch[j] \in Seq(Event)
  BY DEF TypeOK
<1>2. b \in Nat /\ t \in Nat /\ ambiguous \in Nat /\ b <= 1 /\ t + b <= 1 + ambiguous
  BY <1>1, OccurrencesType DEF Repeats, TypeOK
<1>3. CASE UNCHANGED <<batch, table, ambiguous>>
  BY <1>2, <1>3
<1>4. CASE j # k
  <2>1. table'[j] = table[j] /\ batch'[j] = batch[j]
    BY <1>4 DEF Flush, NoConnection, NoStatement, InsertAll, InsertSome, InsertRejected,
      ConnectionLost, CountInserted, KeepBatch, database, TypeOK
  <2>2. ambiguous' = ambiguous \/ ambiguous' = ambiguous + 1
    BY DEF Flush, NoConnection, NoStatement, InsertAll, InsertSome, InsertRejected,
      ConnectionLost, database
  <2>3. Occurrences(e, table'[j]) = t /\ Occurrences(e, batch'[j]) = b
    BY <2>1
  <2> HIDE DEF b, t
  <2>4. \A x, y, z \in Nat : x + y <= 1 + z => x + y <= 1 + (z + 1)
    OBVIOUS
  <2>5. t + b <= 1 + (ambiguous + 1)
    BY <1>2, <2>4
  <2> QED
    BY <1>2, <2>2, <2>3, <2>5
<1>5. ASSUME j = k, NEW rows \in Seq(Event), Occurrences(e, rows) <= b,
             table' = [table EXCEPT ![k] = @ \o rows], batch' = [batch EXCEPT ![k] = <<>>],
             UNCHANGED ambiguous
      PROVE  /\ Occurrences(e, batch'[j]) <= 1
             /\ Occurrences(e, table'[j]) + Occurrences(e, batch'[j]) <= 1 + ambiguous'
  <2>1. table'[j] = table[j] \o rows /\ batch'[j] = <<>> /\ <<>> \in Seq(Event)
    <3>1. table \in [Kinds -> Seq(Event)] /\ batch \in [Kinds -> Seq(Event)]
      BY DEF TypeOK
    <3>2. table'[k] = table[k] \o rows
      BY <1>5, <3>1, Zenon
    <3>3. batch'[k] = <<>>
      BY <1>5, <3>1, Zenon
    <3> QED
      BY <1>5, <3>2, <3>3
  <2>2. Occurrences(e, table'[j]) = t + Occurrences(e, rows)
    BY <1>1, <2>1, OccurrencesConcat
  <2>3. Occurrences(e, batch'[j]) = 0
    <3>1. Range(<<>>) = {}
      BY DEF Range
    <3> QED
      BY <2>1, <3>1, OccurrencesType
  <2>4. Occurrences(e, rows) \in Nat
    BY OccurrencesType
  <2> HIDE DEF b, t
  <2> QED
    BY <1>2, <1>5, <2>2, <2>3, <2>4
<1>6. CASE j = k /\ InsertAll(k)
  <2>1. /\ table' = [table EXCEPT ![k] = @ \o batch[k]] /\ UNCHANGED ambiguous
        /\ batch' = [batch EXCEPT ![k] = <<>>]
    BY <1>6 DEF InsertAll, CountInserted
  <2>2. Occurrences(e, batch[k]) <= b
    BY <1>2, <1>6
  <2> QED
    BY <1>1, <1>5, <1>6, <2>1, <2>2
<1>7. CASE j = k /\ InsertSome(k)
  <2>1. PICK drop \in (SUBSET (2 .. Len(batch[k]))) \ {{}} :
          \E rows \in Without(batch[k], drop) : table' = [table EXCEPT ![k] = @ \o rows]
    BY <1>7 DEF InsertSome
  <2>2. PICK rows \in Without(batch[k], drop) : table' = [table EXCEPT ![k] = @ \o rows]
    BY <2>1
  <2>3. rows \in Seq(Event) /\ Occurrences(e, rows) <= b
    BY <1>1, <1>7, WithoutType, OccurrencesWithout
  <2>4. batch' = [batch EXCEPT ![k] = <<>>] /\ UNCHANGED ambiguous
    BY <1>7 DEF InsertSome, CountInserted
  <2> QED
    BY <1>5, <1>7, <2>2, <2>3, <2>4
<1>8. CASE j = k /\ ConnectionLost(k)
  <2>1. CASE table' = [table EXCEPT ![k] = @ \o batch[k]] /\ ambiguous' = ambiguous + 1
    <3>1. table'[j] = table[j] \o batch[j] /\ batch'[j] = batch[j]
      BY <1>8, <2>1 DEF ConnectionLost, KeepBatch, TypeOK
    <3>2. Occurrences(e, table'[j]) = t + b
      BY <1>1, <3>1, OccurrencesConcat
    <3>3. Occurrences(e, batch'[j]) = b
      BY <3>1
    <3> HIDE DEF b, t
    <3> QED
      BY <1>2, <2>1, <3>2, <3>3
  <2> QED
    BY <1>3, <1>8, <2>1 DEF ConnectionLost, KeepBatch
<1> QED
  BY <1>3, <1>4, <1>6, <1>7, <1>8 DEF Flush, NoConnection, NoStatement, InsertRejected, KeepBatch,
    database

(* A popped event is new to its table and its batch.                       *)
LEMMA RepeatsStep ==
  ASSUME TypeOK, Fresh, Repeats, [Next]_vars
  PROVE  Repeats'
<1>1. CASE PopEvent \/ PopOverrun
  <2> DEFINE x == Head(queue)
  <2>1. /\ queue # <<>> /\ UNCHANGED <<table, ambiguous>>
        /\ x \in Event /\ x.kind \in Kinds
        /\ batch' = [batch EXCEPT ![x.kind] = Append(@, x)]
    BY <1>1, PopMoves DEF PopEvent, PopOverrun, TakeEvent, database
  <2>2. x.id = pushed - Len(queue) + 1
    <3>1. queue \in Seq(Event) /\ 1 \in 1 .. Len(queue) /\ x = queue[1]
      BY <2>1 DEF TypeOK
    <3> QED
      BY <3>1 DEF Fresh
  <2>3. \A k \in Kinds : x \notin Kept(k)
    <3>1. pushed \in Int /\ Len(queue) \in Int
      BY DEF TypeOK
    <3> QED
      BY <2>2, <3>1 DEF Fresh
  <2> SUFFICES ASSUME NEW j \in Kinds, NEW e \in Event
               PROVE  /\ Occurrences(e, batch'[j]) <= 1
                      /\ Occurrences(e, table'[j]) + Occurrences(e, batch'[j]) <= 1 + ambiguous'
    BY DEF Repeats
  <2>4. table[j] \in Seq(Event) /\ batch[j] \in Seq(Event) /\ ambiguous \in Nat
    BY DEF TypeOK
  <2>5. CASE j # x.kind
    BY <2>1, <2>5 DEF Repeats, TypeOK
  <2>6. CASE j = x.kind
    <3>1. batch'[j] = Append(batch[j], x) /\ table'[j] = table[j]
      BY <2>1, <2>6 DEF TypeOK
    <3>2. Occurrences(e, Append(batch[j], x)) = Occurrences(e, batch[j]) + (IF x = e THEN 1 ELSE 0)
      BY <2>1, <2>4, OccurrencesAppend
    <3>3. Occurrences(e, table[j]) \in Nat /\ Occurrences(e, batch[j]) \in Nat
      BY <2>4, OccurrencesType
    <3>4. x = e => Occurrences(e, table[j]) = 0 /\ Occurrences(e, batch[j]) = 0
      BY <2>3, <2>4, OccurrencesType DEF Kept
    <3>5. Occurrences(e, batch[j]) <= 1
          /\ Occurrences(e, table[j]) + Occurrences(e, batch[j]) <= 1 + ambiguous
      BY DEF Repeats
    <3> DEFINE b == Occurrences(e, batch[j])
               t == Occurrences(e, table[j])
    <3>6. Occurrences(e, table'[j]) = t /\ ambiguous' = ambiguous
      BY <2>1, <3>1
    <3>7. Occurrences(e, batch'[j]) = b + (IF x = e THEN 1 ELSE 0)
      BY <3>1, <3>2
    <3> HIDE DEF x, b, t
    <3>8. t \in Nat /\ b \in Nat /\ b <= 1 /\ t + b <= 1 + ambiguous /\ (x = e => t = 0 /\ b = 0)
      BY <3>3, <3>4, <3>5 DEF b, t
    <3>9. CASE x = e
      BY <2>4, <3>6, <3>7, <3>8, <3>9
    <3>10. CASE x # e
      <4>1. Occurrences(e, batch'[j]) = b
        BY <3>7, <3>8, <3>10
      <4> QED
        BY <3>6, <3>8, <4>1
    <3> QED
      BY <3>9, <3>10
  <2> QED
    BY <2>5, <2>6
<1>2. CASE StopJoin
  <2>1. batch' = [k \in Kinds |-> <<>>] /\ UNCHANGED <<table, ambiguous>>
    BY <1>2 DEF StopJoin, database
  <2> SUFFICES ASSUME NEW j \in Kinds, NEW e \in Event
               PROVE  /\ Occurrences(e, batch'[j]) <= 1
                      /\ Occurrences(e, table'[j]) + Occurrences(e, batch'[j]) <= 1 + ambiguous'
    BY DEF Repeats
  <2>2. table[j] \in Seq(Event) /\ batch[j] \in Seq(Event) /\ ambiguous \in Nat
    BY DEF TypeOK
  <2>3. Occurrences(e, batch'[j]) = 0
    <3>1. batch'[j] = <<>> /\ <<>> \in Seq(Event) /\ Range(<<>>) = {}
      BY <2>1 DEF Range
    <3> QED
      BY <3>1, OccurrencesType
  <2>4. Occurrences(e, table[j]) \in Nat /\ Occurrences(e, batch[j]) \in Nat
    BY <2>2, OccurrencesType
  <2>5. Occurrences(e, table[j]) + Occurrences(e, batch[j]) <= 1 + ambiguous
    BY DEF Repeats
  <2> QED
    BY <2>1, <2>2, <2>3, <2>4, <2>5
<1>3. CASE \/ \E k \in Kinds : Ingest(k)
           \/ StopFlag \/ StopClose \/ ClockTick
           \/ TestRunning \/ PopNothing \/ TestTimer \/ Finish \/ UNCHANGED vars
  <2>1. UNCHANGED <<batch, table, ambiguous>>
    BY <1>3 DEF Ingest, StopFlag, StopClose, ClockTick, TestRunning, PopNothing,
                TestTimer, Finish, vars, database
  <2> QED
    BY <2>1 DEF Repeats
<1>4. CASE FlushFull \/ FlushAllPumpfun \/ FlushAllRaydium \/ FinalPumpfun \/ FinalRaydium
  <2>1. PICK k \in Kinds : Flush(k)
    BY <1>4 DEF FlushFull, FlushAllPumpfun, FlushAllRaydium, FinalPumpfun,
                FinalRaydium, TypeOK, Kinds
  <2> QED
    BY <2>1, FlushRepeats
<1> QED
  BY <1>1, <1>2, <1>3, <1>4 DEF Next, WriterStep, Ended

(* A row is in its table once, and once more at most for each INSERT that  *)
(* was applied and reported as failed (db_writer.c:114).                   *)
THEOREM DuplicatesLimited == Spec => []DuplicatesBounded
<1>1. Init => Fresh /\ Repeats
  <2> SUFFICES ASSUME Init PROVE Fresh /\ Repeats
    OBVIOUS
  <2>1. \A k \in Kinds : table[k] = <<>> /\ batch[k] = <<>>
    BY DEF Init
  <2>2. Range(<<>>) = {} /\ <<>> \in Seq(Event)
    BY DEF Range
  <2>3. \A e \in Event : Occurrences(e, <<>>) = 0
    BY <2>2, OccurrencesType
  <2>4. Fresh
    BY <2>1, <2>2 DEF Init, Fresh, Kept
  <2>5. Repeats
    BY <2>1, <2>3 DEF Init, Repeats
  <2> QED
    BY <2>4, <2>5
<1>2. TypeOK /\ Repeats => DuplicatesBounded
  <2> SUFFICES ASSUME TypeOK, Repeats, NEW k \in Kinds, NEW i \in 1 .. Len(taken[k])
               PROVE  Occurrences(taken[k][i], table[k] \o batch[k]) <= 1 + ambiguous
    BY DEF DuplicatesBounded
  <2>1. table[k] \in Seq(Event) /\ batch[k] \in Seq(Event) /\ taken[k] \in Seq(Event)
    BY DEF TypeOK
  <2>2. taken[k][i] \in Event
    BY <2>1
  <2> DEFINE e == taken[k][i]
  <2>3. e \in Event
    BY <2>2
  <2> HIDE DEF e
  <2>4. Occurrences(e, table[k]) + Occurrences(e, batch[k]) <= 1 + ambiguous
    BY <2>3 DEF Repeats
  <2>5. Occurrences(e, table[k] \o batch[k]) = Occurrences(e, table[k]) + Occurrences(e, batch[k])
    BY <2>1, OccurrencesConcat
  <2>6. Occurrences(e, table[k] \o batch[k]) <= 1 + ambiguous
    BY <2>4, <2>5
  <2> QED
    BY <2>6 DEF e
<1> QED
  BY <1>1, <1>2, FreshStep, RepeatsStep, TypeCorrect, PTL DEF Spec
=============================================================================
