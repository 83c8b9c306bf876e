------------------------------ MODULE DbWriter ------------------------------
(***************************************************************************)
(* src/db_writer.c: the thread that takes events from the queue, gathers   *)
(* them in one batch per table, inserts a batch when it is full or when    *)
(* the flush interval has passed, and flushes once more when it is         *)
(* stopped.                                                                *)
(*                                                                         *)
(* The writer's pc follows db_writer_main:                                 *)
(*                                                                         *)
(*   "test" -> "pop" -> ["full"] -> "timer" -> ["all_pumpfun" ->           *)
(*   "all_raydium"] -> "test" ... "final_pumpfun" -> "final_raydium" ->    *)
(*   "finish" -> "done"                                                    *)
(*                                                                         *)
(* A flush is one step: it touches only the writer's own fields, counters  *)
(* nobody acts on and the database, so the other threads cannot tell when  *)
(* in it they ran.  The step is the return of the flush, and libpq is      *)
(* given no timeout: a PQconnectdb or PQexec that the server never answers *)
(* is a step that never happens (InCall, and no fairness).  The queue is   *)
(* the bounded sequence EventQueue implements.  The clock is reduced to    *)
(* `due': the flush interval has passed since last_flush.                  *)
(*                                                                         *)
(* Storing at index BATCH_SIZE of a batch array is undefined; the model    *)
(* stops in "overrun" and claims nothing about what follows.               *)
(***************************************************************************)
EXTENDS Integers, Sequences, FiniteSets, Functions

CONSTANTS Capacity,    \* events the queue can hold
          BATCH_SIZE,  \* db_writer.c:22
          MaxEvents,   \* bound: events ingested
          MaxFaults    \* bound: faults of the database, network or allocator

ASSUME WriterAssumption ==
  /\ Capacity \in Nat \ {0} /\ BATCH_SIZE \in Nat \ {0}
  /\ MaxEvents \in Nat /\ MaxFaults \in Nat

Kinds == {"pumpfun", "raydium"}
Event == [kind : Kinds, id : 1 .. MaxEvents]

VARIABLES queue, closed,          \* the event queue
          running,                \* writer->running
          stopper,                \* how far db_writer_stop has come
          pc,                     \* where db_writer_main is
          filled,                 \* the kind whose batch has just filled up
          conn,                   \* writer->conn: NULL, or by PQstatus
          batch,                  \* pumpfun_batch and raydium_batch, up to their counts
          due,                    \* FLUSH_INTERVAL_MS have passed since last_flush
          table,                  \* rows of pumpfun_trades and raydium_swaps
          events_total, events_inserted,              \* g_metrics: events_total and,
          db_inserts_success, db_inserts_failed,      \*   by kind, events_pumpfun and
          db_batches, db_reconnects,                  \*   events_raydium; db counters
          pushed,                 \* events ingested so far
          faults,                 \* faults so far
          taken,                  \* history: events popped, by kind
          kept,                   \* history: kinds whose full batch a flush failed to
                                  \*   insert and none has inserted since
          skipped,                \* history: events left out of a successful INSERT
          ambiguous               \* history: INSERTs applied but reported as failed

env == <<queue, closed, running, stopper, pushed>>
counters == <<events_inserted, db_inserts_success, db_inserts_failed,
              db_batches, db_reconnects>>
database == <<conn, table, counters, faults, kept, skipped, ambiguous>>
vars == <<env, pc, filled, batch, due, database, events_total, taken>>

PcValues == {"test", "pop", "full", "timer", "all_pumpfun", "all_raydium",
             "final_pumpfun", "final_raydium", "finish", "done", "overrun"}

(* The batches' lengths are bounded by BatchWithinBound below.             *)
TypeOK ==
  /\ queue \in Seq(Event) /\ Len(queue) <= Capacity
  /\ closed \in BOOLEAN /\ running \in BOOLEAN /\ due \in BOOLEAN
  /\ stopper \in {"none", "flagged", "closed", "joined"}
  /\ pc \in PcValues
  /\ filled \in Kinds
  /\ conn \in {"null", "ok", "bad"}
  /\ batch \in [Kinds -> Seq(Event)]
  /\ table \in [Kinds -> Seq(Event)]
  /\ taken \in [Kinds -> Seq(Event)]
  /\ events_total \in Nat /\ events_inserted \in [Kinds -> Nat]
  /\ db_inserts_success \in Nat /\ db_inserts_failed \in Nat
  /\ db_batches \in Nat /\ db_reconnects \in Nat
  /\ pushed \in 0 .. MaxEvents
  /\ faults \in 0 .. MaxFaults
  /\ kept \subseteq Kinds
  /\ skipped \subseteq Event
  /\ ambiguous \in Nat

-----------------------------------------------------------------------------
(* db_writer_start: a calloc'ed structure, running, and the new thread.    *)
Init ==
  /\ queue = <<>> /\ closed = FALSE
  /\ running = TRUE /\ stopper = "none"
  /\ pc = "test" /\ filled = "pumpfun"
  /\ conn = "null"
  /\ batch = [k \in Kinds |-> <<>>]
  /\ due = FALSE
  /\ table = [k \in Kinds |-> <<>>]
  /\ events_total = 0 /\ events_inserted = [k \in Kinds |-> 0]
  /\ db_inserts_success = 0 /\ db_inserts_failed = 0
  /\ db_batches = 0 /\ db_reconnects = 0
  /\ pushed = 0 /\ faults = 0
  /\ taken = [k \in Kinds |-> <<>>]
  /\ kept = {} /\ skipped = {} /\ ambiguous = 0

-----------------------------------------------------------------------------
(* The threads around the writer                                           *)

(* A queue that accepts one event more than it has room for.               *)
Ingest_OffByOne(k) ==
  /\ stopper = "none"
  /\ pushed < MaxEvents /\ Len(queue) <= Capacity
  /\ pushed' = pushed + 1
  /\ queue' = Append(queue, [kind |-> k, id |-> pushed + 1])
  /\ UNCHANGED <<closed, running, stopper, pc, filled, batch, due, database,
                 events_total, taken>>

(* dispatch_event on the ingest thread.  main joins that thread before it  *)
(* calls db_writer_stop, so no push overlaps the stop.                     *)
Ingest(k) ==
  /\ stopper = "none"
  /\ pushed < MaxEvents /\ Len(queue) < Capacity
  /\ pushed' = pushed + 1
  /\ queue' = Append(queue, [kind |-> k, id |-> pushed + 1])
  /\ UNCHANGED <<closed, running, stopper, pc, filled, batch, due, database,
                 events_total, taken>>

(* A stop that relies on the closed queue to end the loop.                 *)
StopFlag_KeepsRunning ==
  /\ stopper = "none"
  /\ stopper' = "flagged"
  /\ UNCHANGED <<queue, closed, running, pushed, pc, filled, batch, due, database,
                 events_total, taken>>

(* db_writer_stop: running = false; event_queue_close; pthread_join.       *)
StopFlag ==
  /\ stopper = "none"
  /\ stopper' = "flagged" /\ running' = FALSE
  /\ UNCHANGED <<queue, closed, pushed, pc, filled, batch, due, database,
                 events_total, taken>>

StopClose ==
  /\ stopper = "flagged"
  /\ stopper' = "closed" /\ closed' = TRUE
  /\ UNCHANGED <<queue, running, pushed, pc, filled, batch, due, database,
                 events_total, taken>>

(* pthread_join returns; free(writer) discards what is left in the batches. *)
StopJoin ==
  /\ stopper = "closed" /\ pc = "done"
  /\ stopper' = "joined"
  /\ batch' = [k \in Kinds |-> <<>>]
  /\ UNCHANGED <<queue, closed, running, pushed, pc, filled, due,
                 database, events_total, taken>>

(* Time passes; a wall clock set back makes the unsigned difference of     *)
(* should_flush_timer huge, which has the same effect.                     *)
ClockTick ==
  /\ ~due /\ due' = TRUE
  /\ UNCHANGED <<env, pc, filled, batch, database, events_total, taken>>

-----------------------------------------------------------------------------
(* Flushing one batch: the outcomes of flush_pumpfun_batch and             *)
(* flush_raydium_batch, which differ only in the table and the row.        *)

Fault == faults < MaxFaults /\ faults' = faults + 1

(* PQconnectdb succeeds, or the connection there is claims to be fine.     *)
EnsureConnection ==
  /\ conn \in {"null", "ok"}
  /\ db_reconnects' = IF conn = "null" THEN db_reconnects + 1 ELSE db_reconnects

(* A flush that returns false leaves the batch as it is.                   *)
KeepBatch(k) ==
  /\ kept' = IF Len(batch[k]) >= BATCH_SIZE THEN kept \cup {k} ELSE kept
  /\ UNCHANGED batch

(* ensure_connection returns false: connecting failed, or the connection   *)
(* was found broken, which drops it and leaves the retry to the next call. *)
NoConnection(k) ==
  /\ \/ conn = "null" /\ Fault
     \/ conn = "bad" /\ UNCHANGED faults
  /\ conn' = "null"
  /\ KeepBatch(k)
  /\ UNCHANGED <<table, counters, skipped, ambiguous>>

(* malloc of the statement fails: nothing is sent and nothing is counted.  *)
NoStatement(k) ==
  /\ EnsureConnection /\ Fault
  /\ conn' = "ok"
  /\ KeepBatch(k)
  /\ UNCHANGED <<table, events_inserted, db_inserts_success,
                 db_inserts_failed, db_batches, skipped, ambiguous>>

(* Success counted the way failure is, once per batch.                     *)
CountInserted_PerBatch(k) ==
  /\ db_inserts_success' = db_inserts_success + 1
  /\ events_inserted' = [events_inserted EXCEPT ![k] = @ + 1]
  /\ db_batches' = db_batches + 1
  /\ batch' = [batch EXCEPT ![k] = <<>>] /\ kept' = kept \ {k}
  /\ UNCHANGED db_inserts_failed

(* PGRES_COMMAND_OK: the loop over the batch counts every event in it, a   *)
(* row left out included, and the batch is emptied.                        *)
CountInserted(k) ==
  /\ db_inserts_success' = db_inserts_success + Len(batch[k])
  /\ events_inserted' = [events_inserted EXCEPT ![k] = @ + Len(batch[k])]
  /\ db_batches' = db_batches + 1
  /\ batch' = [batch EXCEPT ![k] = <<>>] /\ kept' = kept \ {k}
  /\ UNCHANGED db_inserts_failed

(* A flush that forgets to reset the count.                                *)
InsertAll_KeepsBatch(k) ==
  /\ EnsureConnection
  /\ conn' = "ok"
  /\ table' = [table EXCEPT ![k] = @ \o batch[k]]
  /\ db_inserts_success' = db_inserts_success + Len(batch[k])
  /\ events_inserted' = [events_inserted EXCEPT ![k] = @ + Len(batch[k])]
  /\ db_batches' = db_batches + 1
  /\ UNCHANGED <<batch, db_inserts_failed, faults, kept, skipped, ambiguous>>

(* One multi-row INSERT, atomic in the database.                           *)
InsertAll(k) ==
  /\ EnsureConnection
  /\ conn' = "ok"
  /\ table' = [table EXCEPT ![k] = @ \o batch[k]]
  /\ CountInserted(k)
  /\ UNCHANGED <<faults, skipped, ambiguous>>

(* s without the elements at the positions in drop: the remaining          *)
(* positions, in increasing order.                                         *)
Without(s, drop) ==
  {[i \in DOMAIN pos |-> s[pos[i]]] :
     pos \in {p \in UNION {[1 .. m -> (1 .. Len(s)) \ drop] : m \in 0 .. Len(s)} :
                /\ Range(p) = (1 .. Len(s)) \ drop
                /\ \A i, j \in DOMAIN p : i < j => p[i] < p[j]}}

(* base58_encode fails (its calloc does) for the events at the positions   *)
(* in drop: their rows are left out.  If the first one is, the list of     *)
(* rows starts with a comma and the statement is rejected, see             *)
(* InsertRejected.                                                         *)
InsertSome(k) ==
  /\ EnsureConnection /\ Fault
  /\ conn' = "ok"
  /\ \E drop \in (SUBSET (2 .. Len(batch[k]))) \ {{}} : \E rows \in Without(batch[k], drop) :
       /\ table' = [table EXCEPT ![k] = @ \o rows]
       /\ skipped' = skipped \cup {batch[k][i] : i \in drop}
  /\ CountInserted(k)
  /\ UNCHANGED ambiguous

CountFailed == db_inserts_failed' = db_inserts_failed + 1

(* The server rejects the statement; the connection survives.              *)
InsertRejected(k) ==
  /\ EnsureConnection /\ Fault
  /\ conn' = "ok"
  /\ CountFailed /\ KeepBatch(k)
  /\ UNCHANGED <<table, events_inserted, db_inserts_success, db_batches,
                 skipped, ambiguous>>

(* The connection breaks during PQexec, before or after the server has     *)
(* committed: the writer sees the same failure and keeps the batch.        *)
ConnectionLost(k) ==
  /\ EnsureConnection /\ Fault
  /\ conn' = "bad"
  /\ CountFailed /\ KeepBatch(k)
  /\ \/ UNCHANGED <<table, ambiguous>>
     \/ /\ table' = [table EXCEPT ![k] = @ \o batch[k]]
        /\ ambiguous' = ambiguous + 1
  /\ UNCHANGED <<events_inserted, db_inserts_success, db_batches, skipped>>

(* A flush that throws a batch away when its INSERT fails.                 *)
Flush_DropsOnFailure(k) ==
  \/ batch[k] = <<>> /\ UNCHANGED <<batch, database>>
  \/ /\ batch[k] # <<>>
     /\ EnsureConnection /\ Fault /\ CountFailed
     /\ conn' = "ok" /\ batch' = [batch EXCEPT ![k] = <<>>]
     /\ UNCHANGED <<table, events_inserted, db_inserts_success, db_batches,
                    kept, skipped, ambiguous>>
  \/ batch[k] # <<>> /\ InsertAll(k)

Flush(k) ==
  \/ batch[k] = <<>> /\ UNCHANGED <<batch, database>>
  \/ /\ batch[k] # <<>>
     /\ \/ NoConnection(k) \/ NoStatement(k)
        \/ InsertAll(k) \/ InsertSome(k) \/ InsertRejected(k) \/ ConnectionLost(k)

-----------------------------------------------------------------------------
(* db_writer_main                                                          *)

(* while (writer->running) *)
TestRunning ==
  /\ pc = "test"
  /\ pc' = IF running THEN "pop" ELSE "final_pumpfun"
  /\ UNCHANGED <<env, filled, batch, due, database, events_total, taken>>

(* An empty queue that sends the writer straight back to the loop.         *)
PopNothing_NoTimer ==
  /\ pc = "pop" /\ queue = <<>>
  /\ pc' = "test"
  /\ UNCHANGED <<env, filled, batch, due, database, events_total, taken>>

(* event_queue_pop without blocking returns false, or hands out an event,  *)
(* which is counted and stored behind its batch.                           *)
PopNothing ==
  /\ pc = "pop" /\ queue = <<>>
  /\ pc' = "timer"
  /\ UNCHANGED <<env, filled, batch, due, database, events_total, taken>>

TakeEvent ==
  /\ queue # <<>>
  /\ queue' = Tail(queue)
  /\ events_total' = events_total + 1
  /\ taken' = [taken EXCEPT ![Head(queue).kind] = Append(@, Head(queue))]
  /\ UNCHANGED <<closed, running, stopper, pushed, due, database>>

(* A writer that flushes a batch one event too late.                       *)
PopEvent_LateFlush ==
  LET k == Head(queue).kind IN
  /\ pc = "pop" /\ TakeEvent
  /\ Len(batch[k]) < BATCH_SIZE
  /\ batch' = [batch EXCEPT ![k] = Append(@, Head(queue))]
  /\ IF Len(batch[k]) + 1 > BATCH_SIZE
     THEN pc' = "full" /\ filled' = k
     ELSE pc' = "timer" /\ UNCHANGED filled

PopEvent ==
  LET k == Head(queue).kind IN
  /\ pc = "pop" /\ TakeEvent
  /\ Len(batch[k]) < BATCH_SIZE
  /\ batch' = [batch EXCEPT ![k] = Append(@, Head(queue))]
  /\ IF Len(batch[k]) + 1 >= BATCH_SIZE
     THEN pc' = "full" /\ filled' = k
     ELSE pc' = "timer" /\ UNCHANGED filled

(* The same store when an earlier flush of the full batch has failed.      *)
PopOverrun ==
  LET k == Head(queue).kind IN
  /\ pc = "pop" /\ TakeEvent
  /\ Len(batch[k]) = BATCH_SIZE
  /\ batch' = [batch EXCEPT ![k] = Append(@, Head(queue))]
  /\ pc' = "overrun"
  /\ UNCHANGED filled

FlushFull ==
  /\ pc = "full" /\ Flush(filled)
  /\ pc' = "timer"
  /\ UNCHANGED <<env, filled, due, events_total, taken>>

(* should_flush_timer *)
TestTimer ==
  /\ pc = "timer"
  /\ pc' = IF due THEN "all_pumpfun" ELSE "test"
  /\ UNCHANGED <<env, filled, batch, due, database, events_total, taken>>

(* flush_all_batches: last_flush is set whatever came of the flushes.      *)
FlushAllPumpfun ==
  /\ pc = "all_pumpfun" /\ Flush("pumpfun")
  /\ pc' = "all_raydium"
  /\ UNCHANGED <<env, filled, due, events_total, taken>>

FlushAllRaydium ==
  /\ pc = "all_raydium" /\ Flush("raydium")
  /\ pc' = "test" /\ due' = FALSE
  /\ UNCHANGED <<env, filled, events_total, taken>>

(* The flush after the loop, then PQfinish.                                *)
FinalPumpfun ==
  /\ pc = "final_pumpfun" /\ Flush("pumpfun")
  /\ pc' = "final_raydium"
  /\ UNCHANGED <<env, filled, due, events_total, taken>>

FinalRaydium_Skipped ==
  /\ pc = "final_raydium"
  /\ pc' = "finish" /\ due' = FALSE
  /\ UNCHANGED <<env, filled, batch, database, events_total, taken>>

FinalRaydium ==
  /\ pc = "final_raydium" /\ Flush("raydium")
  /\ pc' = "finish" /\ due' = FALSE
  /\ UNCHANGED <<env, filled, events_total, taken>>

Finish ==
  /\ pc = "finish"
  /\ pc' = "done" /\ conn' = "null"
  /\ UNCHANGED <<env, filled, batch, due, table, counters, faults, kept, skipped,
                 ambiguous, events_total, taken>>

WriterStep ==
  \/ TestRunning \/ PopNothing \/ PopEvent \/ PopOverrun \/ FlushFull \/ TestTimer
  \/ FlushAllPumpfun \/ FlushAllRaydium \/ FinalPumpfun \/ FinalRaydium \/ Finish

(* Nothing is left to happen: joined, or past what the model describes.    *)
Ended ==
  /\ stopper = "joined" \/ pc = "overrun"
  /\ UNCHANGED vars

Next ==
  \/ \E k \in Kinds : Ingest(k)
  \/ StopFlag \/ StopClose \/ StopJoin
  \/ ClockTick
  \/ WriterStep
  \/ Ended

(* The kind a flush is due for, at each place that flushes one.            *)
FlushKind ==
  [full |-> filled, all_pumpfun |-> "pumpfun", all_raydium |-> "raydium",
   final_pumpfun |-> "pumpfun", final_raydium |-> "raydium"]

(* The thread is in PQconnectdb or PQexec, which return when the server    *)
(* has answered or the connection has broken, if ever.  A connection that  *)
(* is known to be broken is dropped without a call.                        *)
InCall ==
  /\ pc \in DOMAIN FlushKind /\ batch[FlushKind[pc]] # <<>>
  /\ conn # "bad"

(* The writer thread keeps running except inside such a call, time passes, *)
(* and a db_writer_stop that has begun continues.  Nobody is obliged to    *)
(* send an event, to stop, or to answer a statement.                       *)
Fairness ==
  /\ WF_vars(~InCall /\ WriterStep) /\ WF_vars(ClockTick)
  /\ WF_vars(StopClose) /\ WF_vars(StopJoin)

Spec == Init /\ [][Next]_vars
FairSpec == Spec /\ Fairness

-----------------------------------------------------------------------------
(* Correctness                                                             *)

Overrun == pc = "overrun"

(* The batches exist until db_writer_stop frees the writer.                *)
Allocated == stopper # "joined"

(* Events waiting in the batches, and rows counted under their kind.       *)
Pending == Len(batch["pumpfun"]) + Len(batch["raydium"])
InsertedByKind == events_inserted["pumpfun"] + events_inserted["raydium"]

(* What the counters say (db_writer.c:129-133, 234): every event popped    *)
(* was counted as inserted or is still in a batch, and the counters by     *)
(* kind add up to the counter of all insertions.                           *)
EventsAccounted ==
  /\ Allocated => events_total = db_inserts_success + Pending
  /\ db_inserts_success = InsertedByKind

(* As long as no INSERT failed ambiguously and no row was left out, each   *)
(* table holds exactly the popped events of its kind that are not waiting  *)
(* in the batch, once each and in the order of the queue: failed flushes,  *)
(* retries and reconnections lose, repeat and reorder nothing.             *)
ExactlyOnce ==
  (Allocated /\ ambiguous = 0 /\ skipped = {}) =>
    \A k \in Kinds : taken[k] = table[k] \o batch[k]

(* Whatever fails, a popped event is in its table, waits in its batch, or  *)
(* is one of the rows left out (db_writer.c:86-90); only shutdown drops    *)
(* the batches, see CleanShutdownKeepsAll.                                 *)
NoSilentLoss ==
  Allocated => \A k \in Kinds : \A i \in 1 .. Len(taken[k]) :
    taken[k][i] \in Range(table[k]) \cup Range(batch[k]) \cup skipped

(* A row is repeated only by the retry of an INSERT that was applied and   *)
(* reported as failed, at most once for each of those (db_writer.c:114).   *)
Occurrences(e, s) == Cardinality({i \in DOMAIN s : s[i] = e})

DuplicatesBounded ==
  \A k \in Kinds : \A i \in 1 .. Len(taken[k]) :
    Occurrences(taken[k][i], table[k] \o batch[k]) <= 1 + ambiguous

(* A batch is longer than its array only where a flush of that very batch, *)
(* when it was full, has returned false and no later one has inserted it:  *)
(* no order of pops, timers and stops and no failure of the other table    *)
(* gets there (db_writer.c:238-241, 244-247).                              *)
OverrunNeedsFailedFlush ==
  \A k \in Kinds : Len(batch[k]) > BATCH_SIZE => k \in kept

(* With a healthy database the flush on shutdown (db_writer.c:260) leaves  *)
(* no popped event behind.                                                 *)
CleanShutdownKeepsAll ==
  (pc = "done" /\ faults = 0) => \A k \in Kinds : table[k] = taken[k]

(* Faults being finitely many, the timer and the retries get every event   *)
(* in a batch into its table, unless its row is left out, the writer is    *)
(* stopped meanwhile, or a call of libpq never returns.                    *)
InBatch(n) == \E k \in Kinds : \E i \in 1 .. Len(batch[k]) : batch[k][i].id = n
Stored(n) == \E k \in Kinds : \E i \in 1 .. Len(table[k]) : table[k][i].id = n
LeftOut(n) == \E e \in skipped : e.id = n

PersistedEventually ==
  \A n \in 1 .. MaxEvents :
    InBatch(n) ~> (Stored(n) \/ LeftOut(n) \/ ~running \/ Overrun \/ []InCall)

(* db_writer_stop returns, however full the queue is and whichever calls   *)
(* fail, unless one never returns (db_writer.c:295 has no way out of       *)
(* that): what waits is then the thread, in libpq, and nothing else.       *)
StopCompletes ==
  (stopper = "flagged") ~> (stopper = "joined" \/ Overrun \/ []InCall)

-----------------------------------------------------------------------------
(* What the comments say, and the code does not do                         *)

(* db_writer.c:22 "Max events per batch".                                  *)
BatchWithinBound == \A k \in Kinds : Len(batch[k]) <= BATCH_SIZE

(* db_writer.c:259 "Final flush on shutdown": once the writer has been     *)
(* joined, no accepted event is left in the queue.                         *)
DrainedOnShutdown == stopper = "joined" => queue = <<>>
=============================================================================
