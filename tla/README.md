# A TLA+ model of yurei-geyser-client

This directory holds a formal model of the client: modules that describe its
threads and its pure parts, TLC configurations that check them on small instances, and proofs,
checked by TLAPS, of the properties that matter most. Paths below are relative
to the root of the repository; `event_queue.c:53` means line 53 of
`src/event_queue.c`.

## The system

One process with three threads and one shared queue.

```
 Geyser server --gRPC--> ingest thread --push--> event queue --pop--> writer thread --libpq--> PostgreSQL
                         geyser_client.c         event_queue.c        db_writer.c
                                \____________ main.c: start, signal, stop ____________/
```

| Component | State it keeps | Operations | Interacts through |
|---|---|---|---|
| Event queue (`event_queue.c`) | ring, head, tail, size, closed; mutex, `not_empty`, `not_full` | create, push (waits for room), pop (blocking or not), close, destroy | calls of both threads; `g_metrics` |
| Database writer (`db_writer.c`) | connection, one batch per table, `last_flush`, `running` | the thread's loop, flush of a batch, timed flush, final flush, start, stop | pops the queue; libpq; closes the queue when stopped |
| Geyser client (`geyser_client.c`) | gRPC call, completion queue and a cache of four completions, backoff, `from_slot_set`, `running` | subscribe, wait for a tag, receive, handle, collect the status, tear down, sleep, start, stop | gRPC completions; pushes the queue |
| Process (`main.c`) | `g_stop`, the handles | start in order, undo on failure, wait for a signal, stop in order | starts and joins both threads, frees the queue |
| Metrics (`metrics.c`, `metrics.h`) | atomic counters | increments, high-water mark, snapshot, summary | queue and writer increment, main reads and prints |
| Configuration (`yurei_config.c`) | program ids, replay slot, capacity, texts | load from the environment | read once by main, copied by the client |
| Protobuf bindings (`src/proto`) | constant descriptor tables | pack a request, unpack and free an update | libprotobuf-c walks the tables |
| Protocol detector (`protocol_detector.c`) | two program ids | match the accounts of a transaction, search a buffer | called while a transaction is handled |
| Base58, Base64, parsers | none | encode, decode, check a layout | called by configuration, request, handler and row |
| Log, schema, scripts | output, deployment | | |

What is hard in it:

- *concurrency*: the two condition variables of the queue, one signal per
  operation, spurious wakeups, close against sleeping threads;
- *failure*: every way in which a flush can fail, among them the failure that is
  reported although the server has committed, and the retries that follow;
- *ordering*: gRPC completions arrive in any order and are matched by tag; start
  and stop must respect who still uses the queue;
- *waiting*: most waits have no deadline (a full queue, a completion, a join);
- *limits*: fixed buffers whose sizes must agree across modules (the text of a
  signature, the bytes of a swap, the accounts of a transaction), size estimates
  in the codecs, values that are zero and must be sent all the same.

What makes each part correct: the queue is a bounded FIFO that loses no wakeup
and lets everybody go when closed; the writer gets each popped event into its
table once and in order, and its counters say so; the client never waits for
what cannot come, leaves nothing outstanding, backs off as it should and retries;
the process frees nothing that is in use and ends when it is told to, and its
last summary says what became of every event; the server is asked for what the
environment names; an update leads to the event it contains, or to none, and to
no access through a missing part; the codecs compute what they are named for.
`PROJECT.json` lists under "hazards" where each of these could go wrong, by line.

## Modules

| Module | Models | Uses |
|---|---|---|
| `BoundedFifo` | what `event_queue.h` promises: the abstract queue | |
| `EventQueue` | `event_queue.c`, the queue's part of `metrics.h` | refines `BoundedFifo` |
| `DbWriter` | `db_writer.c`, its counters | the queue as a bounded sequence |
| `GeyserClient` | `geyser_client.c`; gRPC and the server as environment | |
| `Pipeline` | `main.c`, the threads' use of the queue, the summaries of `metrics.c` | `BoundedFifo` by INSTANCE |
| `Protobuf` | what a descriptor is and what libprotobuf-c does with it (external) | |
| `GeyserBindings`, `StorageBindings` | the generated tables of `geyser.pb-c.c`, `solana-storage.pb-c.c` and `timestamp.pb-c.c` | `Protobuf` |
| `Bindings` | the walk through the tables: unpack and pack by paths | both of them |
| `Base58`, `Base64`, `Detector`, `Parsers` | `base58.c`, `base64.c`, `protocol_detector.c`, the two parsers | |
| `Config` | `yurei_config.c` | `Base58` |
| `Codecs` | the pure parts against reference definitions | the modules above |
| `Ingest` | from the environment to the request, from an update to an event: `geyser_client.c:129-294, 392-418` | the modules above |
| `EventQueueProofs`, `DbWriterProofs`, `DbWriterFaultProofs`, `GeyserClientProofs`, `PipelineProofs` | theorems about the threads | extend the module they are about |
| `OperatorProofs` | lemmas about the loops, the codecs, the search, the parsers and the tables | the pure modules |
| `CodecsProofs`, `IngestProofs` | theorems about the pure parts and the handler | `Codecs`, `Ingest`; `OperatorProofs` |
| `MC*` | the instances TLC checks | |

Definitions with an underscore followed by a description, such as
`Close_NotEmptyOnly`, are mutated forms: the model with that definition in place
of the original violates the property it is paired with in `PROJECT.json`. They
show that each property depends on the code it is about. They are part of no
specification.

### EventQueue

The variables are the fields of `struct yurei_event_queue`, the queue's
counters, and for each thread where it is and with which arguments. What a call
does between taking the mutex and releasing it (or giving it up in
`pthread_cond_wait`) is one step. `PushWait`, `PushRefuse` and `PushAccept` are
the three ways through `event_queue_push`; `PopWait`, `PopRefuse` and
`PopAccept` those through `event_queue_pop`. A signal makes one waiter of its
choice "ready"; a ready thread has yet to take the mutex and to evaluate its
loop again, and others may be faster. The module allows any number of producers
and consumers, as the header does; the program uses one of each.

`Contents` reads the ring from head; with it, and with a call counted as pending
while its thread is inside, the ring implements `BoundedFifo`.

### DbWriter

`pc` follows `db_writer_main`. One flush is one step with an explicit outcome:
no connection, no memory for the statement, all rows inserted, some rows left
out because their encoding failed, statement rejected, connection lost before or
after the server committed. The two flush functions differ only in table and
row, so `Flush(k)` stands for both. The clock is reduced to `due`, which may
become true at any time. The calls to libpq have no timeout, so a flush is also a
step that may never come: no fairness covers the states of `InCall`. `taken`,
`skipped`, `ambiguous` and `kept` (the kinds whose full batch a flush has failed to
empty) are history variables for the properties; nothing reads them. A store behind the end of a
batch array is undefined in C: the model enters "overrun" and stops there.

The event type `default` branch of the switch is not modelled: no component
makes an event of another type.

### GeyserClient

`tpc` follows `geyser_thread` and `run_subscription`. `pending`, `cq` and
`cache` are where an operation's completion is: not there yet, in gRPC's
completion queue, or put aside by `cq_wait_for_tag`. gRPC is external and
modelled from its use: an operation completes once, the completion queue hands
out what it has in any order, the status completes only after the call has
ended, a receive may still deliver a message then, a handshake fails only on an
ended call, and the queue reports shutdown only when nothing is outstanding.
The start of each batch may fail. For the status batch (tag 2) the code ignores
that (`geyser_client.c:380`): `status_started` remembers it, and a thread that
goes on to wait for the status is in `AwaitsNoStatus` for ever (`Stranded`).
`answers` and `told` are history variables: the operations that have been
delivered with success in this call, and whether a call the server had accepted
has been answered with a refusal of the replay. They are set from what gRPC
delivered, not from what the thread has read. `room` is what the thread sees of the
queue: a push waits while there is none.
What `handle_transaction` makes of an update is here a choice between nothing and
one event; `Ingest` has the rest and shows that these are the possible outcomes.

### Pipeline

`mpc` follows `main` with its three failure exits; the client and the writer are
reduced to what they do to the queue, to their flags and to each other. The
queue is `BoundedFifo`, which `EventQueue` has been proved to implement. A flush
may never return (`InDatabase`) and the status batch may not start
(`status_started`), as in the modules of the two threads.

`g_metrics` has the three counters that tell the way of an event: `queue_pushes`
and `queue_pops`, incremented under the queue's lock and hence with the push and
the pop, and `events_total`, incremented by the writer in a step of its own.
`metrics_log_summary` copies `events_total` first (in `metrics_snapshot`) and then
the other two as arguments of one call, in an order C leaves open. A summary is
made from time to time in the loop of `main` and once after everything has been
joined and freed. A sleep of the loop that ends without a summary is a stuttering
step.

### Protobuf, GeyserBindings, StorageBindings, Bindings

A descriptor is its table of fields (name, number, label, type) and its number
ranges, under the name the generated code gives it; all 49 messages that a
request or an update can contain are there. `Lookup` is the binary search of
libprotobuf-c over the ranges. A message is abstracted to what is present at
which path: a path of field numbers on the wire, a path of member names in the C
structs. `Unpacked` and `Packed` lead from one to the other through the tables,
so that a wrong number, range or type in a table changes what the handler sees.
Names in the models of the client are those of the C members, numbers appear
only in the references they are compared with.

### Base58, Base64, Detector, Parsers, Config

Bytes are numbers below 256. A character of a codec is its index in the alphabet,
or a larger number for a character outside it. The codecs compute digit by digit
as the C loops do, with their scratch arrays, carries and bit buffer, on the real
bases; what is carried out of a scratch array is lost, as in the code. The two
parsers test nothing but lengths, so their input is a length (and the flag byte
of a swap), and what they extract is identified with the line it comes from. The
block of `fast_memmem` is a parameter: 32 (AVX2), 16 (SSE2) or 1.
`Config` has the settings that anything depends on. A variable that is empty
counts as not set, as in the code. `base58_encode` and `base58_decode` have their
`calloc` as a parameter: whether there is memory is chosen by whoever calls them.

### Ingest

`pc` follows a start of the process and then the receive loop: load the
configuration, build and send the request, receive, unpack, handle, scan the
lines, dispatch, free. Memory for a Base58 text may be lacking at each use: the load
then fails, a filter is left out of the request, a signature stays empty. History
variables are `derefs` (the structs whose members have been read), `encoded` (the
programs there was memory to encode), `refused` (a status has refused the slot) and
`starved` (there was no memory for the signature). An update on the wire is a sequence of fields with number, wire
type and body; of the members of the oneof the last one stays, a wrong wire type
fails the whole, an unknown number is skipped. A log line is its prefix, the length
of the text behind it, the paddings among its last two characters, the number of
characters that are none of Base64, and the flag byte; any such text may come, a
multiple of four or not. `base64_decode` compares an estimate from length and
paddings with the buffer and writes a byte for every eight bits it meets, so the two
are separate here (`decoded_size`, `BytesWritten`). A byte written behind
`decode_buf` is undefined behaviour: the thread goes on as if nothing had happened,
or is in "overrun", of which nothing more is said. Reconnections occur between two
updates, with or without a refusal of `from_slot`.

The reference `MayPush` is by the numbers of the `.proto` files, and shares neither
limits nor loops with the handler: the program is that of the first matching key
among all of them, an event needs the bytes of its layout, a well-formed line that
fits must not be passed over, and a signature is right when it decodes to the one
that was sent.

### Codecs

A state is an input of one of the pure operators, grown by one element per step,
and each invariant compares the operator with a definition that does not share
its algorithm: positional value for Base58, groups of four characters for
Base64, all occurrences and those at a block start for the search, the sum of the widths for the
swap, the plain list of fields for the lookup. The search is claimed to be sound: what
it reports is an occurrence, none later than the first at a block start, which in
the scalar form is the first there is. That the vector forms find every occurrence
is not claimed, since they do not: `VectorSearchMisses` in `MCCodecs` is an
assumption TLC evaluates, with an id the scalar form finds and the others miss.

## Runs

| Run | Bounds | Distinct states | Shows |
|---|---|---|---|
| `queue` | 2 producers, 2 consumers, capacity 2, 2 event values, at most 4 accepted pushes before the last call | 68,199 | the ring is consistent, no wakeup is lost, close releases everyone, calls return after close, the ring implements the FIFO |
| `writer` | capacity 2, batch 2, 3 events of either kind, 2 faults | 178,160 | accounting, exactly-once without ambiguity, no silent loss, bounded duplicates, an overrun only of a batch whose flush failed when it was full, clean shutdown; every popped event gets into its table or is a row left out, and stop returns, unless a call to libpq never does |
| `client` | cache 4, backoff limit 32 (both as in the code), 2 messages per call, any number of calls | 34,785 | one completion per tag, no wait for what cannot come but in the one case of a status batch that did not start, nothing outlives the call, a delivered refusal is honoured, backoff matches the failures; but for that case and for a push that never gets room, an ended call is retried and stop returns once the call has ended |
| `pipeline` | capacity 2, 4 events | 162,912 | the queue outlives the threads on all paths, no push is refused, every summary is consistent and the last one exact; shutdown completes once the call has ended unless the status batch did not start or the database never answers, and a waiting push gets room unless the database never answers |
| `codecs` | up to 3 bytes out of 5 values, also repeated to 32 and 64 bytes; up to 8 characters out of 4; haystacks of up to 9 over 2 letters with every needle of 4; all lengths up to 640; every path of numbers up to 18 | 90,666 | Base58 keeps the number and the leading zeros and comes back at full length; Base64 gives the bytes of its groups and at most the paddings more; what the search reports is an occurrence, and not a later one than at a block start; which lengths the swap parser accepts; the tables are consistent |
| `ingest` | 9 environments, about 1,500 updates, 2 accounts looked at, up to 3 sent | 134,887 | capacity at least 1024, no NULL dereference, the request says what the environment says, the event is one the reference allows, a store behind a decode buffer is one byte and in one case only |
| `writer_overrun` | 1 fault | violation | finding 1 |
| `writer_drain` | no fault | violation | finding 2 |
| `pipeline_blocks` | as `pipeline` | violation | finding 3 |
| `pipeline_signal` | as `pipeline`, with `HelpfulSpec` | violation | finding 4 |
| `ingest_raydium` | as `ingest` | violation | finding 5 |
| `ingest_signature` | as `ingest` | violation | finding 6 |

Why the bounds are enough for the interesting cases: capacity 2 with 4 pushes
wraps the ring twice and lets both producers sleep; two threads of a kind are
the least with which a wakeup can go to the wrong one or be overtaken; batch 2
with 3 events fills a batch, fails its flush and brings one more event; two
faults allow a failure during the retry of a failure. The bytes of `codecs` are
the edges of a byte and of a digit, and 64 bytes of 255 make the longest text a
signature can have; a needle of 4 with blocks of 4, 2 and 1 has the proportions
of 32 with 32, 16 and 1; 640 is beyond the longest swap. `ingest` has texts on
both sides of every size that matters (249 and 250 bytes, 512 and 513, 577, 609, 768
and 769), texts one short of a group of four (683 and 1027 characters), texts with
characters that are skipped, and one account more than are looked at; 256 is
replaced by 2. Most safety
properties do not depend on the bounds: they are proved, see below.

### Fairness

Each assumption is one on the scheduler, on the clock or on gRPC, never on a peer:
the server need not send or end anything, the database need not answer, and no
component is assumed to make room for another.

- `EventQueue`: a thread that is ready to take the mutex gets it; no thread
  holds it across a blocking call. Nobody is obliged to call, to close the
  queue, or to wake up without a signal.
- `DbWriter`: the writer thread runs outside its calls to libpq
  (`WF(~InCall /\ WriterStep)`), time passes, a `db_writer_stop` that has begun goes
  on. A call that never returns is the case `[]InCall` of `PersistedEventually` and
  `StopCompletes`. That flushes succeed in the end is no fairness either: faults are
  finitely many (`MaxFaults`), and without a fault a flush that returns succeeds.
- `GeyserClient`: the thread runs, gRPC completes the operations of an ended
  call, main joins. The server owes nothing, so the liveness properties start from
  a call that has ended; a status batch that did not start (`AwaitsNoStatus`) and a
  queue in which nobody makes room (`[]PushBlocked`) are stated as exceptions.
- `Pipeline`: the three threads run, the writer outside the database
  (`WF(~InDatabase /\ WriterStep)`). Server and database owe nothing; the exceptions
  are an open call, `AwaitsNoStatus` and `[]InDatabase`. `HelpfulSpec` adds a database
  that answers and a status batch that starts: with it `pipeline_signal` shows that
  an open and silent call is enough by itself to keep the process from ending.
- `Ingest` and `Codecs` have no fairness and no liveness property.

### Findings

1. *A failed flush of a full batch is followed by a store outside the array*
   (`db_writer.c:238`, `244`; the comment on line 22 says "Max events per
   batch"). The count is tested after the store, and a failed flush keeps it at
   `BATCH_SIZE`. `OverrunNeedsFailedFlush` shows that this is the only way to it.
2. *Events still queued at shutdown are dropped without a trace*
   (`db_writer.c:221`, `259-260`, `293`).
3. *Ingest blocks on a full queue* (`event_queue.c:52-53`), where `README.md`
   says "without blocking the ingest path".
4. *A signal need not end the process* (`geyser_client.c:493-494`): the thread
   waits for completions without a deadline and nobody cancels the call. An open
   call is not the only thing that can hold up the end: a status batch that did not
   start (`geyser_client.c:380`, `421`) and a call to libpq that never returns do so
   as well. `ShutdownCompletes` shows that there is nothing besides these three.
5. *No Raydium swap is ever dispatched* (`geyser_client.c:183`). A complete swap
   has 577 or 609 bytes (`SwapLengthExact`); the buffer it is decoded into has
   512, and `base64_decode` refuses what does not fit. The two conditions
   exclude each other, so the table `raydium_swaps` stays empty.
6. *Most signatures are stored as empty texts* (`yurei_event.h:12`): 88 characters
   and a terminator do not fit 88 bytes, `base58_encode` fails, and the handler
   goes on with an empty signature. Every 64-byte signature from 58^87 on, about
   four in five, has 88 characters.

7. *`base64_decode` can store one byte more than its caller has room for*
   (`base64.c:38`). The size it compares with the capacity has the paddings taken
   off, but the loop stores a byte for them all the same. A Raydium line of 684
   characters with a padding at the end is taken for 512 (or 511) bytes and 513 are
   stored in `decode_buf[512]` (`geyser_client.c:183`). The run `ingest` reaches this
   state ("overrun"); `OverrunByOne` says that there is no other such case. The 768
   bytes of `process_pumpfun` are a multiple of three and are never left.
8. *The vector forms of `fast_memmem` miss most occurrences* (`protocol_detector.c:20-48`),
   where `README.md` says that the detector "locates program ids inside account-key
   payloads and log blobs" (135) and falls back to a scalar search (8, 151). They
   advance by blocks and look only at offsets at which a block of the haystack and
   the first block of the needle agree. `VectorSearchMisses` has an instance. The
   client calls only `protocol_detector_match_accounts`, which compares whole keys,
   so that no event is missed by it.

## Proofs

All proofs hold for every value of the constants that satisfies the named
assumption of the module, and TLC evaluates the assumptions on its instances:

- `QueueAssumption`: a positive capacity (`yurei_config_load` makes it at least
  1024), finite and disjoint sets of threads, `NoEvent` is no event;
- `WriterAssumption`: positive capacity and batch size;
- `ClientAssumption`: a cache that is not empty, as `CQ_CACHE_MAX_EVENTS` is, and a
  backoff limit;
- `CodecsAssumption`: bytes are bytes, numbers are numbers, and a needle is a
  multiple of four bytes, up to 32;
- `IngestAssumption`: what can arrive at all. The texts of the environment are
  texts and its numbers numbers; an update is a sequence of fields whose numbers
  start with one; in a body a field has the message it is in around it, account
  keys and signatures are sequences of bytes, and a line is any text: its paddings
  and its foreign characters are not more than its characters. Nothing is assumed
  about which fields are there, how often, in which order and with which wire
  types, nor about the lengths of lines, keys and signatures.

### The threads

- `EventQueueProofs`. `TypeCorrect` and `RingCorrect` (`[]RingConsistent`) by
  induction: `RingConsistent` is inductive together with the types; the
  arithmetic is in lemmas about `NextSlot` and `%`. `WakeupsKept`
  (`[](NoLostWakeup /\ NoSleeperAfterClose)`): the obvious invariant, "nobody
  sleeps while there is room", is false, since a woken thread may not have run
  yet. The inductive one counts: while a producer sleeps, the free slots are at
  most the ready producers, and likewise for queued events and consumers. The
  lemmas say how one signal, one return and one wait change the cardinality of
  the ready set. `SleepersReleased` is the part about a closed queue by itself.
  `QueueImplementsFifo` (`Spec => ImplementsFifo`): the
  initial states map to initial states; an accepted push appends to `Contents`
  and an accepted pop takes its head, by lemmas on the wrapped index that use
  `RingConsistent`; waits and wakeups map to stuttering.
- `DbWriterProofs`. `TypeCorrect`; `EventsAccountedFor` (`[]EventsAccounted`)
  and `PersistedExactlyOnce` (`[]ExactlyOnce`). One lemma describes what a flush
  may do to batch, table and counters, whatever its outcome; the steps of the
  loop then differ only in where they call it.
- `DbWriterFaultProofs`. `OverrunCause`: a batch that is full outside the flush it
  is due for has been kept by a failed one since it was full (`FullIsKept`), and
  only such a batch is ever stored behind. `NothingLostSilently`: where an event has gone is kept by every
  outcome of a flush. `DuplicatesLimited`: the occurrences of an event in table and
  batch are counted, and only a flush that has been applied and reported as failed
  adds one; the cardinalities are those of `FiniteSetTheorems`. `CleanShutdown`:
  without a fault the last flush leaves the batches empty.
- `GeyserClientProofs`. `CompletionsUnique`, `WaitsAnswerable`, `CallContained`,
  `RefusalRemembered`, `BackoffCorrect`, from one invariant: an operation is in
  one of three places (`OnePlace`), there is nothing of a batch that has not been
  started or has been taken (`TagsInScope`), what is awaited is on its way
  (`AwaitedIsComing`), and flag and backoff follow the history
  (`ReplayRemembered`, `BackoffFollows`). `AwaitedIsComing` is what makes
  `NoWaitForNothing` inductive: it says of each wait in the code which batch was
  started before it, the status batch only if its start succeeded. So the exception
  of `NoWaitForNothing` is exact: where the batch did not start, there is nothing to
  wait for. For `RefusalRemembered`, `AnswersMatch` relates what gRPC has
  delivered to what lies in the completion queue and in the cache, and
  `StatusWasRead` says that a thread which collects the status of an accepted call
  cannot leave without it. A refusal that comes with a failed handshake is not read
  by the code and is asked for again; the theorem does not claim otherwise.
- `PipelineProofs`. `QueueLifetime`, `PushAccepted` and `SummaryCorrect`. The
  invariant says who owns the queue at each point of `main` (`QueueOwned`), which
  threads have been joined (`ThreadsJoined`), and relates counters to contents
  (`EventsAccounted`, `CallsMatch`). For the summaries it says of every copy that
  has been made, and has not yet been used, how it compares with the counters
  that go on (`CopiesOrdered`): this is where the order in which
  `metrics_log_summary` reads them matters.

Of a liveness property the prover can show the safety half: a variant that no
step raises and every step of the thread lowers, so that fairness has only
finitely many steps to bring about, and that nobody undoes the condition the wait
began with.

- `ClosedQueueDrains` (`[][OnlyDrains]_vars`), for `CallsReturnAfterClose`: a closed
  queue accepts nothing, nobody goes back to sleep in it, a call inside it that moves
  at all returns, and a pop fails only when nothing is left. It rests on
  `NoSleeperAfterClose`: a signal in a closed queue is heard by nobody.
- `StopIsBounded` of `DbWriterProofs` (`[][StopWindsDown]_vars`), for `StopCompletes`:
  once `running` is cleared each step lowers `StepsLeft`, and only the highest place
  takes an event. So at most one event leaves the queue after `db_writer_stop`,
  for every capacity, which is the other side of the finding of `writer_drain`.
- `StopIsBounded` of `GeyserClientProofs`, for `StopReturnsAfterEnd`: the thread
  descends to its end, and where it waits, first the outstanding operations and
  then the completions to be read become fewer.
- `PushIsServed` (`[]PushHasConsumer`), for `PushReturns`: while the client is inside
  `event_queue_push`, the writer is in its loop, has not been told to stop, and the
  queue is open, so no order of the threads leaves a push behind. Whether the
  database answers the writer is another matter. `ServesUntilStopped` makes it
  inductive: it says at which points of `main` this is so.
- `ShutdownIsBounded` (`[][ShutdownWindsDown]_vars`), for `ShutdownCompletes`: after the
  signal `main`, and after their flags the two threads, only descend.

That the steps which remain can be taken (ENABLED) and will be (fairness) is left to
the runs.

### The pure parts

The loops are recursive functions on intervals, and what they compute is proved
by induction. The library's induction theorems have an operator parameter, which the
backends cannot instantiate; `OperatorProofs` states induction for the set of the
numbers that have the property instead (`SetInduction`, from the least element of
a set of numbers), and from it that a function is defined by a loop that counts up in steps
(`LoopDefined`) or by a fold (`FoldDefined`).

- `SearchCorrect` (`[]SearchSound`), for haystacks of every length: `ScanBlock`
  says what one block contributes, and the search is the first block that
  contributes something; a block that starts with the needle does.
- `SwapExact` (`[]SwapLengthExact`): a read whose failure is ignored never lets a
  short buffer pass, since the last read is a checked one at the end of the layout.
- `EncodingPositional` (`[]Base58Positional`) and `EncodingInvertible`
  (`[]Base58RoundTrip`), for bytes of every number. `PassValue`: a pass over the
  scratch array gives radix times its number plus the digit, unless that exceeds
  what the array can hold. `Room`: it does not, since 256^8 <= 58^11 and
  58^71 <= 256^52, so that 138/100 and 733/1000 are enough for every length.
  `ConvertValue` goes over the digits, and `NumeralUnique` says that number and
  leading zeros determine a numeral, which makes the two directions inverses.
- `DecodingCorrect` (`[]Base64Reference`), for texts of every length. `BitsKept`:
  six bits come in with a character that is not skipped and eight go out with a
  byte. So the bits held back say which byte of its group comes next
  (`Position`), and `ByteShifted` that it is made of the last two characters.
- `BindingsCorrect` (`[]BindingsConsistent`), for paths of every depth and
  numbers of every size: `TablesWellFormed` goes through the 49 tables,
  `LookupExact` shows that the binary search is right on every such table, and
  `NumbersOfMembers` follows a path down and back.

`IngestProofs` builds on these. `NullSafe`, `EventsCorrect`, `OverrunBounded` and
`TypeCorrect` rest on the invariant `Inv`: the detector has the programs of the
configuration (`Configured`), the update in hand is what one of the server's was
unpacked into (`Holding`), behind the guards of `handle_transaction` they have all
passed, and none of the lines before the current one parses (`Guarded`).
`UnpackExact` says when unpacking gives a transaction; `TransactionPaths` takes the
eight member paths the handler uses to their field numbers through the tables;
`ReferenceIs` then turns the reference into the terms of the code (`Allowed`). What
it leaves to show is where the two differ: the first key among all is the first
among those looked at, if it is one of them (`FirstHit`); a line that parses gives
the bytes of its layout, and a well-formed one that fits does parse (`ParsedFull`,
`SoundParsed`); the text of a signature decodes to it, or has no room
(`SignatureSigns`, from the round trip of Base58). `OverrunsByOne` is the arithmetic
of estimate and bytes written for every length of a line.

For `RequestCorrect` a second invariant (`Asked`) says that the configuration is
the one loaded from the environment (`LoadedFrom`), the slot given up exactly when a
status has refused it, and that the request in force is the one built from it, with
the memory there was; `PackedAt` and `RequestPaths` give its fields. That the program
ids of the environment survive `base58_decode` and `base58_encode` is `IdsRoundTrip`,
and `FilterIsText` that a filter is the text of the environment whenever there is
memory for it.

Some definitions are written as they are for the sake of the proofs: `Occurrences`
counts by `Cardinality`; `ReadAll`, `Lookup`, `MultiplyAdd` and `base64_decode` are
folds over one turn of their loop (`Read`, `Narrow`, `Cell`, `TakeChar`).

### Only model-checked

- Every liveness property: fairness and ENABLED are out of the prover's reach. What
  is proved of them is the safety half described above; of `PersistedEventually` and
  `EndedCallIsRetried` nothing is.
- That every action happens on the instances, and the violations the runs of the
  findings expect: a trace is what shows them.

## Plan

Done: queue, writer, client, process, summaries; configuration, bindings, codecs,
detector, parsers and the way from an update to an event; the theorems above.
Every safety property that a passing run checks is the subject of a theorem, and five
of the seven liveness properties have their safety half proved. Left:

1. The same for `PersistedEventually`, which needs the place of an event in its batch
   in the variant, and for `EndedCallIsRetried`, which needs the messages still in the
   transport.
2. One module in which `EventQueue`, `DbWriter` and `GeyserClient` run together instead
   of the queue `Pipeline` takes from `BoundedFifo`. `DbWriter` pops in one step
   what `BoundedFifo` does in two, so a mapping between them needs a stuttering variable.

## Not modelled

- The text of SQL statements, log lines and metrics summaries: nothing reads
  them back. A row is the event it is made from. Rates, latencies and uptime are
  arithmetic on the copies of a summary.
- The fields a trade or a swap is copied into: both parsers overlay fixed offsets
  and test no content, no discriminator either, so every line that is long
  enough is an event. `pumpfun_parse_log_line` is called by nobody.
- The texts `copy_env` passes on (endpoint, authority, token, database).
- Of the bindings: the messages of the other calls of the service, the name
  indices, and the init, pack and free wrappers nobody calls. libprotobuf-c is
  external: merging of repeated submessages and allocation failures inside it are
  left out.
- Log, schema, scripts, build: no behaviour of their own.
- Compiler effects on the unsynchronised `running` flags: each read is assumed
  to see a write in the end; both loops call opaque functions between reads.
- `event_queue_size` and `event_queue_capacity`: they change nothing and nobody
  calls them.
