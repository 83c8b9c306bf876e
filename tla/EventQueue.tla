----------------------------- MODULE EventQueue -----------------------------
(***************************************************************************)
(* src/event_queue.c: the bounded ring of events between the ingest thread *)
(* and the database writer, with its mutex, its two condition variables    *)
(* and the metrics it maintains.                                           *)
(*                                                                         *)
(* Everything a call does between taking the mutex and releasing it (or    *)
(* giving it up in pthread_cond_wait) is one step, because no other thread *)
(* reads or writes the structure in between.  A thread is                  *)
(*                                                                         *)
(*   "idle"     outside the queue;                                         *)
(*   "ready"    inside push or pop, about to take the mutex, either        *)
(*              because it has just called or because its wait returned;   *)
(*   "waiting"  asleep in pthread_cond_wait: a producer on not_full, a     *)
(*              consumer on not_empty.                                     *)
(*                                                                         *)
(* pthread_cond_signal wakes one waiter of its choice, if there is one,    *)
(* and a wait may also return spuriously; in both cases the thread must    *)
(* take the mutex again and re-evaluate its loop, and other threads may    *)
(* get the mutex first.                                                    *)
(***************************************************************************)
EXTENDS Integers, Sequences, FiniteSets

CONSTANTS Producers,   \* threads that call event_queue_push
          Consumers,   \* threads that call event_queue_pop
          Events,      \* the values of yurei_event_t the model tells apart
          NoEvent,     \* content of a slot or out parameter never written
          Capacity,    \* queue->capacity
          MaxPushes    \* bound: no new push is called after this many

ASSUME QueueAssumption ==
  /\ Capacity \in Nat \ {0}
  /\ MaxPushes \in Nat
  /\ NoEvent \notin Events
  /\ IsFiniteSet(Producers) /\ IsFiniteSet(Consumers)
  /\ Producers \cap Consumers = {}

VARIABLES buffer, head, tail, size, closed,            \* struct yurei_event_queue
          queue_pushes, queue_pops, queue_high_water,  \* its part of g_metrics
          pc,      \* where each thread is
          event,   \* argument of a producer's push, NoEvent outside it
          block,   \* argument of a consumer's pop, FALSE outside it
          out,     \* out parameter of a consumer's last pop
          result   \* what a thread's last call returned, "none" during a call

ring == <<buffer, head, tail, size>>
metrics == <<queue_pushes, queue_pops, queue_high_water>>
vars == <<ring, closed, metrics, pc, event, block, out, result>>

Threads == Producers \cup Consumers
Slots == 0 .. Capacity - 1

Ready(S) == {t \in S : pc[t] = "ready"}
Waiting(S) == {t \in S : pc[t] = "waiting"}

TypeOK ==
  /\ buffer \in [Slots -> Events \cup {NoEvent}]
  /\ head \in Slots /\ tail \in Slots
  /\ size \in 0 .. Capacity
  /\ closed \in BOOLEAN
  /\ queue_pushes \in Nat /\ queue_pops \in Nat /\ queue_high_water \in Nat
  /\ pc \in [Threads -> {"idle", "ready", "waiting"}]
  /\ event \in [Producers -> Events \cup {NoEvent}]
  /\ \A p \in Producers : pc[p] # "idle" => event[p] \in Events
  /\ block \in [Consumers -> BOOLEAN]
  /\ out \in [Consumers -> Events \cup {NoEvent}]
  /\ result \in [Threads -> {"none", "ok", "refused"}]

-----------------------------------------------------------------------------
(* event_queue_create: calloc'ed structure, so everything starts at zero.  *)
Init ==
  /\ buffer = [i \in Slots |-> NoEvent]
  /\ head = 0 /\ tail = 0 /\ size = 0
  /\ closed = FALSE
  /\ queue_pushes = 0 /\ queue_pops = 0 /\ queue_high_water = 0
  /\ pc = [t \in Threads |-> "idle"]
  /\ event = [p \in Producers |-> NoEvent]
  /\ block = [c \in Consumers |-> FALSE]
  /\ out = [c \in Consumers |-> NoEvent]
  /\ result = [t \in Threads |-> "none"]

(* Mutated forms used to test the properties are named <Definition>_<bug>. *)
NextSlot_NoWrap(i) == i + 1

(* (i + 1) % capacity *)
NextSlot(i) == (i + 1) % Capacity

(* metrics_update_queue_high_water: the compare-exchange loop leaves the   *)
(* larger of the two values; the caller holds the mutex.                   *)
HighWater(sz) ==
  queue_high_water' = IF sz > queue_high_water THEN sz ELSE queue_high_water

(* Thread t returns after signalling the condition the threads of S wait   *)
(* on: pthread_cond_signal, pthread_mutex_unlock, return.                  *)
SignalAndReturn(t, S) ==
  \/ /\ Waiting(S) = {}
     /\ pc' = [pc EXCEPT ![t] = "idle"]
  \/ \E u \in Waiting(S) : pc' = [pc EXCEPT ![t] = "idle", ![u] = "ready"]

Return(t) == pc' = [pc EXCEPT ![t] = "idle"]
Wait(t) == pc' = [pc EXCEPT ![t] = "waiting"]
Returns(t, r) == result' = [result EXCEPT ![t] = r]

(* A returning call's argument is gone.                                    *)
DropEvent(p) == event' = [event EXCEPT ![p] = NoEvent]
DropBlock(c) == block' = [block EXCEPT ![c] = FALSE]

-----------------------------------------------------------------------------
(* event_queue_push *)

CallPush(p, e) ==
  /\ pc[p] = "idle"
  /\ queue_pushes < MaxPushes
  /\ pc' = [pc EXCEPT ![p] = "ready"]
  /\ event' = [event EXCEPT ![p] = e]
  /\ Returns(p, "none")
  /\ UNCHANGED <<ring, closed, metrics, block, out>>

(* while (!closed && size == capacity) pthread_cond_wait(&not_full, ...)   *)
PushWait(p) ==
  /\ pc[p] = "ready"
  /\ ~closed /\ size = Capacity
  /\ Wait(p)
  /\ UNCHANGED <<ring, closed, metrics, event, block, out, result>>

(* if (closed) return false *)
PushRefuse(p) ==
  /\ pc[p] = "ready"
  /\ closed
  /\ Return(p)
  /\ Returns(p, "refused") /\ DropEvent(p)
  /\ UNCHANGED <<ring, closed, metrics, block, out>>

(* A push that signals only when it ends an empty spell.                   *)
PushAccept_SignalOnEmptyOnly(p) ==
  /\ pc[p] = "ready"
  /\ ~closed /\ size # Capacity
  /\ buffer' = [buffer EXCEPT ![tail] = event[p]]
  /\ tail' = NextSlot(tail)
  /\ size' = size + 1
  /\ queue_pushes' = queue_pushes + 1
  /\ HighWater(size + 1)
  /\ IF size = 0 THEN SignalAndReturn(p, Consumers) ELSE Return(p)
  /\ Returns(p, "ok") /\ DropEvent(p)
  /\ UNCHANGED <<head, closed, queue_pops, block, out>>

PushAccept(p) ==
  /\ pc[p] = "ready"
  /\ ~closed /\ size # Capacity
  /\ buffer' = [buffer EXCEPT ![tail] = event[p]]
  /\ tail' = NextSlot(tail)
  /\ size' = size + 1
  /\ queue_pushes' = queue_pushes + 1
  /\ HighWater(size + 1)
  /\ SignalAndReturn(p, Consumers)
  /\ Returns(p, "ok") /\ DropEvent(p)
  /\ UNCHANGED <<head, closed, queue_pops, block, out>>

-----------------------------------------------------------------------------
(* event_queue_pop.  The caller passes a fresh out parameter.              *)

CallPop(c, b) ==
  /\ pc[c] = "idle"
  /\ pc' = [pc EXCEPT ![c] = "ready"]
  /\ block' = [block EXCEPT ![c] = b]
  /\ out' = [out EXCEPT ![c] = NoEvent]
  /\ Returns(c, "none")
  /\ UNCHANGED <<ring, closed, metrics, event>>

(* while (!closed && size == 0) with block set                             *)
PopWait(c) ==
  /\ pc[c] = "ready"
  /\ ~closed /\ size = 0 /\ block[c]
  /\ Wait(c)
  /\ UNCHANGED <<ring, closed, metrics, event, block, out, result>>

(* A pop that gives up as soon as the queue is closed.                     *)
PopRefuse_WhenClosed(c) ==
  /\ pc[c] = "ready"
  /\ closed \/ (size = 0 /\ ~block[c])
  /\ Return(c)
  /\ Returns(c, "refused") /\ DropBlock(c)
  /\ UNCHANGED <<ring, closed, metrics, event, out>>

(* Both "return false": inside the loop without block, and after it when   *)
(* the queue was closed with nothing left.                                 *)
PopRefuse(c) ==
  /\ pc[c] = "ready"
  /\ size = 0 /\ (closed \/ ~block[c])
  /\ Return(c)
  /\ Returns(c, "refused") /\ DropBlock(c)
  /\ UNCHANGED <<ring, closed, metrics, event, out>>

PopAccept(c) ==
  /\ pc[c] = "ready"
  /\ size # 0
  /\ out' = [out EXCEPT ![c] = buffer[head]]
  /\ head' = NextSlot(head)
  /\ size' = size - 1
  /\ queue_pops' = queue_pops + 1
  /\ SignalAndReturn(c, Producers)
  /\ Returns(c, "ok") /\ DropBlock(c)
  /\ UNCHANGED <<buffer, tail, closed, queue_pushes, queue_high_water, event>>

-----------------------------------------------------------------------------
(* A close that wakes only the consumers.                                  *)
Close_NotEmptyOnly ==
  /\ closed' = TRUE
  /\ pc' = [t \in Threads |-> IF t \in Waiting(Consumers) THEN "ready" ELSE pc[t]]
  /\ UNCHANGED <<ring, metrics, event, block, out, result>>

(* event_queue_close, called from outside the two groups of threads: sets  *)
(* closed and broadcasts both conditions.                                  *)
Close ==
  /\ closed' = TRUE
  /\ pc' = [t \in Threads |-> IF t \in Waiting(Threads) THEN "ready" ELSE pc[t]]
  /\ UNCHANGED <<ring, metrics, event, block, out, result>>

(* pthread_cond_wait may return without a signal.                          *)
SpuriousWakeup(t) ==
  /\ pc[t] = "waiting"
  /\ pc' = [pc EXCEPT ![t] = "ready"]
  /\ UNCHANGED <<ring, closed, metrics, event, block, out, result>>

PushStep(p) == PushWait(p) \/ PushRefuse(p) \/ PushAccept(p)
PopStep(c) == PopWait(c) \/ PopRefuse(c) \/ PopAccept(c)

Next ==
  \/ \E p \in Producers : (\E e \in Events : CallPush(p, e)) \/ PushStep(p)
  \/ \E c \in Consumers : (\E b \in BOOLEAN : CallPop(c, b)) \/ PopStep(c)
  \/ \E t \in Threads : SpuriousWakeup(t)
  \/ Close

(* A thread that is ready to take the mutex eventually gets it: no thread  *)
(* holds it across a blocking call.  Nothing obliges a thread to call, a   *)
(* wait to return without a signal, or the owner to close the queue.       *)
Fairness ==
  /\ \A p \in Producers : WF_vars(PushStep(p))
  /\ \A c \in Consumers : WF_vars(PopStep(c))

Spec == Init /\ [][Next]_vars
FairSpec == Spec /\ Fairness

-----------------------------------------------------------------------------
(* Correctness                                                             *)

(* The three ring fields and the two counters tell one story: the slots    *)
(* between head and tail are exactly the size events accepted and not yet  *)
(* taken (event_queue.c:59-61, 85-87), and the high-water mark never       *)
(* trails the occupancy or exceeds the capacity.                           *)
RingConsistent ==
  /\ tail = (head + size) % Capacity
  /\ queue_pushes = queue_pops + size
  /\ size <= queue_high_water /\ queue_high_water <= Capacity

(* No wakeup is lost (event_queue.c:67, 92): while a producer sleeps, the  *)
(* free slots are all spoken for by producers that are already awake and   *)
(* will look again; while a consumer sleeps, so is every queued event.     *)
ProducersAwake ==
  Waiting(Producers) # {} => size + Cardinality(Ready(Producers)) >= Capacity

ConsumersAwake ==
  Waiting(Consumers) # {} => Cardinality(Ready(Consumers)) >= size

NoLostWakeup == ProducersAwake /\ ConsumersAwake

(* Nobody sleeps in a closed queue (event_queue.c:97-102): the broadcasts  *)
(* release the threads that waited before, and the wait loops admit no     *)
(* later one.                                                              *)
NoSleeperAfterClose == closed => Waiting(Threads) = {}

(* Once the queue is closed every call that is inside it returns.          *)
CallsReturnAfterClose ==
  \A t \in Threads : (closed /\ pc[t] # "idle") ~> (pc[t] = "idle")

(* The ring implements the bounded first-in first-out queue its callers    *)
(* rely on, under this mapping: its content is read from head onwards, and *)
(* a call is pending until the thread is outside the queue again.          *)
Contents == [i \in 1 .. size |-> buffer[(head + i - 1) % Capacity]]

CallStatus == [t \in Threads |-> IF pc[t] = "idle" THEN result[t] ELSE "pending"]

Fifo == INSTANCE BoundedFifo WITH items <- Contents, status <- CallStatus

ImplementsFifo == Fifo!Spec
=============================================================================
