---------------------------- MODULE GeyserClient ----------------------------
(***************************************************************************)
(* src/geyser_client.c: the ingest thread.  It subscribes, waits for the   *)
(* completion of each gRPC operation by its tag, receives one message at a *)
(* time, collects the status when the stream ends, tears the call down,    *)
(* sleeps and tries again.                                                 *)
(*                                                                         *)
(* Operations are named by the tags the code gives them: 1 the handshake,  *)
(* 2 the final status, 3 one message.  gRPC itself is external: an         *)
(* operation that has been started completes at some later time, and the   *)
(* completion queue hands completions out in any order.  cq_wait_for_tag   *)
(* waits for one tag and puts the completions of others in a small cache.  *)
(*                                                                         *)
(* tpc follows geyser_thread and run_subscription:                         *)
(*   "loop" -> "subscribe" -> "handshake" -> "recv_test" -> "recv" ->      *)
(*   "handle" -> "recv_test" ... -> "status" -> "cleanup" -> "drain" ->    *)
(*   "returned" -> "sleep" -> "loop" ... "exit" -> "done"                  *)
(***************************************************************************)
EXTENDS Integers, FiniteSets, FiniteSetsExt

CONSTANTS CQ_CACHE_MAX_EVENTS,  \* geyser_client.c:52
          MAX_BACKOFF,          \* 32, geyser_client.c:464
          MaxMessages           \* bound: messages per call

ASSUME ClientAssumption ==
  /\ CQ_CACHE_MAX_EVENTS \in Nat \ {0} /\ MaxMessages \in Nat
  /\ MAX_BACKOFF \in {2^n : n \in 0 .. 5}

Tags == {1, 2, 3}
Completion == [tag : Tags, success : BOOLEAN]
Empty == [tag |-> 0, success |-> FALSE]
Slots == 1 .. CQ_CACHE_MAX_EVENTS

(* What a received update leads to: nothing (it does not unpack, is not a  *)
(* transaction, matches no protocol or carries no parsable log line), or   *)
(* one event for the queue.                                                *)
Updates == {"none", "nothing", "event"}

VARIABLES running,         \* client->running
          from_slot_set,   \* client->config.from_slot_set
          tpc,             \* where the thread is
          backoff,         \* geyser_thread's local
          ok,              \* handshake_ok, then what run_subscription returned
          cache,           \* event_cache
          update,          \* recv_buffer
          stopper,         \* how far geyser_client_stop has come
          call,            \* the call: "none", "open", "ended"
          asked,           \* this call's request carries from_slot
          refused,         \* its status says "from_slot is not supported"
          pending,         \* tags of operations started and not completed
          cq,              \* completions not yet handed out
          messages,        \* messages of this call so far
          status_started,  \* the batch of tag 2 was started
          room,            \* the event queue is not full
          failures,        \* history: failed subscriptions in a row, up to a limit
          answers,         \* history: tags completed with success in this call
          told             \* history: a call the server accepted has been answered
                           \*   with such a status

outside == <<running, stopper, room>>
request == <<asked, status_started>>
stream == <<call, request, refused, messages, answers>>
grpc == <<stream, pending, cq>>
memory == <<from_slot_set, failures, told>>
thread == <<tpc, backoff, ok, cache, update, memory>>
vars == <<outside, grpc, thread>>

(* Failures are counted far enough to see the backoff reach its limit.     *)
FailureLimit == 6

InCall == {"handshake", "recv_test", "recv", "handle", "status", "cleanup"}
TypeOK ==
  /\ running \in BOOLEAN /\ from_slot_set \in BOOLEAN /\ ok \in BOOLEAN
  /\ tpc \in InCall \cup {"loop", "subscribe", "drain", "returned", "sleep", "exit", "done"}
  /\ backoff \in 1 .. MAX_BACKOFF
  /\ cache \in [Slots -> Completion \cup {Empty}]
  /\ update \in Updates
  /\ stopper \in {"none", "flagged", "joined"}
  /\ call \in {"none", "open", "ended"}
  /\ asked \in BOOLEAN /\ refused \in BOOLEAN /\ told \in BOOLEAN /\ room \in BOOLEAN
  /\ pending \subseteq Tags
  /\ cq \subseteq Completion
  /\ messages \in 0 .. MaxMessages
  /\ status_started \in BOOLEAN /\ answers \subseteq Tags
  /\ failures \in 0 .. FailureLimit

(* geyser_client_start, with and without YUREI_RESUME_FROM_SLOT.           *)
Init ==
  /\ running = TRUE /\ stopper = "none" /\ room = TRUE
  /\ from_slot_set \in BOOLEAN
  /\ tpc = "loop" /\ backoff = 1 /\ ok = FALSE
  /\ cache = [i \in Slots |-> Empty] /\ update = "none"
  /\ call = "none" /\ asked = FALSE /\ refused = FALSE
  /\ pending = {} /\ cq = {} /\ messages = 0
  /\ status_started = FALSE /\ answers = {}
  /\ failures = 0 /\ told = FALSE

-----------------------------------------------------------------------------
(* gRPC and the server (external)                                          *)

Complete(t, s) ==
  /\ pending' = pending \ {t}
  /\ cq' = cq \cup {[tag |-> t, success |-> s]}
  /\ answers' = IF s THEN answers \cup {t} ELSE answers

(* The server, the transport or a cancellation ends the call.              *)
CallEnds(why) ==
  /\ call = "open" /\ call' = "ended"
  /\ why => asked
  /\ refused' = why
  /\ UNCHANGED <<outside, request, pending, cq, messages, answers, thread>>

(* The handshake fails only on a call that has ended.                      *)
HandshakeCompletes(s) ==
  /\ 1 \in pending /\ (s \/ call = "ended")
  /\ Complete(1, s)
  /\ UNCHANGED <<outside, call, request, refused, messages, thread>>

StatusCompletes(s) ==
  /\ 2 \in pending /\ call = "ended"
  /\ Complete(2, s)
  /\ UNCHANGED <<outside, call, request, refused, messages, thread>>

(* A message arrives in recv_buffer, also one sent before the call ended.  *)
MessageArrives(u) ==
  /\ 3 \in pending /\ messages < MaxMessages
  /\ messages' = messages + 1
  /\ Complete(3, TRUE)
  /\ update' = u
  /\ UNCHANGED <<outside, call, request, refused, tpc, backoff, ok, cache, memory>>

(* No more messages: failure, or success with recv_buffer left NULL.       *)
StreamEnds(s) ==
  /\ 3 \in pending /\ call = "ended"
  /\ Complete(3, s)
  /\ UNCHANGED <<outside, call, request, refused, messages, thread>>

(* The database writer makes room in the queue.                            *)
QueueDrains ==
  /\ ~room /\ room' = TRUE
  /\ UNCHANGED <<running, stopper, grpc, thread>>

-----------------------------------------------------------------------------
(* The completion cache                                                    *)

Used(i) == cache[i] # Empty
Holds(t) == \E i \in Slots : cache[i].tag = t

(* cq_cache_take of the first entry with tag t.                            *)
CacheTake(t) ==
  cache' = [cache EXCEPT ![Min({i \in Slots : cache[i].tag = t})] = Empty]

(* A cache that keeps nothing.                                             *)
CacheStore_Forgets(ev) == UNCHANGED cache

(* cq_cache_store in the first free entry; with none the event is dropped. *)
CacheStore(ev) ==
  LET free == {i \in Slots : ~Used(i)} IN
  cache' = IF free = {} THEN cache ELSE [cache EXCEPT ![Min(free)] = ev]

(* The completion cq_wait_for_tag(t) returns: from the cache if it is      *)
(* there, otherwise from the completion queue.                             *)
Takes(t, ev) ==
  \/ /\ Holds(t)
     /\ ev = cache[Min({i \in Slots : cache[i].tag = t})]
     /\ CacheTake(t) /\ UNCHANGED cq
  \/ /\ ~Holds(t)
     /\ ev \in cq /\ ev.tag = t
     /\ cq' = cq \ {ev} /\ UNCHANGED cache

WaitingFor == [handshake |-> 1, status |-> 2, recv |-> 3]

(* A wait that caches whatever it is handed.                               *)
PutAside_Everything ==
  \E ev \in cq :
    /\ tpc \in DOMAIN WaitingFor
    /\ ~Holds(WaitingFor[tpc])
    /\ cq' = cq \ {ev} /\ CacheStore(ev)
    /\ UNCHANGED <<outside, stream, pending, tpc, backoff, ok, update, memory>>

(* The loop of cq_wait_for_tag puts a completion of another tag aside.     *)
PutAside ==
  \E ev \in cq :
    /\ tpc \in DOMAIN WaitingFor
    /\ ev.tag # WaitingFor[tpc] /\ ~Holds(WaitingFor[tpc])
    /\ cq' = cq \ {ev} /\ CacheStore(ev)
    /\ UNCHANGED <<outside, stream, pending, tpc, backoff, ok, update, memory>>

-----------------------------------------------------------------------------
(* run_subscription                                                        *)

(* The request cannot be built or the handshake cannot be started.         *)
SubscribeFails ==
  /\ tpc = "subscribe"
  /\ tpc' = "returned" /\ ok' = FALSE
  /\ UNCHANGED <<outside, grpc, backoff, cache, update, memory>>

(* build_subscribe_payload: of the request, whether it asks for a replay.  *)
SubscribePayload == asked' = from_slot_set

(* The handshake has been started; whether the status could be is not      *)
(* looked at (geyser_client.c:380).                                        *)
StartBatches ==
  \/ pending' = {1, 2} /\ status_started' = TRUE
  \/ pending' = {1} /\ status_started' = FALSE

Subscribe ==
  /\ tpc = "subscribe"
  /\ tpc' = "handshake" /\ ok' = FALSE
  /\ cache' = [i \in Slots |-> Empty]
  /\ SubscribePayload
  /\ call' = "open" /\ refused' = FALSE
  /\ StartBatches /\ cq' = {} /\ messages' = 0 /\ answers' = {}
  /\ UNCHANGED <<outside, backoff, update, memory>>

(* The wait for tag 1 returns.                                             *)
Handshake ==
  /\ tpc = "handshake"
  /\ \E ev \in Completion :
       /\ Takes(1, ev)
       /\ ok' = ev.success
       /\ tpc' = IF ev.success THEN "recv_test" ELSE "cleanup"
  /\ UNCHANGED <<outside, stream, pending, backoff, update, memory>>

(* while (client->running), and the start of the next receive.             *)
StartRecv ==
  /\ tpc = "recv_test" /\ running
  /\ tpc' = "recv" /\ update' = "none"
  /\ pending' = pending \cup {3}
  /\ UNCHANGED <<outside, stream, cq, backoff, ok, cache, memory>>

(* Not running, or the receive cannot be started: leave the loop.          *)
LeaveLoop ==
  /\ tpc = "recv_test"
  /\ tpc' = "status"
  /\ UNCHANGED <<outside, grpc, backoff, ok, cache, update, memory>>

(* A receive loop that goes on after a receive has failed.                 *)
Recv_GoesOn ==
  /\ tpc = "recv"
  /\ \E ev \in Completion :
       /\ Takes(3, ev)
       /\ tpc' = IF ev.success /\ update # "none" THEN "handle" ELSE "recv_test"
  /\ UNCHANGED <<outside, stream, pending, backoff, ok, update, memory>>

(* The wait for tag 3 returns.                                             *)
Recv ==
  /\ tpc = "recv"
  /\ \E ev \in Completion :
       /\ Takes(3, ev)
       /\ tpc' = IF ev.success /\ update # "none" THEN "handle" ELSE "status"
  /\ UNCHANGED <<outside, stream, pending, backoff, ok, update, memory>>

(* handle_transaction, down to event_queue_push, which waits for room; no  *)
(* other thread pushes, so only this push can fill the queue.              *)
Handle ==
  /\ tpc = "handle"
  /\ \/ update = "nothing" /\ UNCHANGED room
     \/ update = "event" /\ room /\ room' \in BOOLEAN
  /\ tpc' = "recv_test" /\ update' = "none"
  /\ UNCHANGED <<running, stopper, grpc, backoff, ok, cache, memory>>

(* A status whose details are not looked at.                               *)
Status_IgnoresRefusal ==
  /\ tpc = "status"
  /\ \E ev \in Completion : Takes(2, ev)
  /\ tpc' = "cleanup"
  /\ UNCHANGED <<outside, stream, pending, backoff, ok, update, memory>>

(* The wait for tag 2 returns.                                             *)
Status ==
  /\ tpc = "status"
  /\ \E ev \in Completion :
       /\ Takes(2, ev)
       /\ LET refusal == ev.success /\ from_slot_set /\ refused IN
          /\ from_slot_set' = (from_slot_set /\ ~refusal)
          /\ ok' = (ok /\ ~refusal)
  /\ tpc' = "cleanup"
  /\ UNCHANGED <<outside, stream, pending, backoff, update, failures, told>>

(* grpc_call_unref: the last reference cancels what is outstanding.        *)
Cleanup ==
  /\ tpc = "cleanup"
  /\ tpc' = "drain" /\ call' = "ended"
  /\ UNCHANGED <<outside, request, refused, pending, cq, messages, answers, backoff, ok, cache,
                 update, memory>>

(* destroy_completion_queue: hand out what is left, until the queue        *)
(* reports shutdown, which it does when nothing is outstanding; the locals *)
(* of run_subscription, the cache among them, then go out of scope.  told  *)
(* is what the server and gRPC have said by then, read or not.             *)
DrainOne ==
  /\ tpc = "drain"
  /\ \E ev \in cq : cq' = cq \ {ev}
  /\ UNCHANGED <<outside, stream, pending, thread>>

(* A teardown that does not wait for the shutdown event.                   *)
Drained_NoWait ==
  /\ tpc = "drain"
  /\ tpc' = "returned" /\ call' = "none"
  /\ UNCHANGED <<outside, request, refused, pending, cq, messages, answers, backoff, ok, cache,
                 update, memory>>

Drained ==
  /\ tpc = "drain" /\ cq = {} /\ pending = {}
  /\ tpc' = "returned" /\ call' = "none"
  /\ cache' = [i \in Slots |-> Empty]
  /\ told' = (told \/ (refused /\ {1, 2} \subseteq answers))
  /\ UNCHANGED <<outside, request, refused, pending, cq, messages, answers, backoff, ok, update,
                 from_slot_set, failures>>

-----------------------------------------------------------------------------
(* geyser_thread                                                           *)

TestRunning ==
  /\ tpc = "loop"
  /\ tpc' = IF running THEN "subscribe" ELSE "exit"
  /\ UNCHANGED <<outside, grpc, backoff, ok, cache, update, memory>>

Returned ==
  /\ tpc = "returned"
  /\ tpc' = IF running THEN "sleep" ELSE "exit"
  /\ failures' = IF ok THEN 0 ELSE IF failures < FailureLimit THEN failures + 1 ELSE failures
  /\ UNCHANGED <<outside, grpc, backoff, ok, cache, update, from_slot_set, told>>

(* A backoff without a limit.                                              *)
Sleep_NoLimit ==
  /\ tpc = "sleep"
  /\ tpc' = "loop"
  /\ backoff' = IF ok THEN 1 ELSE 2 * backoff
  /\ UNCHANGED <<outside, grpc, ok, cache, update, memory>>

(* A backoff that is never reset.                                          *)
Sleep_NoReset ==
  /\ tpc = "sleep"
  /\ tpc' = "loop"
  /\ backoff' = IF backoff < MAX_BACKOFF THEN 2 * backoff ELSE backoff
  /\ UNCHANGED <<outside, grpc, ok, cache, update, memory>>

(* sleep(backoff), then double it or, after a good subscription, reset it. *)
Sleep ==
  /\ tpc = "sleep"
  /\ tpc' = "loop"
  /\ backoff' = IF ok THEN 1 ELSE IF backoff < MAX_BACKOFF THEN 2 * backoff ELSE backoff
  /\ UNCHANGED <<outside, grpc, ok, cache, update, memory>>

Exit ==
  /\ tpc = "exit"
  /\ tpc' = "done"
  /\ UNCHANGED <<outside, grpc, backoff, ok, cache, update, memory>>

(* geyser_client_stop: the flag, then pthread_join.                        *)
StopFlag ==
  /\ stopper = "none"
  /\ stopper' = "flagged" /\ running' = FALSE
  /\ UNCHANGED <<room, grpc, thread>>

StopJoin ==
  /\ stopper = "flagged" /\ tpc = "done"
  /\ stopper' = "joined"
  /\ UNCHANGED <<running, room, grpc, thread>>

ThreadStep ==
  \/ TestRunning \/ SubscribeFails \/ Subscribe
  \/ PutAside \/ Handshake \/ StartRecv \/ LeaveLoop \/ Recv \/ Handle \/ Status
  \/ Cleanup \/ DrainOne \/ Drained \/ Returned \/ Sleep \/ Exit

(* What gRPC completes by itself once the call has ended.                  *)
EndedCallCompletes ==
  /\ call = "ended"
  /\ \E s \in BOOLEAN : HandshakeCompletes(s) \/ StatusCompletes(s) \/ StreamEnds(s)

Grpc ==
  \/ \E why \in BOOLEAN : CallEnds(why)
  \/ \E s \in BOOLEAN : HandshakeCompletes(s) \/ StatusCompletes(s) \/ StreamEnds(s)
  \/ \E u \in {"nothing", "event"} : MessageArrives(u)

Joined == stopper = "joined" /\ UNCHANGED vars

(* The wait at geyser_client.c:421 for a status that was never started:    *)
(* not even the end of the call ends it.                                   *)
AwaitsNoStatus == tpc = "status" /\ ~status_started
Stranded == AwaitsNoStatus /\ UNCHANGED vars

Next == ThreadStep \/ Grpc \/ QueueDrains \/ StopFlag \/ StopJoin \/ Joined \/ Stranded

(* The thread keeps running, a stop that has begun continues, and gRPC     *)
(* completes the operations of a call that has ended.  The server owes     *)
(* nothing: it need not answer, send or end the call.  Nor does the        *)
(* writer: it need not make room.                                          *)
Fairness ==
  WF_vars(ThreadStep) /\ WF_vars(EndedCallCompletes) /\ WF_vars(StopJoin)

Spec == Init /\ [][Next]_vars
FairSpec == Spec /\ Fairness

-----------------------------------------------------------------------------
(* Correctness                                                             *)

Cached == {i \in Slots : Used(i)}

(* Each operation has one completion, in one place, and the only one that  *)
(* is ever put aside is the status (geyser_client.c:105-127): the cache of *)
(* four entries cannot overflow.                                           *)
OneCompletionPerTag ==
  /\ \A t \in Tags :
       Cardinality({i \in Slots : cache[i].tag = t}) + Cardinality({e \in cq : e.tag = t})
         + Cardinality(pending \cap {t}) <= 1
  /\ \A i \in Cached : cache[i].tag = 2

(* A wait, all of which have an infinite deadline (geyser_client.c:384,    *)
(* 401, 421), is for a completion that is still to come, has come or is in *)
(* the cache, whatever the order of the completions, with one exception:   *)
(* the status of a call whose batch 2 did not start.                       *)
NoWaitForNothing ==
  tpc \in DOMAIN WaitingFor =>
    LET t == WaitingFor[tpc] IN
    (t \in pending \/ Holds(t) \/ \E e \in cq : e.tag = t) <=> ~AwaitsNoStatus

(* run_subscription returns with nothing outstanding, so that no completion*)
(* can write to its locals afterwards, and a receive is outstanding only   *)
(* while its buffer is in scope (geyser_client.c:393-401, 444-452).        *)
NothingOutlivesTheCall ==
  /\ tpc \in {"returned", "sleep", "loop", "exit", "done"} => pending = {} /\ cq = {}
  /\ 3 \in pending => tpc = "recv"

(* Once the server has accepted a call and ended it with the status        *)
(* "from_slot is not supported", and gRPC has delivered that, no later     *)
(* request carries the slot (geyser_client.c:436-442), in whatever order   *)
(* handshake, messages and status arrived.  A refusal that comes with a    *)
(* failed handshake is not covered: the code does not look for it there.   *)
RefusalHonoured == (told /\ tpc \in InCall \cup {"drain"}) => ~asked

(* Before each attempt the backoff is the one the failures in a row call   *)
(* for: it doubles up to the limit and starts over after a good            *)
(* subscription (geyser_client.c:458-467).                                 *)
BackoffMatchesFailures ==
  tpc = "loop" => backoff = Min({2^failures, MAX_BACKOFF})

(* The thread waits for a full queue that nobody drains any more.          *)
PushBlocked == tpc = "handle" /\ ~room

(* Whatever the completions and their order, a call that has ended is torn *)
(* down and the thread tries again or exits, unless it waits for a status  *)
(* that was never started or for room that is never made.                  *)
EndedCallIsRetried ==
  (call = "ended") ~> (tpc \in {"subscribe", "done"} \/ AwaitsNoStatus \/ []PushBlocked)

(* geyser_client_stop returns once the server has ended the call, with the *)
(* same two exceptions.                                                    *)
StopReturnsAfterEnd ==
  (stopper = "flagged" /\ call # "open")
    ~> (stopper = "joined" \/ call = "open" \/ AwaitsNoStatus \/ []PushBlocked)
=============================================================================
