------------------------- MODULE GeyserClientProofs -------------------------
(***************************************************************************)
(* What GeyserClient promises, proved for every size of the completion     *)
(* cache, every limit of the backoff and every number of messages.  The    *)
(* invariant says where the completion of each started operation is, and   *)
(* which operations can be outstanding at each point of the thread.        *)
(***************************************************************************)
EXTENDS GeyserClient, FiniteSetTheorems, TLAPS

InQueue(t) == \E e \in cq : e.tag = t

(* A tag is outstanding, completed or cached, and only one of these; the   *)
(* cache holds at most one entry, the status.                              *)
OnePlace ==
  /\ \A t \in pending : ~Holds(t) /\ ~InQueue(t)
  /\ \A e \in cq : ~Holds(e.tag)
  /\ \A e, f \in cq : e.tag = f.tag => e = f
  /\ \A i, j \in Slots : Used(i) /\ Used(j) => i = j
  /\ \A i \in Slots : Used(i) => cache[i].tag = 2

(* The handshake is over once its wait has returned, a receive is started  *)
(* and waited for in one place, and between two calls nothing is left.     *)
TagsInScope ==
  /\ tpc # "handshake" => 1 \notin pending /\ ~InQueue(1)
  /\ tpc # "recv" => 3 \notin pending /\ ~InQueue(3)
  /\ tpc \in {"loop", "subscribe", "returned", "sleep", "exit", "done"} => pending = {} /\ cq = {}

(* What the thread waits for, now or at the end of the call, has not been  *)
(* lost; a status that was not started is nowhere.                         *)
AwaitedIsComing ==
  /\ tpc = "handshake" => 1 \in pending \/ InQueue(1)
  /\ tpc = "recv" => 3 \in pending \/ InQueue(3)
  /\ tpc \in InCall \ {"cleanup"} =>
       ((2 \in pending \/ InQueue(2) \/ Holds(2)) <=> status_started)

(* A completion of the handshake or of the status carries what answers     *)
(* remembers of it, and a status is the end of the call.                   *)
AnswersMatch ==
  /\ \A e \in cq : e.tag # 3 => (e.success <=> e.tag \in answers)
  /\ \A i \in Slots : Used(i) => (cache[i].success <=> 2 \in answers)
  /\ \A t \in pending : t # 3 => t \notin answers
  /\ 2 \in answers => call # "open"

(* A call that is being torn down has failed its handshake or has had its  *)
(* status read, and a refusal in it noticed.                               *)
StatusWasRead ==
  tpc \in {"cleanup", "drain"} =>
    \/ 1 \notin answers
    \/ 2 \notin pending /\ (refused /\ 2 \in answers => ~from_slot_set)

(* from_slot_set is cleared with the first refusal and never set again.    *)
ReplayRemembered ==
  /\ told => ~from_slot_set
  /\ (tpc \in InCall \ {"cleanup"} /\ asked) => from_slot_set
  /\ (told /\ tpc \in {"cleanup", "drain"}) => ~asked

Expected(n) == Min({2^n, MAX_BACKOFF})

(* The failure of a subscription is counted before the backoff follows.    *)
BackoffFollows ==
  /\ tpc \notin {"sleep", "exit", "done"} => backoff = Expected(failures)
  /\ tpc = "sleep" =>
       Expected(failures) = IF ok THEN 1
                            ELSE IF backoff < MAX_BACKOFF THEN 2 * backoff ELSE backoff

Places == OnePlace /\ TagsInScope /\ AwaitedIsComing

Inv ==
  /\ TypeOK /\ OnePlace /\ TagsInScope /\ AwaitedIsComing
  /\ AnswersMatch /\ StatusWasRead /\ ReplayRemembered /\ BackoffFollows

-----------------------------------------------------------------------------
(* The cache                                                               *)

(* The first of one.                                                       *)
LEMMA MinSingleton == \A i \in Int : Min({i}) = i
  BY DEF Min

(* The first entry of an empty cache.                                      *)
LEMMA MinSlots == 1 \in Slots /\ Min(Slots) = 1
<1>1. 1 \in Slots /\ \A i \in Slots : i \in Int /\ 1 <= i
  BY ClientAssumption DEF Slots
<1>2. \A x \in Slots : (\A y \in Slots : x <= y) => x = 1
  BY <1>1
<1> QED
  BY <1>1, <1>2 DEF Min

(* Entries are told apart from the empty one by their tag.                 *)
LEMMA EmptyTag ==
  ASSUME TypeOK
  PROVE  /\ \A i \in Slots : Used(i) <=> cache[i].tag # 0
         /\ \A i \in Slots : Used(i) => cache[i] \in Completion
         /\ \A ev \in Completion : ev # Empty /\ ev.tag \in Tags
  BY DEF TypeOK, Used, Empty, Completion, Tags

(* With the status not in it the cache is empty.                           *)
LEMMA NothingCached ==
  ASSUME TypeOK, OnePlace, ~Holds(2)
  PROVE  cache = [i \in Slots |-> Empty] /\ \A t \in Tags : ~Holds(t)
<1>1. \A i \in Slots : ~Used(i)
  BY DEF OnePlace, Holds
<1>2. \A i \in Slots : cache[i] = Empty
  BY <1>1 DEF Used
<1> QED
  BY <1>2 DEF TypeOK, Holds, Empty, Tags

(* cq_wait_for_tag for the handshake or a message never finds it cached.   *)
LEMMA TakesFromQueue ==
  ASSUME TypeOK, OnePlace, NEW t \in {1, 3}, NEW ev, Takes(t, ev)
  PROVE  ev \in cq /\ ev.tag = t /\ cq' = cq \ {ev} /\ UNCHANGED cache
<1>1. ~Holds(t)
  BY EmptyTag DEF Holds, OnePlace
<1> QED
  BY <1>1 DEF Takes

(* The wait for the status empties the cache or takes from the queue.      *)
LEMMA TakesStatus ==
  ASSUME TypeOK, OnePlace, NEW ev, Takes(2, ev)
  PROVE  \/ /\ Holds(2) /\ cache' = [i \in Slots |-> Empty] /\ UNCHANGED cq
            /\ \E i \in Slots : Used(i) /\ ev = cache[i]
         \/ ev \in cq /\ ev.tag = 2 /\ cq' = cq \ {ev} /\ UNCHANGED cache
<1>1. ASSUME Holds(2), CacheTake(2), UNCHANGED cq,
             ev = cache[Min({i \in Slots : cache[i].tag = 2})]
      PROVE  cache' = [i \in Slots |-> Empty] /\ \E i \in Slots : Used(i) /\ ev = cache[i]
  <2>1. PICK i \in Slots : cache[i].tag = 2
    BY <1>1 DEF Holds
  <2>2. \A j \in Slots : j # i => cache[j] = Empty
    BY <2>1, EmptyTag DEF OnePlace, Used
  <2>3. {j \in Slots : cache[j].tag = 2} = {i} /\ i \in Int
    BY <2>1, <2>2 DEF Empty, Slots
  <2>4. cache' = [cache EXCEPT ![i] = Empty]
    BY <1>1, <2>3, MinSingleton DEF CacheTake
  <2>5. Used(i) /\ ev = cache[i]
    BY <1>1, <2>1, <2>3, MinSingleton, EmptyTag
  <2> QED
    BY <2>2, <2>4, <2>5 DEF TypeOK
<1> QED
  BY <1>1 DEF Takes

(* What cq_wait_for_tag puts aside is the status, into an empty cache.     *)
LEMMA PutsAsideStatus ==
  ASSUME TypeOK, OnePlace, TagsInScope, PutAside
  PROVE  \E ev \in cq :
           /\ ev.tag = 2 /\ tpc \in {"handshake", "recv"}
           /\ cq' = cq \ {ev} /\ UNCHANGED <<tpc, pending, request, answers, call>>
           /\ cache = [i \in Slots |-> Empty]
           /\ cache' = [i \in Slots |-> IF i = 1 THEN ev ELSE Empty]
<1>1. PICK ev \in cq :
         /\ tpc \in DOMAIN WaitingFor
         /\ ev.tag # WaitingFor[tpc]
         /\ cq' = cq \ {ev} /\ CacheStore(ev)
         /\ UNCHANGED <<tpc, pending, request, answers, call>>
  BY DEF PutAside, stream
<1>2. /\ tpc \in {"handshake", "status", "recv"}
      /\ tpc = "handshake" => ev.tag # 1
      /\ tpc = "status" => ev.tag # 2
      /\ tpc = "recv" => ev.tag # 3
  BY <1>1 DEF WaitingFor
<1>3. ev \in Completion /\ ev.tag \in {1, 2, 3}
  BY EmptyTag DEF TypeOK, Tags
<1>4. ev.tag = 2 /\ tpc \in {"handshake", "recv"}
  BY <1>2, <1>3 DEF TagsInScope, InQueue
<1>5. cache = [i \in Slots |-> Empty]
  BY <1>4, NothingCached DEF OnePlace
<1>6. {i \in Slots : ~Used(i)} = Slots
  BY <1>5 DEF Used
<1>7. cache' = [cache EXCEPT ![1] = ev]
  BY <1>1, <1>6, MinSlots DEF CacheStore
<1>8. cache' = [i \in Slots |-> IF i = 1 THEN ev ELSE Empty]
  BY <1>5, <1>7
<1> QED
  BY <1>1, <1>4, <1>5, <1>8

-----------------------------------------------------------------------------
(* Where the completions are                                               *)

(* gRPC completes an operation: it moves to the completion queue.          *)
LEMMA CompleteKeepsPlaces ==
  ASSUME TypeOK, Places, NEW t \in pending, NEW s \in BOOLEAN, Complete(t, s),
         UNCHANGED <<tpc, cache, status_started>>
  PROVE  Places'
<1> DEFINE ev == [tag |-> t, success |-> s]
<1>1. ev.tag = t /\ pending' = pending \ {t} /\ cq' = cq \cup {ev}
  BY DEF Complete
<1> HIDE DEF ev
<1> USE DEF Places
<1>2. OnePlace'
  BY <1>1 DEF OnePlace, Holds, InQueue, Used
<1>3. TagsInScope'
  BY <1>1 DEF TagsInScope, InQueue
<1>4. AwaitedIsComing'
  <2>1. \A u : (u \in pending \/ InQueue(u)) <=> (u \in pending' \/ InQueue(u)')
    BY <1>1 DEF InQueue
  <2> QED
    BY <2>1 DEF AwaitedIsComing, Holds
<1> QED
  BY <1>2, <1>3, <1>4

(* A completion taken out of the queue is the only one of its tag.         *)
LEMMA TakenIsGone ==
  ASSUME OnePlace, NEW ev \in cq, cq' = cq \ {ev}, UNCHANGED <<cache, pending>>
  PROVE  OnePlace' /\ ~InQueue(ev.tag)' /\ \A t : t # ev.tag => InQueue(t)' = InQueue(t)
  BY DEF OnePlace, Holds, InQueue, Used

(* The thread moves on and leaves the completions alone.                   *)
LEMMA MoveKeepsPlaces ==
  ASSUME Places, UNCHANGED <<cache, cq, pending, status_started>>,
         \/ UNCHANGED tpc
         \/ tpc = "recv_test" /\ tpc' = "status"
         \/ tpc = "handle" /\ tpc' = "recv_test"
         \/ tpc = "cleanup" /\ tpc' = "drain"
         \/ /\ tpc \in {"loop", "subscribe", "returned", "sleep", "exit", "done"}
            /\ tpc' \in {"loop", "subscribe", "returned", "sleep", "exit", "done"}
  PROVE  Places'
<1>1. OnePlace'
  BY DEF Places, OnePlace, Holds, InQueue, Used
<1>2. TagsInScope'
  BY DEF Places, TagsInScope, InQueue
<1>3. AwaitedIsComing'
  BY DEF Places, AwaitedIsComing, InQueue, Holds, InCall
<1> QED
  BY <1>1, <1>2, <1>3 DEF Places

(* The completions stay in place in every step.                            *)
LEMMA PlacesStep ==
  ASSUME TypeOK, Places, [Next]_vars
  PROVE  Places'
<1> USE DEF Places
<1>1. CASE Grpc
  <2>1. ASSUME NEW why \in BOOLEAN, CallEnds(why) PROVE Places'
    BY <2>1, MoveKeepsPlaces DEF CallEnds, request, thread
  <2>2. ASSUME NEW s \in BOOLEAN, HandshakeCompletes(s) \/ StatusCompletes(s) \/ StreamEnds(s)
        PROVE  Places'
    BY <2>2, CompleteKeepsPlaces DEF HandshakeCompletes, StatusCompletes, StreamEnds, request, thread
  <2>3. ASSUME NEW u, MessageArrives(u) PROVE Places'
    BY <2>3, CompleteKeepsPlaces DEF MessageArrives, request
  <2> QED
    BY <1>1, <2>1, <2>2, <2>3 DEF Grpc
<1>2. CASE QueueDrains \/ StopFlag \/ StopJoin \/ Joined \/ Stranded \/ UNCHANGED vars
  BY <1>2, MoveKeepsPlaces DEF QueueDrains, StopFlag, StopJoin, Joined, Stranded, vars, grpc, stream,
    request, thread
<1>3. CASE SubscribeFails \/ LeaveLoop \/ Handle \/ Cleanup \/ TestRunning \/ Returned \/ Sleep \/ Exit
  <2>1. CASE SubscribeFails \/ LeaveLoop \/ Handle \/ Cleanup
    BY <2>1, MoveKeepsPlaces DEF SubscribeFails, LeaveLoop, Handle, Cleanup, grpc, stream,
      request
  <2>2. CASE TestRunning \/ Returned \/ Sleep \/ Exit
    BY <2>2, MoveKeepsPlaces DEF TestRunning, Returned, Sleep, Exit, grpc, stream, request
  <2> QED
    BY <1>3, <2>1, <2>2
<1>4. CASE Subscribe
  <2>1. /\ tpc' = "handshake" /\ cache' = [i \in Slots |-> Empty]
        /\ pending' = (IF status_started' THEN {1, 2} ELSE {1}) /\ cq' = {}
    BY <1>4 DEF Subscribe, StartBatches
  <2> QED
    BY <2>1 DEF OnePlace, TagsInScope, AwaitedIsComing, Holds, InQueue, Used, Empty
<1>5. CASE PutAside
  <2>1. PICK ev \in cq :
           /\ ev.tag = 2 /\ tpc \in {"handshake", "recv"}
           /\ cq' = cq \ {ev} /\ UNCHANGED <<tpc, pending, request, answers, call>>
           /\ cache = [i \in Slots |-> Empty]
           /\ cache' = [i \in Slots |-> IF i = 1 THEN ev ELSE Empty]
    BY <1>5, PutsAsideStatus
  <2>2. Holds(2)' /\ \A t \in Tags : t # 2 => ~Holds(t)'
    BY <2>1, MinSlots DEF Holds, Empty, Tags
  <2>3. ~InQueue(2)' /\ 2 \notin pending
    BY <2>1 DEF OnePlace, InQueue
  <2>4. \A t : t # 2 => (InQueue(t)' <=> InQueue(t))
    BY <2>1 DEF InQueue
  <2>5. \A e \in cq' : e \in cq /\ e.tag \in Tags /\ e.tag # 2
    BY <2>1, <2>3, EmptyTag DEF TypeOK, InQueue
  <2>6. OnePlace'
    <3>1. \A t \in pending' : ~Holds(t)' /\ ~InQueue(t)'
      BY <2>1, <2>2, <2>3, <2>4 DEF OnePlace, TypeOK, Tags
    <3>2. \A e \in cq' : ~Holds(e.tag)'
      BY <2>2, <2>5
    <3>3. \A e, f \in cq' : e.tag = f.tag => e = f
      BY <2>5 DEF OnePlace
    <3>4. \A i \in Slots : Used(i)' => i = 1
      BY <2>1 DEF Used
    <3>5. \A i \in Slots : Used(i)' => cache'[i].tag = 2
      BY <2>1, <3>4
    <3> QED
      BY <3>1, <3>2, <3>3, <3>4, <3>5 DEF OnePlace
  <2>7. TagsInScope'
    BY <2>1, <2>4 DEF TagsInScope
  <2>8. AwaitedIsComing'
    BY <2>1, <2>2, <2>4 DEF AwaitedIsComing, InQueue, request
  <2> QED
    BY <2>6, <2>7, <2>8
<1>6. CASE Handshake
  <2>1. PICK ev \in Completion : Takes(1, ev) /\ tpc' \in {"recv_test", "cleanup"}
    BY <1>6 DEF Handshake
  <2>2. /\ ev \in cq /\ ev.tag = 1 /\ cq' = cq \ {ev}
        /\ UNCHANGED <<cache, pending, status_started>>
        /\ tpc = "handshake"
    BY <1>6, <2>1, TakesFromQueue DEF Handshake, stream, request
  <2>3. OnePlace' /\ ~InQueue(1)' /\ \A t : t # 1 => InQueue(t)' = InQueue(t)
    BY <2>2, TakenIsGone
  <2>4. 1 \notin pending
    BY <2>2 DEF OnePlace, InQueue
  <2> QED
    BY <2>1, <2>2, <2>3, <2>4 DEF TagsInScope, AwaitedIsComing, InCall, Holds
<1>7. CASE StartRecv
  <2>1. /\ tpc = "recv_test" /\ tpc' = "recv" /\ pending' = pending \cup {3}
        /\ UNCHANGED <<cache, cq, status_started>>
    BY <1>7 DEF StartRecv, stream, request
  <2>2. ~Holds(3) /\ ~InQueue(3)
    BY <2>1, EmptyTag DEF OnePlace, TagsInScope, Holds
  <2> QED
    BY <2>1, <2>2 DEF OnePlace, TagsInScope, AwaitedIsComing, InCall, Holds, InQueue, Used
<1>8. CASE Recv
  <2>1. PICK ev \in Completion : Takes(3, ev) /\ tpc' \in {"handle", "status"}
    BY <1>8 DEF Recv
  <2>2. /\ ev \in cq /\ ev.tag = 3 /\ cq' = cq \ {ev}
        /\ UNCHANGED <<cache, pending, status_started>>
        /\ tpc = "recv"
    BY <1>8, <2>1, TakesFromQueue DEF Recv, stream, request
  <2>3. OnePlace' /\ ~InQueue(3)' /\ \A t : t # 3 => InQueue(t)' = InQueue(t)
    BY <2>2, TakenIsGone
  <2>4. 3 \notin pending
    BY <2>2 DEF OnePlace, InQueue
  <2> QED
    BY <2>1, <2>2, <2>3, <2>4 DEF TagsInScope, AwaitedIsComing, InCall, Holds
<1>9. CASE Status
  <2>1. PICK ev \in Completion : Takes(2, ev)
    BY <1>9 DEF Status
  <2>2. tpc = "status" /\ tpc' = "cleanup" /\ UNCHANGED pending
    BY <1>9 DEF Status
  <2>3. CASE Holds(2) /\ cache' = [i \in Slots |-> Empty] /\ UNCHANGED cq
    BY <2>2, <2>3 DEF OnePlace, TagsInScope, AwaitedIsComing, InCall, Holds, InQueue, Used,
      Empty, TypeOK, Tags, Completion
  <2>4. CASE ev \in cq /\ ev.tag = 2 /\ cq' = cq \ {ev} /\ UNCHANGED cache
    BY <2>2, <2>4, TakenIsGone DEF TagsInScope, AwaitedIsComing, InCall
  <2> QED
    BY <2>1, <2>3, <2>4, TakesStatus
<1>10. CASE DrainOne
  <2>1. PICK ev \in cq : cq' = cq \ {ev}
    BY <1>10 DEF DrainOne
  <2>2. tpc = "drain" /\ UNCHANGED <<tpc, cache, pending>>
    BY <1>10 DEF DrainOne, thread
  <2> QED
    BY <2>1, <2>2, TakenIsGone DEF TagsInScope, AwaitedIsComing, InCall, InQueue
<1>11. CASE Drained
  <2>1. /\ tpc' = "returned" /\ cache' = [i \in Slots |-> Empty]
        /\ pending' = {} /\ cq' = {}
    BY <1>11 DEF Drained
  <2> QED
    BY <2>1 DEF OnePlace, TagsInScope, AwaitedIsComing, InCall, Holds, InQueue, Used
<1> QED
  BY <1>1, <1>2, <1>3, <1>4, <1>5, <1>6, <1>7, <1>8, <1>9, <1>10, <1>11 DEF Next, ThreadStep

-----------------------------------------------------------------------------
(* The refusal                                                             *)

(* Completions that are taken, or whose operations are started, match as   *)
(* before.                                                                 *)
LEMMA FewerMatch ==
  ASSUME AnswersMatch, cq' \subseteq cq, pending' \subseteq pending \cup {3},
         \A i \in Slots : Used(i)' => Used(i) /\ cache'[i] = cache[i],
         answers' = answers, call' = call \/ call' # "open"
  PROVE  AnswersMatch'
  BY DEF AnswersMatch

(* An operation completes with what answers then remembers.                *)
LEMMA CompleteMatches ==
  ASSUME TypeOK, Places, AnswersMatch, NEW t \in pending, NEW s \in BOOLEAN, Complete(t, s),
         UNCHANGED <<cache, call>>, t = 2 => call # "open"
  PROVE  AnswersMatch'
<1> DEFINE ev == [tag |-> t, success |-> s]
<1>1. /\ ev.tag = t /\ ev.success = s /\ pending' = pending \ {t} /\ cq' = cq \cup {ev}
      /\ answers' = IF s THEN answers \cup {t} ELSE answers
  BY DEF Complete
<1> HIDE DEF ev
<1>2. \A u : u # t => (u \in answers' <=> u \in answers)
  BY <1>1
<1>3. \A e \in cq : e.tag # t
  BY DEF Places, OnePlace, InQueue
<1>4. t # 3 => (s <=> t \in answers')
  BY <1>1 DEF AnswersMatch
<1>5. \A e \in cq' : e.tag # 3 => (e.success <=> e.tag \in answers')
  BY <1>1, <1>2, <1>3, <1>4 DEF AnswersMatch
<1>6. \A i \in Slots : Used(i) => t # 2
  BY DEF Places, OnePlace, Holds
<1>7. \A i \in Slots : Used(i)' => (cache'[i].success <=> 2 \in answers')
  BY <1>2, <1>6 DEF AnswersMatch, Used
<1> QED
  BY <1>1, <1>2, <1>5, <1>7 DEF AnswersMatch

(* Completions match in every step.                                        *)
LEMMA AnswersStep ==
  ASSUME TypeOK, Places, AnswersMatch, [Next]_vars
  PROVE  AnswersMatch'
<1>1. CASE Grpc
  <2>1. ASSUME NEW why \in BOOLEAN, CallEnds(why) PROVE AnswersMatch'
    BY <2>1, FewerMatch DEF CallEnds, thread, Used
  <2>2. ASSUME NEW s \in BOOLEAN, HandshakeCompletes(s) \/ StatusCompletes(s) \/ StreamEnds(s)
        PROVE  AnswersMatch'
    BY <2>2, CompleteMatches DEF HandshakeCompletes, StatusCompletes, StreamEnds, thread
  <2>3. ASSUME NEW u, MessageArrives(u) PROVE AnswersMatch'
    <3>1. 3 \in pending /\ Complete(3, TRUE) /\ UNCHANGED <<cache, call>>
      BY <2>3 DEF MessageArrives
    <3>2. \A t \in pending : t = 3 => t # 2
      OBVIOUS
    <3> QED
      BY <3>1, <3>2, CompleteMatches
  <2> QED
    BY <1>1, <2>1, <2>2, <2>3 DEF Grpc
<1>2. CASE QueueDrains \/ StopFlag \/ StopJoin \/ Joined \/ Stranded \/ UNCHANGED vars
  <2>1. UNCHANGED <<cache, cq, pending, answers, call>>
    BY <1>2 DEF QueueDrains, StopFlag, StopJoin, Joined, Stranded, vars, grpc, stream, thread
  <2> QED
    BY <2>1, FewerMatch DEF Used
<1>3. CASE \/ SubscribeFails \/ LeaveLoop \/ Handle \/ Cleanup \/ TestRunning \/ Returned \/ Sleep
           \/ Exit \/ StartRecv \/ DrainOne
  <2>1. /\ UNCHANGED <<cache, answers>> /\ (call' = call \/ call' # "open")
        /\ cq' \subseteq cq /\ pending' \subseteq pending \cup {3}
    BY <1>3 DEF SubscribeFails, LeaveLoop, Handle, Cleanup, TestRunning, Returned, Sleep, Exit,
      StartRecv, DrainOne, grpc, stream, thread
  <2> QED
    BY <2>1, FewerMatch DEF Used
<1>4. CASE Subscribe
  <2>1. /\ cache' = [i \in Slots |-> Empty] /\ cq' = {} /\ answers' = {}
    BY <1>4 DEF Subscribe
  <2> QED
    BY <2>1 DEF AnswersMatch, Used
<1>5. CASE PutAside
  <2>1. PICK ev \in cq :
           /\ ev.tag = 2
           /\ cq' = cq \ {ev} /\ UNCHANGED <<pending, answers, call>>
           /\ cache' = [i \in Slots |-> IF i = 1 THEN ev ELSE Empty]
    BY <1>5, PutsAsideStatus DEF Places
  <2>2. \A i \in Slots : Used(i)' => cache'[i] = ev
    BY <2>1 DEF Used
  <2> QED
    BY <2>1, <2>2 DEF AnswersMatch
<1>6. CASE Handshake \/ Recv
  <2>1. PICK t \in {1, 3}, ev \in Completion : Takes(t, ev)
    BY <1>6 DEF Handshake, Recv
  <2>2. cq' \subseteq cq /\ UNCHANGED cache
    BY <2>1, TakesFromQueue DEF Places
  <2>3. UNCHANGED <<pending, answers, call>>
    BY <1>6 DEF Handshake, Recv, stream
  <2> QED
    BY <2>2, <2>3, FewerMatch DEF Used
<1>7. CASE Status
  <2>1. PICK ev \in Completion : Takes(2, ev)
    BY <1>7 DEF Status
  <2>2. cq' \subseteq cq /\ (UNCHANGED cache \/ cache' = [i \in Slots |-> Empty])
    BY <2>1, TakesStatus DEF Places
  <2>3. UNCHANGED <<pending, answers, call>>
    BY <1>7 DEF Status, stream
  <2>4. \A i \in Slots : Used(i)' => Used(i) /\ cache'[i] = cache[i]
    BY <2>2 DEF Used
  <2> QED
    BY <2>2, <2>3, <2>4, FewerMatch
<1>8. CASE Drained
  <2>1. /\ cache' = [i \in Slots |-> Empty] /\ call' = "none" /\ UNCHANGED <<cq, pending, answers>>
    BY <1>8 DEF Drained
  <2>2. \A i \in Slots : ~Used(i)'
    BY <2>1 DEF Used
  <2> QED
    BY <2>1, <2>2, FewerMatch
<1> QED
  BY <1>1, <1>2, <1>3, <1>4, <1>5, <1>6, <1>7, <1>8 DEF Next, ThreadStep

(* No teardown begins with an unread status, except after a handshake that *)
(* failed, and during it nothing is read any more.                         *)
LEMMA ReadStep ==
  ASSUME TypeOK, Places, AnswersMatch, StatusWasRead, [Next]_vars
  PROVE  StatusWasRead'
<1>1. CASE Grpc
  <2>1. UNCHANGED <<tpc, from_slot_set>>
    BY <1>1 DEF Grpc, CallEnds, HandshakeCompletes, StatusCompletes, StreamEnds, MessageArrives,
      thread, memory
  <2>2. ASSUME NEW why \in BOOLEAN, CallEnds(why) PROVE StatusWasRead'
    BY <2>1, <2>2 DEF CallEnds, StatusWasRead, AnswersMatch
  <2>3. ASSUME NEW t \in pending, NEW s \in BOOLEAN, Complete(t, s), UNCHANGED refused
        PROVE  StatusWasRead'
    BY <2>1, <2>3 DEF Complete, StatusWasRead, Places, TagsInScope
  <2> QED
    BY <1>1, <2>2, <2>3 DEF Grpc, HandshakeCompletes, StatusCompletes, StreamEnds, MessageArrives
<1>2. CASE \/ QueueDrains \/ StopFlag \/ StopJoin \/ Joined \/ Stranded \/ UNCHANGED vars
           \/ DrainOne \/ Cleanup
  <2>1. /\ UNCHANGED <<answers, pending, refused, from_slot_set>>
        /\ tpc' = tpc \/ tpc = "cleanup"
    BY <1>2 DEF QueueDrains, StopFlag, StopJoin, Joined, Stranded, vars, grpc, stream, thread, memory,
      DrainOne, Cleanup
  <2> QED
    BY <2>1 DEF StatusWasRead
<1>3. CASE \/ SubscribeFails \/ LeaveLoop \/ Handle \/ TestRunning \/ Returned \/ Sleep \/ Exit
           \/ Subscribe \/ PutAside \/ StartRecv \/ Recv \/ Drained
  <2>1. tpc' \notin {"cleanup", "drain"}
    BY <1>3 DEF SubscribeFails, LeaveLoop, Handle, TestRunning, Returned, Sleep, Exit, Subscribe,
      PutAside, StartRecv, Recv, Drained, WaitingFor
  <2> QED
    BY <2>1 DEF StatusWasRead
<1>4. CASE Handshake
  <2>1. PICK ev \in Completion :
          Takes(1, ev) /\ tpc' = IF ev.success THEN "recv_test" ELSE "cleanup"
    BY <1>4 DEF Handshake
  <2>2. ev \in cq /\ ev.tag = 1
    BY <2>1, TakesFromQueue DEF Places
  <2>3. ev.success <=> 1 \in answers
    BY <2>2 DEF AnswersMatch
  <2>4. answers' = answers
    BY <1>4 DEF Handshake, stream
  <2> QED
    BY <2>1, <2>3, <2>4 DEF StatusWasRead
<1>5. CASE Status
  <2>1. PICK ev \in Completion :
          /\ Takes(2, ev)
          /\ from_slot_set' = (from_slot_set /\ ~(ev.success /\ from_slot_set /\ refused))
    BY <1>5 DEF Status
  <2>2. (ev.success <=> 2 \in answers) /\ 2 \notin pending
    BY <2>1, TakesStatus DEF Places, AnswersMatch, OnePlace, InQueue
  <2>3. UNCHANGED <<answers, pending, refused>>
    BY <1>5 DEF Status, stream
  <2>4. refused /\ 2 \in answers => ~from_slot_set'
    BY <2>1, <2>2
  <2> QED
    BY <2>2, <2>3, <2>4 DEF StatusWasRead
<1> QED
  BY <1>1, <1>2, <1>3, <1>4, <1>5 DEF Next, ThreadStep

(* Only Subscribe sets asked, only Status clears from_slot_set, and a      *)
(* refusal that counts was read before the call was torn down.             *)
LEMMA ReplayStep ==
  ASSUME TypeOK, StatusWasRead, ReplayRemembered, [Next]_vars
  PROVE  ReplayRemembered'
<1> USE DEF ReplayRemembered
<1>1. CASE Grpc
  <2>1. UNCHANGED <<tpc, told, from_slot_set, asked>>
    BY <1>1 DEF Grpc, CallEnds, HandshakeCompletes, StatusCompletes, StreamEnds, MessageArrives,
      request, thread, memory
  <2> QED
    BY <2>1
<1>2. CASE QueueDrains \/ StopFlag \/ StopJoin \/ Joined \/ Stranded \/ UNCHANGED vars
  BY <1>2 DEF QueueDrains, StopFlag, StopJoin, Joined, Stranded, vars, grpc, stream, request, thread,
    memory
<1>3. CASE SubscribeFails \/ LeaveLoop \/ Handle \/ Cleanup \/ TestRunning \/ Sleep \/ Exit
  BY <1>3 DEF SubscribeFails, LeaveLoop, Handle, Cleanup, TestRunning, Sleep, Exit, InCall,
    grpc, stream, request, memory
<1>4. CASE Returned
  BY <1>4 DEF Returned, InCall
<1>5. CASE Subscribe
  BY <1>5 DEF Subscribe, SubscribePayload, memory
<1>6. CASE PutAside \/ Handshake \/ StartRecv \/ Recv \/ DrainOne
  <2>1. UNCHANGED <<told, from_slot_set, asked>>
    BY <1>6 DEF PutAside, Handshake, StartRecv, Recv, DrainOne, stream, request, memory, thread
  <2>2. /\ tpc' \in InCall \ {"cleanup"} => tpc \in InCall \ {"cleanup"}
        /\ tpc' \in {"cleanup", "drain"} => tpc' = tpc \/ tpc = "handshake"
    BY <1>6 DEF PutAside, Handshake, StartRecv, Recv, DrainOne, thread, InCall
  <2> QED
    BY <2>1, <2>2 DEF InCall
<1>7. CASE Status
  <2>1. PICK ev \in Completion :
          from_slot_set' = (from_slot_set /\ ~(ev.success /\ from_slot_set /\ refused))
    BY <1>7 DEF Status
  <2>2. tpc = "status" /\ tpc' = "cleanup" /\ UNCHANGED <<told, asked>>
    BY <1>7 DEF Status, stream, request
  <2> QED
    BY <2>1, <2>2 DEF InCall
<1>8. CASE Drained
  <2>1. /\ tpc = "drain" /\ pending = {} /\ tpc' = "returned"
        /\ told' = (told \/ (refused /\ {1, 2} \subseteq answers)) /\ UNCHANGED from_slot_set
    BY <1>8 DEF Drained
  <2>2. refused /\ {1, 2} \subseteq answers => ~from_slot_set
    BY <2>1 DEF StatusWasRead
  <2> QED
    BY <2>1, <2>2 DEF InCall
<1> QED
  BY <1>1, <1>2, <1>3, <1>4, <1>5, <1>6, <1>7, <1>8 DEF Next, ThreadStep

-----------------------------------------------------------------------------
(* The backoff                                                             *)

(* The powers of two that matter.                                          *)
LEMMA Powers ==
  /\ 2^0 = 1 /\ 2^1 = 2 /\ 2^2 = 4 /\ 2^3 = 8 /\ 2^4 = 16 /\ 2^5 = 32 /\ 2^6 = 64
  BY SMT

(* The limit is a power of two up to 32.                                   *)
LEMMA LimitIsPower == MAX_BACKOFF \in {1, 2, 4, 8, 16, 32}
<1>1. PICK n \in 0 .. 5 : MAX_BACKOFF = 2^n
  BY ClientAssumption
<1>2. n \in {0, 1, 2, 3, 4, 5}
  BY SMT
<1>3. CASE n = 0
  BY <1>1, <1>3, Powers
<1>4. CASE n = 1
  BY <1>1, <1>4, Powers
<1>5. CASE n = 2
  BY <1>1, <1>5, Powers
<1>6. CASE n = 3
  BY <1>1, <1>6, Powers
<1>7. CASE n = 4
  BY <1>1, <1>7, Powers
<1>8. CASE n = 5
  BY <1>1, <1>8, Powers
<1> QED
  BY <1>2, <1>3, <1>4, <1>5, <1>6, <1>7, <1>8

(* The smaller of two.                                                     *)
LEMMA MinPair == \A a, b \in Int : Min({a, b}) = IF a <= b THEN a ELSE b
  BY DEF Min

(* What the backoff should be after n failures in a row.                   *)
LEMMA ExpectedValues ==
  LET m == MAX_BACKOFF IN
  /\ Expected(0) = 1
  /\ Expected(1) = IF 2 <= m THEN 2 ELSE m
  /\ Expected(2) = IF 4 <= m THEN 4 ELSE m
  /\ Expected(3) = IF 8 <= m THEN 8 ELSE m
  /\ Expected(4) = IF 16 <= m THEN 16 ELSE m
  /\ Expected(5) = IF 32 <= m THEN 32 ELSE m
  /\ Expected(6) = m
<1>1. MAX_BACKOFF \in Int /\ 1 <= MAX_BACKOFF /\ MAX_BACKOFF <= 32
  BY LimitIsPower
<1> QED
  BY <1>1, Powers, MinPair DEF Expected

(* One more failure doubles it, up to the limit, and further failures      *)
(* leave it there.                                                         *)
LEMMA ExpectedDoubles ==
  ASSUME NEW n \in 0 .. FailureLimit
  PROVE  LET m == IF n < FailureLimit THEN n + 1 ELSE n
             b == Expected(n) IN
         /\ b \in 1 .. MAX_BACKOFF
         /\ Expected(m) = IF b < MAX_BACKOFF THEN 2 * b ELSE b
<1>1. n \in {0, 1, 2, 3, 4, 5, 6}
  BY DEF FailureLimit
<1>2. CASE n = 0
  BY <1>2, ExpectedValues, LimitIsPower DEF FailureLimit
<1>3. CASE n = 1
  BY <1>3, ExpectedValues, LimitIsPower DEF FailureLimit
<1>4. CASE n = 2
  BY <1>4, ExpectedValues, LimitIsPower DEF FailureLimit
<1>5. CASE n = 3
  BY <1>5, ExpectedValues, LimitIsPower DEF FailureLimit
<1>6. CASE n = 4
  BY <1>6, ExpectedValues, LimitIsPower DEF FailureLimit
<1>7. CASE n = 5
  BY <1>7, ExpectedValues, LimitIsPower DEF FailureLimit
<1>8. CASE n = 6
  BY <1>8, ExpectedValues, LimitIsPower DEF FailureLimit
<1> QED
  BY <1>1, <1>2, <1>3, <1>4, <1>5, <1>6, <1>7, <1>8

(* Only Returned counts and only Sleep changes the backoff.                *)
LEMMA BackoffStep ==
  ASSUME TypeOK, BackoffFollows, [Next]_vars
  PROVE  BackoffFollows'
<1> USE DEF BackoffFollows
<1>1. CASE Grpc
  <2>1. UNCHANGED <<tpc, ok, backoff, failures>>
    BY <1>1 DEF Grpc, CallEnds, HandshakeCompletes, StatusCompletes, StreamEnds, MessageArrives,
      thread, memory
  <2> QED
    BY <2>1 DEF Expected
<1>2. CASE QueueDrains \/ StopFlag \/ StopJoin \/ Joined \/ Stranded \/ UNCHANGED vars
  <2>1. UNCHANGED <<tpc, ok, backoff, failures>>
    BY <1>2 DEF QueueDrains, StopFlag, StopJoin, Joined, Stranded, vars, thread, memory
  <2> QED
    BY <2>1 DEF Expected
<1>3. CASE \/ SubscribeFails \/ LeaveLoop \/ Handle \/ Cleanup \/ TestRunning \/ Exit \/ Subscribe
           \/ PutAside \/ Handshake \/ StartRecv \/ Recv \/ DrainOne \/ Drained \/ Status
  <2>1. UNCHANGED <<backoff, failures>> /\ tpc # "sleep" /\ tpc' # "sleep"
    BY <1>3 DEF SubscribeFails, LeaveLoop, Handle, Cleanup, TestRunning, Exit, Subscribe,
      PutAside, Handshake, StartRecv, Recv, DrainOne, Drained, Status, memory, thread, WaitingFor
  <2>2. tpc \in {"exit", "done"} => tpc' \in {"exit", "done"}
    BY <1>3 DEF SubscribeFails, LeaveLoop, Handle, Cleanup, TestRunning, Exit, Subscribe,
      PutAside, Handshake, StartRecv, Recv, DrainOne, Drained, Status, memory, thread, WaitingFor
  <2> QED
    BY <2>1, <2>2 DEF Expected
<1>4. CASE Returned
  <2>1. /\ tpc = "returned" /\ tpc' \in {"sleep", "exit"} /\ UNCHANGED <<backoff, ok>>
        /\ failures' = IF ok THEN 0 ELSE IF failures < FailureLimit THEN failures + 1 ELSE failures
    BY <1>4 DEF Returned
  <2>2. backoff = Expected(failures)
    BY <2>1
  <2>3. CASE ok
    BY <2>1, <2>3, ExpectedValues DEF Expected
  <2>4. CASE ~ok
    BY <2>1, <2>2, <2>4, ExpectedDoubles DEF Expected, TypeOK
  <2> QED
    BY <2>3, <2>4
<1>5. CASE Sleep
  BY <1>5 DEF Sleep, memory, Expected
<1> QED
  BY <1>1, <1>2, <1>3, <1>4, <1>5 DEF Next, ThreadStep

-----------------------------------------------------------------------------
(* Types, and the theorems                                                 *)

(* A completion that arrives, and one that is taken, keep the types.       *)
LEMMA CompleteType ==
  ASSUME TypeOK, NEW t \in Tags, NEW s \in BOOLEAN, Complete(t, s)
  PROVE  pending' \subseteq Tags /\ cq' \subseteq Completion /\ answers' \subseteq Tags
  BY DEF TypeOK, Complete, Completion

LEMMA TakesType ==
  ASSUME TypeOK, OnePlace, NEW t \in Tags, NEW ev, Takes(t, ev)
  PROVE  cache' \in [Slots -> Completion \cup {Empty}] /\ cq' \subseteq Completion
<1>1. CASE t = 2
  BY <1>1, TakesStatus DEF TypeOK
<1>2. CASE t \in {1, 3}
  BY <1>2, TakesFromQueue DEF TypeOK
<1> QED
  BY <1>1, <1>2 DEF Tags

(* Every step keeps the types; that the backoff stays in range rests on    *)
(* its being the one the failures call for.                                *)
LEMMA TypeStep ==
  ASSUME Inv, [Next]_vars
  PROVE  TypeOK'
<1> USE DEF Inv
<1>1. CASE Grpc
  <2>1. ASSUME NEW why \in BOOLEAN, CallEnds(why) PROVE TypeOK'
    BY <2>1 DEF CallEnds, outside, request, thread, memory, TypeOK
  <2>2. ASSUME NEW s \in BOOLEAN, HandshakeCompletes(s) \/ StatusCompletes(s) \/ StreamEnds(s)
        PROVE  TypeOK'
    <3>1. pending' \subseteq Tags /\ cq' \subseteq Completion /\ answers' \subseteq Tags
      BY <2>2, CompleteType DEF HandshakeCompletes, StatusCompletes, StreamEnds, TypeOK, Tags
    <3>2. UNCHANGED <<outside, call, request, refused, messages, thread>>
      BY <2>2 DEF HandshakeCompletes, StatusCompletes, StreamEnds
    <3> QED
      BY <3>1, <3>2 DEF outside, request, thread, memory, TypeOK
  <2>3. ASSUME NEW u \in {"nothing", "event"}, MessageArrives(u) PROVE TypeOK'
    <3>1. pending' \subseteq Tags /\ cq' \subseteq Completion /\ answers' \subseteq Tags
      BY <2>3, CompleteType DEF MessageArrives, TypeOK, Tags
    <3>2. messages' \in 0 .. MaxMessages
      BY <2>3, ClientAssumption DEF MessageArrives, TypeOK
    <3> QED
      BY <2>3, <3>1, <3>2 DEF MessageArrives, outside, request, memory, TypeOK, Updates
  <2> QED
    BY <1>1, <2>1, <2>2, <2>3 DEF Grpc
<1>2. CASE QueueDrains \/ StopJoin \/ Joined \/ Stranded \/ UNCHANGED vars
  <2>1. UNCHANGED <<running, grpc, thread>>
    BY <1>2 DEF QueueDrains, StopJoin, Joined, Stranded, vars, outside
  <2>2. room' \in BOOLEAN /\ stopper' \in {"none", "flagged", "joined"}
    BY <1>2 DEF QueueDrains, StopJoin, Joined, Stranded, vars, outside, TypeOK
  <2> QED
    BY <2>1, <2>2 DEF grpc, stream, request, thread, memory, TypeOK
<1>3. CASE StopFlag
  <2>1. running' \in BOOLEAN
    BY <1>3, Zenon DEF StopFlag
  <2> QED
    BY <1>3, <2>1 DEF StopFlag, grpc, stream, request, thread, memory, TypeOK
<1>4. CASE SubscribeFails
  <2>1. ok' \in BOOLEAN
    BY <1>4, Zenon DEF SubscribeFails
  <2> QED
    BY <1>4, <2>1 DEF SubscribeFails, outside, grpc, stream, request, memory, TypeOK
<1>5. CASE LeaveLoop \/ Cleanup \/ TestRunning \/ Exit
  BY <1>5 DEF LeaveLoop, Cleanup, TestRunning, Exit, outside, grpc, stream, request, memory, TypeOK, InCall
<1>6. CASE Handle
  BY <1>6 DEF Handle, grpc, stream, request, memory, TypeOK, InCall, Updates
<1>7. CASE Returned
  <2>1. failures' \in 0 .. FailureLimit
    BY <1>7 DEF Returned, TypeOK, FailureLimit
  <2> QED
    BY <1>7, <2>1 DEF Returned, outside, grpc, stream, request, TypeOK
<1>8. CASE Sleep
  <2>1. backoff' = Expected(failures)
    BY <1>8 DEF Sleep, BackoffFollows
  <2>2. backoff' \in 1 .. MAX_BACKOFF
    BY <2>1, ExpectedDoubles DEF TypeOK
  <2> QED
    BY <1>8, <2>2 DEF Sleep, outside, grpc, stream, request, memory, TypeOK
<1>9. CASE Subscribe
  <2>1. {ok', refused', asked', status_started'} \subseteq BOOLEAN
    <3>1. ok' \in BOOLEAN /\ refused' \in BOOLEAN /\ status_started' \in BOOLEAN
      BY <1>9, Zenon DEF Subscribe, StartBatches
    <3>2. asked' \in BOOLEAN
      BY <1>9 DEF Subscribe, SubscribePayload, TypeOK
    <3> QED
      BY <3>1, <3>2
  <2>2. /\ pending' \subseteq Tags /\ cq' \subseteq Completion /\ messages' \in 0 .. MaxMessages
        /\ answers' \subseteq Tags
    BY <1>9, ClientAssumption DEF Subscribe, StartBatches, Tags
  <2>3. cache' \in [Slots -> Completion \cup {Empty}]
    BY <1>9 DEF Subscribe
  <2> QED
    BY <1>9, <2>1, <2>2, <2>3 DEF Subscribe, outside, memory, TypeOK, InCall
<1>10. CASE PutAside
  <2>1. cache' \in [Slots -> Completion \cup {Empty}] /\ cq' \subseteq Completion
    BY <1>10, PutsAsideStatus DEF TypeOK
  <2>2. UNCHANGED <<outside, stream, pending, tpc, backoff, ok, update, memory>>
    BY <1>10 DEF PutAside
  <2> QED
    BY <2>1, <2>2 DEF outside, stream, request, memory, TypeOK
<1>11. CASE Handshake
  <2>1. PICK ev \in Completion :
          Takes(1, ev) /\ ok' = ev.success /\ tpc' \in {"recv_test", "cleanup"}
    BY <1>11 DEF Handshake
  <2>2. cache' \in [Slots -> Completion \cup {Empty}] /\ cq' \subseteq Completion
    BY <2>1, TakesType DEF Tags
  <2>3. ok' \in BOOLEAN
    BY <2>1 DEF Completion
  <2> QED
    BY <1>11, <2>1, <2>2, <2>3 DEF Handshake, outside, stream, request, memory, TypeOK, InCall
<1>12. CASE StartRecv
  BY <1>12 DEF StartRecv, outside, stream, request, memory, TypeOK, InCall, Updates, Tags
<1>13. CASE Recv
  <2>1. PICK ev \in Completion : Takes(3, ev) /\ tpc' \in {"handle", "status"}
    BY <1>13 DEF Recv
  <2>2. cache' \in [Slots -> Completion \cup {Empty}] /\ cq' \subseteq Completion
    BY <2>1, TakesType DEF Tags
  <2> QED
    BY <1>13, <2>1, <2>2 DEF Recv, outside, stream, request, memory, TypeOK, InCall
<1>14. CASE Status
  <2>1. PICK ev \in Completion :
          /\ Takes(2, ev)
          /\ from_slot_set' = (from_slot_set /\ ~(ev.success /\ from_slot_set /\ refused))
          /\ ok' = (ok /\ ~(ev.success /\ from_slot_set /\ refused))
    BY <1>14 DEF Status
  <2>2. cache' \in [Slots -> Completion \cup {Empty}] /\ cq' \subseteq Completion
    BY <2>1, TakesType DEF Tags
  <2>3. from_slot_set' \in BOOLEAN /\ ok' \in BOOLEAN
    BY <2>1, Zenon
  <2>4. /\ tpc' = "cleanup"
        /\ UNCHANGED <<outside, stream, pending, backoff, update, failures, told>>
    BY <1>14 DEF Status
  <2> QED
    BY <2>2, <2>3, <2>4 DEF outside, stream, request, TypeOK, InCall
<1>15. CASE DrainOne
  BY <1>15 DEF DrainOne, outside, stream, request, thread, memory, TypeOK
<1>16. CASE Drained
  <2>1. cache' \in [Slots -> Completion \cup {Empty}]
    BY <1>16 DEF Drained
  <2>2. told' \in BOOLEAN
    BY <1>16, Zenon DEF Drained
  <2> QED
    BY <1>16, <2>1, <2>2 DEF Drained, outside, request, TypeOK
<1> QED
  BY <1>1, <1>2, <1>3, <1>4, <1>5, <1>6, <1>7, <1>8, <1>9, <1>10, <1>11, <1>12, <1>13, <1>14,
     <1>15, <1>16 DEF Next, ThreadStep

(* The invariant holds along every behaviour of the client.                *)
LEMMA InvHolds == Spec => []Inv
<1>1. Init => Inv
  <2> SUFFICES ASSUME Init PROVE Inv
    OBVIOUS
  <2>1. {running, ok, asked, refused, told, room, status_started} \subseteq BOOLEAN
    BY Zenon DEF Init
  <2>2. TypeOK
    BY <2>1, ClientAssumption, LimitIsPower DEF Init, TypeOK, Updates, FailureLimit
  <2>3. OnePlace /\ TagsInScope /\ AwaitedIsComing
    BY DEF Init, OnePlace, TagsInScope, AwaitedIsComing, InQueue, Holds, Used, InCall
  <2>4. AnswersMatch /\ StatusWasRead /\ ReplayRemembered
    BY DEF Init, AnswersMatch, StatusWasRead, ReplayRemembered, InCall, Used
  <2>5. BackoffFollows
    BY ExpectedValues DEF Init, BackoffFollows
  <2> QED
    BY <2>2, <2>3, <2>4, <2>5 DEF Inv
<1>2. Inv /\ [Next]_vars => Inv'
  BY TypeStep, PlacesStep, AnswersStep, ReadStep, ReplayStep, BackoffStep DEF Inv, Places
<1> QED
  BY <1>1, <1>2, PTL DEF Spec

(* Every variable of the client keeps its type; the backoff never passes   *)
(* its limit (geyser_client.c:464).                                        *)
THEOREM TypeCorrect == Spec => []TypeOK
<1>1. Inv => TypeOK
  BY DEF Inv
<1> QED
  BY <1>1, InvHolds, PTL

(* A set without two different members has at most one.                    *)
LEMMA AtMostOne ==
  ASSUME NEW S, \A x, y \in S : x = y
  PROVE  Cardinality(S) = IF S = {} THEN 0 ELSE 1
<1>1. CASE S = {}
  BY <1>1, FS_EmptySet
<1>2. CASE S # {}
  <2>1. PICK x : S = {x}
    BY <1>2
  <2> QED
    BY <1>2, <2>1, FS_Singleton
<1> QED
  BY <1>1, <1>2

(* cq_wait_for_tag cannot mistake one completion for another, and its      *)
(* cache cannot overflow, whatever its size (geyser_client.c:105-127).     *)
THEOREM CompletionsUnique == Spec => []OneCompletionPerTag
<1>1. Inv => OneCompletionPerTag
  <2> SUFFICES ASSUME Inv PROVE OneCompletionPerTag
    OBVIOUS
  <2> USE DEF Inv
  <2>1. ASSUME NEW t \in Tags
        PROVE  Cardinality({i \in Slots : cache[i].tag = t})
                 + Cardinality({e \in cq : e.tag = t}) + Cardinality(pending \cap {t}) <= 1
    <3> DEFINE A == {i \in Slots : cache[i].tag = t}
               B == {e \in cq : e.tag = t}
               C == pending \cap {t}
    <3>1. \A x, y \in A : x = y
      BY EmptyTag DEF OnePlace, Tags
    <3>2. (\A x, y \in B : x = y) /\ (\A x, y \in C : x = y)
      BY DEF OnePlace
    <3>3. (A # {} => B = {} /\ C = {}) /\ (B # {} => C = {})
      BY DEF OnePlace, Holds, InQueue
    <3> HIDE DEF A, B, C
    <3>4. /\ Cardinality(A) = IF A = {} THEN 0 ELSE 1
          /\ Cardinality(B) = IF B = {} THEN 0 ELSE 1
          /\ Cardinality(C) = IF C = {} THEN 0 ELSE 1
      BY <3>1, <3>2, AtMostOne
    <3>5. Cardinality(A) + Cardinality(B) + Cardinality(C) <= 1
      BY <3>3, <3>4
    <3> QED
      BY <3>5 DEF A, B, C
  <2> QED
    BY <2>1 DEF OneCompletionPerTag, Cached, OnePlace
<1> QED
  BY <1>1, InvHolds, PTL

(* No wait with an infinite deadline is for a completion that was lost     *)
(* (geyser_client.c:384, 401, 421); the one that is for nothing is for a   *)
(* status whose batch was not started (geyser_client.c:380).               *)
THEOREM WaitsAnswerable == Spec => []NoWaitForNothing
<1>1. Inv => NoWaitForNothing
  <2> SUFFICES ASSUME Inv, tpc \in DOMAIN WaitingFor
               PROVE  LET t == WaitingFor[tpc] IN
                      (t \in pending \/ Holds(t) \/ \E e \in cq : e.tag = t)
                        <=> ~AwaitsNoStatus
    BY DEF NoWaitForNothing
  <2>1. tpc \in {"handshake", "status", "recv"}
    BY DEF WaitingFor
  <2>2. CASE tpc = "handshake"
    BY <2>2 DEF Inv, AwaitedIsComing, InQueue, WaitingFor, AwaitsNoStatus
  <2>3. CASE tpc = "status"
    BY <2>3 DEF Inv, AwaitedIsComing, InQueue, InCall, WaitingFor, AwaitsNoStatus
  <2>4. CASE tpc = "recv"
    BY <2>4 DEF Inv, AwaitedIsComing, InQueue, WaitingFor, AwaitsNoStatus
  <2> QED
    BY <2>1, <2>2, <2>3, <2>4
<1> QED
  BY <1>1, InvHolds, PTL

(* gRPC holds no pointer into run_subscription after it has returned, nor  *)
(* to recv_buffer outside of the receive (geyser_client.c:393-452).        *)
THEOREM CallContained == Spec => []NothingOutlivesTheCall
<1>1. Inv => NothingOutlivesTheCall
  BY DEF Inv, TagsInScope, NothingOutlivesTheCall
<1> QED
  BY <1>1, InvHolds, PTL

(* After the first accepted call that the server answered with a refusal,  *)
(* no request asks for a replay again: the thread cannot have missed it    *)
(* (geyser_client.c:421-442).                                              *)
THEOREM RefusalRemembered == Spec => []RefusalHonoured
<1>1. Inv => RefusalHonoured
  BY DEF Inv, ReplayRemembered, RefusalHonoured, InCall
<1> QED
  BY <1>1, InvHolds, PTL

(* The backoff doubles with each failure in a row up to the limit and      *)
(* starts over after a good subscription (geyser_client.c:458-467).        *)
THEOREM BackoffCorrect == Spec => []BackoffMatchesFailures
<1>1. Inv => BackoffMatchesFailures
  BY DEF Inv, BackoffFollows, BackoffMatchesFailures, Expected
<1> QED
  BY <1>1, InvHolds, PTL

-----------------------------------------------------------------------------
(* The safety half of StopReturnsAfterEnd                                  *)

(* The most moves the thread can make from each place until it ends, when  *)
(* it neither starts another receive nor subscribes again.                 *)
StepsLeft ==
  [subscribe |-> 12, handshake |-> 11, recv |-> 10, handle |-> 9, recv_test |-> 8,
   status |-> 7, cleanup |-> 6, drain |-> 5, returned |-> 4, sleep |-> 3, loop |-> 2,
   exit |-> 1, done |-> 0]

(* Once geyser_client_stop has cleared running (geyser_client.c:490-493),  *)
(* nothing sets it again, every move of the thread brings it nearer to its *)
(* end, and between two moves the operations still out and then the        *)
(* completions still to be read only become fewer.                         *)
StopWindsDown ==
  ~running =>
    /\ ~running'
    /\ tpc' # tpc => StepsLeft[tpc'] < StepsLeft[tpc]
    /\ tpc' = tpc => /\ pending' \subseteq pending
                     /\ pending' = pending => cq' \subseteq cq

LEMMA StoppedMove ==
  ASSUME ~running, running' = running, tpc' # tpc, StepsLeft[tpc'] < StepsLeft[tpc]
  PROVE  StopWindsDown
  BY DEF StopWindsDown

(* gRPC hands over what it was given; it is given nothing new.             *)
LEMMA StoppedGrpc ==
  ASSUME Inv, ~running, Grpc
  PROVE  StopWindsDown
<1>1. running' = running /\ tpc' = tpc
  BY DEF Grpc, CallEnds, HandshakeCompletes, StatusCompletes, StreamEnds, MessageArrives, outside,
    thread
<1>2. ASSUME NEW t, NEW s, t \in pending, Complete(t, s) PROVE StopWindsDown
  BY <1>1, <1>2 DEF Complete, StopWindsDown
<1>3. ASSUME NEW why, CallEnds(why) PROVE StopWindsDown
  BY <1>1, <1>3 DEF CallEnds, StopWindsDown
<1> QED
  BY <1>2, <1>3 DEF Grpc, HandshakeCompletes, StatusCompletes, StreamEnds, MessageArrives

(* The thread, step by step.                                               *)
LEMMA StoppedThread ==
  ASSUME Inv, ~running, ThreadStep
  PROVE  StopWindsDown
<1>0. running' = running
  BY DEF ThreadStep, TestRunning, SubscribeFails, Subscribe, PutAside, Handshake, StartRecv,
    LeaveLoop, Recv, Handle, Status, Cleanup, DrainOne, Drained, Returned, Sleep, Exit, outside
<1>1. CASE PutAside \/ DrainOne
  <2>1. tpc' = tpc /\ pending' = pending /\ cq' \subseteq cq
    BY <1>1 DEF PutAside, DrainOne, thread
  <2> QED
    BY <1>0, <2>1 DEF StopWindsDown
<1>2. CASE TestRunning \/ Returned \/ Sleep \/ Exit
  <2>1. \/ tpc \in {"loop", "returned"} /\ tpc' = "exit"
        \/ tpc = "sleep" /\ tpc' = "loop"
        \/ tpc = "exit" /\ tpc' = "done"
    BY <1>2 DEF TestRunning, Returned, Sleep, Exit
  <2> QED
    BY <1>0, <2>1, StoppedMove DEF StepsLeft
<1>3. CASE SubscribeFails \/ Subscribe \/ Handshake
  <2>1. \/ tpc = "subscribe" /\ tpc' \in {"returned", "handshake"}
        \/ tpc = "handshake" /\ tpc' \in {"recv_test", "cleanup"}
    BY <1>3 DEF SubscribeFails, Subscribe, Handshake
  <2> QED
    BY <1>0, <2>1, StoppedMove DEF StepsLeft
<1>4. CASE StartRecv
  BY <1>4 DEF StartRecv
<1>5. CASE LeaveLoop \/ Recv \/ Handle
  <2>1. \/ tpc = "recv_test" /\ tpc' = "status"
        \/ tpc = "recv" /\ tpc' \in {"handle", "status"}
        \/ tpc = "handle" /\ tpc' = "recv_test"
    BY <1>5 DEF LeaveLoop, Recv, Handle
  <2> QED
    BY <1>0, <2>1, StoppedMove DEF StepsLeft
<1>6. CASE Status \/ Cleanup \/ Drained
  <2>1. \/ tpc = "status" /\ tpc' = "cleanup"
        \/ tpc = "cleanup" /\ tpc' = "drain"
        \/ tpc = "drain" /\ tpc' = "returned"
    BY <1>6 DEF Status, Cleanup, Drained
  <2> QED
    BY <1>0, <2>1, StoppedMove DEF StepsLeft
<1> QED
  BY <1>1, <1>2, <1>3, <1>4, <1>5, <1>6 DEF ThreadStep

(* A stopped client does not start over: after geyser_client_stop it goes  *)
(* through at most the subscription it had already begun and the message   *)
(* it is waiting for, and the completions that can hold it up become fewer *)
(* (geyser_client.c:392-402, 459-468, 490-496).                            *)
THEOREM StopIsBounded == Spec => [][StopWindsDown]_vars
<1>1. Inv /\ [Next]_vars => [StopWindsDown]_vars
  <2> SUFFICES ASSUME Inv, Next, ~running PROVE StopWindsDown
    BY DEF StopWindsDown
  <2>1. CASE QueueDrains \/ StopFlag \/ StopJoin \/ Joined \/ Stranded
    <3>1. running' \in {running, FALSE} /\ tpc' = tpc /\ pending' = pending /\ cq' = cq
      BY <2>1 DEF QueueDrains, StopFlag, StopJoin, Joined, Stranded, vars, outside, grpc, thread
    <3> QED
      BY <3>1 DEF StopWindsDown
  <2> QED
    BY <2>1, StoppedGrpc, StoppedThread DEF Next
<1> QED
  BY <1>1, InvHolds, PTL DEF Spec
=============================================================================
