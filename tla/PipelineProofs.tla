--------------------------- MODULE PipelineProofs ---------------------------
(***************************************************************************)
(* What Pipeline promises, proved for every capacity of the queue and for  *)
(* every number of events.  The three threads share the queue and the      *)
(* counters, so the invariant below has a part for each thing one of them  *)
(* takes for granted about the others: where main is when the queue and    *)
(* the threads exist, which calls are in the queue, what the counters add  *)
(* up to, and what main may conclude from the copies it has read so far.   *)
(***************************************************************************)
EXTENDS Pipeline, SequenceTheorems, TLAPS

One(b) == IF b THEN 1 ELSE 0

(* main has the queue from event_queue_create to event_queue_destroy.      *)
QueueOwned ==
  /\ mpc = "create" => queue = "none"
  /\ mpc \in {"start_writer", "start_client", "run", "stop_client", "join_client",
              "stop_writer", "close", "join_writer", "destroy"} => queue = "live"
  /\ mpc \in {"snapshot", "summary"} => queue # "none"
  /\ mpc = "exit" => queue # "live"

(* The threads live between their start and their join, which come before  *)
(* the queue is freed; it is closed when the client has gone.              *)
ThreadsJoined ==
  /\ mpc \in {"create", "start_writer", "start_client"} => cpc = "absent"
  /\ mpc \in {"create", "start_writer"} => wpc = "absent"
  /\ mpc \in {"stop_writer", "close", "join_writer", "destroy", "exit"} => Gone(cpc)
  /\ mpc \in {"destroy", "exit"} => Gone(wpc)
  /\ queue = "freed" => Gone(cpc) /\ Gone(wpc)
  /\ closed => mpc \in {"join_writer", "destroy", "exit"} \/ queue = "freed"

(* A call is in the queue exactly while its thread is inside it.           *)
CallsMatch ==
  /\ event \in [{Client} -> {Event, NoEvent}]
  /\ status[Client] = "pending" <=> cpc = "push"
  /\ cpc = "push" => event[Client] = Event
  /\ NoPushRefused

(* Every event the server sent is in one place: in the hands of the        *)
(* client, in the queue, in the hands of the writer, or counted.           *)
EventsAccounted ==
  /\ g_metrics["queue_pushes"] + One(cpc = "push") = sent
  /\ g_metrics["queue_pops"] + Len(items) = g_metrics["queue_pushes"]
  /\ g_metrics["events_total"] + One(wpc = "count") = g_metrics["queue_pops"]

(* events_total is read first, so that what is read later, of counters     *)
(* that only grow, is not behind it; with no thread left it is exact.      *)
CopiesOrdered ==
  /\ mpc # "summary" => unread = Counters
  /\ mpc = "summary" =>
       /\ "events_total" \notin unread
       /\ summary["events_total"] <= g_metrics["events_total"]
       /\ \A c \in Counters \ unread : summary["events_total"] <= summary[c]
       /\ queue = "freed" => \A c \in Counters \ unread : summary[c] = g_metrics[c]

Inv == TypeOK /\ QueueOwned /\ ThreadsJoined /\ CallsMatch /\ EventsAccounted /\ CopiesOrdered

-----------------------------------------------------------------------------

(* The start state: nothing exists yet.                                    *)
LEMMA InvInit == Init => Inv
<1> SUFFICES ASSUME Init PROVE Inv
  OBVIOUS
<1>1. items = <<>> /\ items \in Seq({Event}) /\ Len(items) = 0
  BY DEF Init, Fifo!Init
<1>2. TypeOK
  <2>1. status \in [{Client, Writer} -> {"none", "pending", "ok", "refused"}] /\ closed = FALSE
    BY DEF Init, Fifo!Init, Fifo!Threads
  <2>2. {g_metrics, summary} \subseteq [Counters -> 0 .. MaxEvents] /\ sent \in 0 .. MaxEvents
    BY PipelineAssumption DEF Init, Zero
  <2>3. {closed, g_stop, client_running, writer_running, status_started} \subseteq BOOLEAN
    BY <2>1, Zenon DEF Init
  <2> QED
    BY <1>1, <2>1, <2>2, <2>3, PipelineAssumption DEF Init, TypeOK
<1>3. QueueOwned /\ ThreadsJoined
  BY DEF Init, Fifo!Init, QueueOwned, ThreadsJoined, Gone
<1>4. CallsMatch
  BY DEF Init, Fifo!Init, Fifo!Threads, CallsMatch, NoPushRefused, Client, Writer
<1>5. EventsAccounted
  BY <1>1 DEF Init, Zero, Counters, EventsAccounted, One
<1>6. CopiesOrdered
  BY DEF Init, CopiesOrdered
<1> QED
  BY <1>2, <1>3, <1>4, <1>5, <1>6 DEF Inv

(* main leaves the calls, the events and the counters of the threads alone *)
(* in all its steps but two: start and join, which move a thread that is   *)
(* outside of any call, and the close.                                     *)
LEMMA MainKeepsInv ==
  ASSUME Inv, MainStep
  PROVE  Inv'
<1> USE DEF Inv
<1>1. CASE CreateQueue
  BY <1>1 DEF CreateQueue, Fail, fifo, client, stream, writer, metrics, reading, TypeOK, QueueOwned,
    ThreadsJoined, CallsMatch, NoPushRefused, EventsAccounted, CopiesOrdered, Gone
<1>2. CASE StartWriter
  <2>1. /\ UNCHANGED <<fifo, g_stop, client, metrics>> /\ mpc = "start_writer"
        /\ \/ /\ wpc' = "test" /\ writer_running' = TRUE
              /\ mpc' = "start_client" /\ UNCHANGED <<queue, exit_code>>
           \/ /\ queue' = "freed" /\ mpc' = "exit" /\ exit_code' = "failure" /\ UNCHANGED writer
    BY <1>2, Zenon DEF StartWriter, Fail
  <2> USE <2>1 DEF fifo, client, stream, writer, metrics, reading
  <2>2. TypeOK'
    <3>1. writer_running' \in BOOLEAN
      BY Zenon DEF TypeOK
    <3> QED
      BY <3>1 DEF TypeOK
  <2>3. QueueOwned' /\ ThreadsJoined'
    BY DEF QueueOwned, ThreadsJoined, Gone
  <2>4. CallsMatch' /\ EventsAccounted'
    BY DEF CallsMatch, NoPushRefused, EventsAccounted, ThreadsJoined, One
  <2>5. CopiesOrdered'
    BY DEF CopiesOrdered
  <2> QED
    BY <2>2, <2>3, <2>4, <2>5
<1>3. CASE StartClient
  <2>1. TypeOK'
    <3>1. UNCHANGED <<fifo, queue, g_stop, stream, sent, writer, metrics>>
      BY <1>3 DEF StartClient
    <3>2. /\ cpc' \in {"loop", cpc} /\ client_running' \in {TRUE, client_running}
          /\ mpc' \in {"run", "stop_writer"} /\ exit_code' \in {"failure", exit_code}
      BY <1>3 DEF StartClient
    <3>3. client_running' \in BOOLEAN
      BY <3>2, Zenon DEF TypeOK
    <3>4. cpc' \in {"absent", "loop", "connect", "handshake", "recv_test", "recv", "push",
                    "status", "teardown", "done", "joined"}
      BY <3>2, Zenon DEF TypeOK
    <3>5. exit_code' \in {"none", "success", "failure"}
      BY <3>2, Zenon DEF TypeOK
    <3>6. mpc' \in {"create", "start_writer", "start_client", "run", "stop_client", "join_client",
                    "stop_writer", "close", "join_writer", "destroy", "snapshot", "summary", "exit"}
      BY <3>2, Zenon
    <3>7. /\ items' = items /\ closed' = closed /\ status' = status /\ queue' = queue
          /\ g_stop' = g_stop /\ call' = call /\ sent' = sent /\ wpc' = wpc
          /\ status_started' = status_started
          /\ writer_running' = writer_running /\ g_metrics' = g_metrics
          /\ summary' = summary /\ unread' = unread
      BY <3>1, Zenon DEF fifo, stream, writer, metrics, reading
    <3> QED
      BY <3>3, <3>4, <3>5, <3>6, <3>7, ZenonT(40) DEF TypeOK
  <2>2. QueueOwned' /\ ThreadsJoined' /\ CallsMatch'
    BY <1>3 DEF StartClient, fifo, client, stream, writer, TypeOK, QueueOwned, ThreadsJoined, CallsMatch,
      NoPushRefused, Gone
  <2>3. EventsAccounted' /\ CopiesOrdered'
    BY <1>3 DEF StartClient, fifo, client, stream, writer, metrics, reading, EventsAccounted, CopiesOrdered, One, ThreadsJoined
  <2> QED
    BY <2>1, <2>2, <2>3
<1>4. CASE RunLoop
  BY <1>4 DEF RunLoop, fifo, client, stream, writer, metrics, reading, TypeOK, QueueOwned,
    ThreadsJoined, CallsMatch, NoPushRefused, EventsAccounted, CopiesOrdered, Gone
<1>5. CASE StopClient
  <2>0. client_running' \in BOOLEAN
    BY <1>5, Zenon DEF StopClient
  <2>1. TypeOK'
    BY <1>5, <2>0 DEF StopClient, fifo, client, stream, writer, metrics, reading, TypeOK
  <2>2. QueueOwned' /\ ThreadsJoined' /\ CallsMatch'
    BY <1>5 DEF StopClient, fifo, client, stream, writer, TypeOK, QueueOwned, ThreadsJoined, CallsMatch,
      NoPushRefused, Gone
  <2>3. EventsAccounted' /\ CopiesOrdered'
    BY <1>5 DEF StopClient, fifo, client, stream, writer, metrics, reading, EventsAccounted, CopiesOrdered
  <2> QED
    BY <2>1, <2>2, <2>3
<1>6. CASE JoinClient
  BY <1>6 DEF JoinClient, fifo, client, stream, writer, metrics, reading, TypeOK, QueueOwned,
    ThreadsJoined, CallsMatch, NoPushRefused, EventsAccounted, CopiesOrdered, Gone, One
<1>7. CASE StopWriter
  <2>0. writer_running' \in BOOLEAN
    BY <1>7, Zenon DEF StopWriter
  <2>1. TypeOK'
    BY <1>7, <2>0 DEF StopWriter, fifo, client, stream, writer, metrics, reading, TypeOK
  <2>2. QueueOwned' /\ ThreadsJoined' /\ CallsMatch'
    BY <1>7 DEF StopWriter, fifo, client, stream, writer, TypeOK, QueueOwned, ThreadsJoined, CallsMatch,
      NoPushRefused, Gone
  <2>3. EventsAccounted' /\ CopiesOrdered'
    BY <1>7 DEF StopWriter, fifo, client, stream, writer, metrics, reading, EventsAccounted, CopiesOrdered
  <2> QED
    BY <2>1, <2>2, <2>3
<1>8. CASE CloseQueue
  BY <1>8 DEF CloseQueue, Fifo!Close, fifo, client, stream, writer, metrics, reading, TypeOK, QueueOwned,
    ThreadsJoined, CallsMatch, NoPushRefused, EventsAccounted, CopiesOrdered, Gone
<1>9. CASE JoinWriter
  BY <1>9 DEF JoinWriter, fifo, client, stream, writer, metrics, reading, TypeOK, QueueOwned,
    ThreadsJoined, CallsMatch, NoPushRefused, EventsAccounted, CopiesOrdered, Gone, One
<1>10. CASE Destroy
  BY <1>10 DEF Destroy, fifo, client, stream, writer, metrics, reading, TypeOK, QueueOwned,
    ThreadsJoined, CallsMatch, NoPushRefused, EventsAccounted, CopiesOrdered, Gone
<1>11. CASE Snapshot
  <2>1. TypeOK' /\ QueueOwned' /\ ThreadsJoined' /\ CallsMatch' /\ EventsAccounted'
    BY <1>11 DEF Snapshot, Read, fifo, client, stream, writer, TypeOK, QueueOwned, Counters,
      ThreadsJoined, CallsMatch, NoPushRefused, EventsAccounted, Gone
  <2>2. CopiesOrdered'
    BY <1>11 DEF Snapshot, Read, TypeOK, CopiesOrdered, Counters
  <2> QED
    BY <2>1, <2>2
<1>12. CASE ReadCounter
  <2>1. PICK counter \in unread : Read(counter)
    BY <1>12 DEF ReadCounter
  <2>2. TypeOK' /\ QueueOwned' /\ ThreadsJoined' /\ CallsMatch' /\ EventsAccounted'
    BY <1>12, <2>1 DEF ReadCounter, Read, fifo, main, client, stream, writer, TypeOK, QueueOwned,
      Counters, ThreadsJoined, CallsMatch, NoPushRefused, EventsAccounted, Gone
  <2>3. CopiesOrdered'
    <3>1. /\ counter \in Counters /\ counter # "events_total" /\ mpc = "summary"
          /\ unread' = unread \ {counter} /\ UNCHANGED <<mpc, queue, g_metrics>>
          /\ summary' = [summary EXCEPT ![counter] = g_metrics[counter]]
      BY <1>12, <2>1 DEF ReadCounter, Read, main, TypeOK, CopiesOrdered
    <3>2. /\ summary'["events_total"] = summary["events_total"]
          /\ summary'[counter] = g_metrics[counter]
          /\ \A c \in Counters \ {counter} : summary'[c] = summary[c]
      BY <3>1 DEF TypeOK, Counters
    <3>3. \A c \in Counters : g_metrics[c] \in Nat
      BY PipelineAssumption DEF TypeOK
    <3>4. g_metrics["events_total"] <= g_metrics[counter]
      <4>1. /\ g_metrics["events_total"] <= g_metrics["queue_pops"]
            /\ g_metrics["queue_pops"] <= g_metrics["queue_pushes"]
        BY <3>3 DEF EventsAccounted, Counters, One, TypeOK
      <4> QED
        BY <3>1, <3>3, <4>1 DEF Counters
    <3>5. summary["events_total"] <= g_metrics["events_total"]
      BY <3>1 DEF CopiesOrdered
    <3>6. summary["events_total"] \in Nat
      BY PipelineAssumption DEF TypeOK, Counters
    <3>7. summary["events_total"] <= g_metrics[counter]
      BY <3>3, <3>4, <3>5, <3>6, <3>1 DEF Counters
    <3> QED
      BY <3>1, <3>2, <3>5, <3>7 DEF CopiesOrdered
  <2> QED
    BY <2>2, <2>3
<1>13. CASE EndSummary
  BY <1>13, PipelineAssumption DEF EndSummary, Zero, fifo, client, stream, writer, TypeOK, QueueOwned,
    ThreadsJoined, CallsMatch, NoPushRefused, EventsAccounted, CopiesOrdered, Gone
<1> QED
  BY <1>1, <1>2, <1>3, <1>4, <1>5, <1>6, <1>7, <1>8, <1>9, <1>10, <1>11, <1>12, <1>13
    DEF MainStep

(* A step of the client that only moves it between points outside of the   *)
(* push leaves everything but its program counter alone.                   *)
LEMMA ClientMoves ==
  ASSUME Inv, NEW from, NEW to, ClientGoes(from, to),
         ~Gone(from), from # "push",
         to \in {"loop", "connect", "handshake", "recv_test", "recv", "status", "teardown", "done"}
  PROVE  Inv'
<1> USE DEF Inv, ClientGoes
<1>1. TypeOK'
  BY DEF fifo, main, stream, writer, metrics, reading, TypeOK
<1>2. QueueOwned' /\ ThreadsJoined' /\ CallsMatch'
  BY DEF fifo, main, writer, TypeOK, QueueOwned, ThreadsJoined, CallsMatch, NoPushRefused, Gone
<1>3. EventsAccounted' /\ CopiesOrdered'
  BY DEF fifo, main, writer, metrics, reading, EventsAccounted, CopiesOrdered, One
<1> QED
  BY <1>1, <1>2, <1>3

(* The client, and the server behind it: what it pushes is an event it has *)
(* been sent, and the queue is open for as long as it is there.            *)
LEMMA ClientKeepsInv ==
  ASSUME Inv, ClientStep \/ ServerAccepts \/ ServerSends \/ CallEnds
  PROVE  Inv'
<1>1. CASE ClientLoop \/ ClientConnectFails \/ ServerAccepts \/ ClientRecvTest
           \/ ClientLeavesLoop \/ ClientSeesEnd \/ ClientGetsStatus
  BY <1>1, ClientMoves DEF ClientLoop, ClientConnectFails, ServerAccepts, ClientRecvTest,
    ClientLeavesLoop, ClientSeesEnd, ClientGetsStatus, Gone
<1> USE DEF Inv
<1>2. CASE ClientConnect \/ CallEnds \/ ClientReturns
  <2>1. TypeOK'
    BY <1>2 DEF ClientConnect, CallEnds, ClientReturns, fifo, main, writer, metrics, reading, TypeOK
  <2>2. QueueOwned' /\ ThreadsJoined' /\ CallsMatch'
    BY <1>2 DEF ClientConnect, CallEnds, ClientReturns, fifo, main, writer, TypeOK, QueueOwned,
      ThreadsJoined, CallsMatch, NoPushRefused, Gone
  <2>3. EventsAccounted' /\ CopiesOrdered'
    BY <1>2 DEF ClientConnect, CallEnds, ClientReturns, fifo, main, writer, metrics, reading,
      EventsAccounted, CopiesOrdered, One
  <2> QED
    BY <2>1, <2>2, <2>3
<1>3. CASE ServerSends
  <2>1. TypeOK'
    BY <1>3, PipelineAssumption DEF ServerSends, Fifo!CallPush, Fifo!Becomes, main, stream, writer,
      metrics, reading, TypeOK
  <2>2. CallsMatch'
    BY <1>3 DEF ServerSends, Fifo!CallPush, Fifo!Becomes, TypeOK, CallsMatch, NoPushRefused
  <2>3. QueueOwned' /\ ThreadsJoined'
    BY <1>3 DEF ServerSends, Fifo!CallPush, main, writer, TypeOK, QueueOwned, ThreadsJoined, Gone
  <2>4. EventsAccounted'
    <3>1. /\ cpc # "push" /\ cpc' = "push" /\ sent' = sent + 1
          /\ UNCHANGED <<g_metrics, items, wpc>>
      BY <1>3 DEF ServerSends, Fifo!CallPush, writer, metrics
    <3>2. g_metrics["queue_pushes"] \in Nat /\ sent \in Nat
      BY DEF TypeOK, Counters
    <3> QED
      BY <3>1, <3>2 DEF EventsAccounted, One
  <2>5. CopiesOrdered'
    BY <1>3 DEF ServerSends, main, metrics, reading, CopiesOrdered
  <2> QED
    BY <2>1, <2>2, <2>3, <2>4, <2>5
<1>4. CASE ClientPush
  <2>1. ~closed /\ event[Client] = Event /\ queue = "live"
    BY <1>4 DEF ClientPush, TypeOK, QueueOwned, ThreadsJoined, CallsMatch, Gone
  <2>2. Fifo!Push(Client) /\ Count("queue_pushes")
    BY <1>4, <2>1 DEF ClientPush, Fifo!RefusePush
  <2>3. /\ items' \in Seq({Event}) /\ Len(items') = Len(items) + 1 /\ Len(items) \in Nat
        /\ Len(items') <= Capacity
    BY <2>1, <2>2, PipelineAssumption DEF Fifo!Push, TypeOK
  <2>4. /\ g_metrics' = [g_metrics EXCEPT !["queue_pushes"] = @ + 1]
        /\ cpc = "push" /\ cpc' = "recv_test"
        /\ UNCHANGED <<main, g_stop, client_running, stream, sent, writer, reading, closed>>
    BY <1>4, <2>2 DEF ClientPush, Count, Fifo!Push
  <2>5. EventsAccounted'
    <3>1. /\ g_metrics'["queue_pushes"] = g_metrics["queue_pushes"] + 1
          /\ g_metrics'["queue_pops"] = g_metrics["queue_pops"]
          /\ g_metrics'["events_total"] = g_metrics["events_total"]
          /\ g_metrics["queue_pushes"] \in Nat /\ g_metrics["queue_pops"] \in Nat
      BY <2>4 DEF TypeOK, Counters
    <3>2. UNCHANGED <<sent, wpc>>
      BY <2>4 DEF writer
    <3> QED
      BY <2>3, <2>4, <3>1, <3>2 DEF EventsAccounted, One
  <2>6. g_metrics' \in [Counters -> 0 .. MaxEvents]
    BY <2>4 DEF TypeOK, EventsAccounted, Counters, One
  <2>7. TypeOK'
    BY <2>2, <2>3, <2>4, <2>6 DEF Fifo!Push, Fifo!Becomes, main, stream, writer, reading, TypeOK
  <2>8. CallsMatch'
    BY <2>2, <2>4 DEF Fifo!Push, Fifo!Becomes, Fifo!DropEvent, TypeOK, CallsMatch, NoPushRefused
  <2>9. QueueOwned' /\ ThreadsJoined'
    BY <2>4 DEF main, writer, TypeOK, QueueOwned, ThreadsJoined, Gone
  <2>10. CopiesOrdered'
    BY <2>1, <2>4 DEF main, reading, TypeOK, CopiesOrdered, Counters
  <2> QED
    BY <2>5, <2>7, <2>8, <2>9, <2>10
<1> QED
  BY <1>1, <1>2, <1>3, <1>4 DEF ClientStep

(* A step of the writer that only moves it between points outside of the   *)
(* pop and of the count.                                                   *)
LEMMA WriterMoves ==
  ASSUME Inv, NEW from, NEW to, WriterGoes(from, to),
         ~Gone(from), from # "count",
         to \in {"test", "call", "flush", "final", "done"}
  PROVE  Inv'
<1> USE DEF Inv, WriterGoes
<1>1. TypeOK'
  BY DEF fifo, main, client, stream, metrics,
      reading, TypeOK
<1>2. QueueOwned' /\ ThreadsJoined' /\ CallsMatch'
  BY DEF fifo, main, client, TypeOK, QueueOwned, ThreadsJoined, CallsMatch, NoPushRefused, Gone
<1>3. EventsAccounted' /\ CopiesOrdered'
  BY DEF fifo, main, client, metrics, reading, EventsAccounted, CopiesOrdered, One
<1> QED
  BY <1>1, <1>2, <1>3

(* The writer: it pops what has been pushed and counts what it has popped, *)
(* and the queue is not freed while it is there.                           *)
LEMMA WriterKeepsInv ==
  ASSUME Inv, WriterStep
  PROVE  Inv'
<1>1. CASE WriterTest \/ WriterFlush \/ WriterFinal
  BY <1>1, WriterMoves DEF WriterTest, WriterFlush, WriterFinal, Gone
<1> USE DEF Inv
<1>2. CASE WriterCallsPop
  <2>1. TypeOK'
    BY <1>2 DEF WriterCallsPop, Fifo!CallPop, Fifo!Becomes, main, client, stream, metrics,
      reading, TypeOK
  <2>2. CallsMatch'
    BY <1>2 DEF WriterCallsPop, Fifo!CallPop, Fifo!Becomes, client, TypeOK, CallsMatch,
      NoPushRefused, Client, Writer
  <2>3. QueueOwned' /\ ThreadsJoined'
    BY <1>2 DEF WriterCallsPop, Fifo!CallPop, main, client, TypeOK, QueueOwned, ThreadsJoined, Gone
  <2>4. EventsAccounted' /\ CopiesOrdered'
    BY <1>2 DEF WriterCallsPop, Fifo!CallPop, main, client, metrics, reading, EventsAccounted,
      CopiesOrdered, One
  <2> QED
    BY <2>1, <2>2, <2>3, <2>4
<1>3. ASSUME WriterPop, Fifo!RefusePop(Writer), wpc' = "flush", UNCHANGED g_metrics
      PROVE  Inv'
  <2>1. TypeOK'
    BY <1>3 DEF WriterPop, Fifo!RefusePop, Fifo!Becomes, main, client, stream, reading, TypeOK
  <2>2. CallsMatch'
    BY <1>3 DEF WriterPop, Fifo!RefusePop, Fifo!Becomes, client, TypeOK, CallsMatch,
      NoPushRefused, Client, Writer
  <2>3. QueueOwned' /\ ThreadsJoined'
    BY <1>3 DEF WriterPop, Fifo!RefusePop, main, client, TypeOK, QueueOwned, ThreadsJoined, Gone
  <2>4. EventsAccounted' /\ CopiesOrdered'
    BY <1>3 DEF WriterPop, Fifo!RefusePop, main, client, reading, EventsAccounted,
      CopiesOrdered, One
  <2> QED
    BY <2>1, <2>2, <2>3, <2>4
<1>4. ASSUME WriterPop, Fifo!Pop(Writer), wpc' = "count", Count("queue_pops")
      PROVE  Inv'
  <2>1. /\ items' \in Seq({Event}) /\ Len(items') = Len(items) - 1 /\ Len(items) \in Nat
        /\ Len(items') <= Capacity /\ Len(items') \in Nat
    BY <1>4, PipelineAssumption DEF Fifo!Pop, TypeOK
  <2>2. /\ g_metrics' = [g_metrics EXCEPT !["queue_pops"] = @ + 1]
        /\ wpc = "pop" /\ wpc' = "count"
        /\ UNCHANGED <<main, g_stop, client, writer_running, reading, closed, event>>
    BY <1>4 DEF WriterPop, Count, Fifo!Pop
  <2>3. queue = "live"
    BY <2>2 DEF TypeOK, QueueOwned, ThreadsJoined, Gone
  <2>4. EventsAccounted'
    BY <2>1, <2>2 DEF main, client, reading, TypeOK, EventsAccounted, Counters, One
  <2>5. g_metrics' \in [Counters -> 0 .. MaxEvents]
    <3>1. g_metrics \in [Counters -> 0 .. MaxEvents] /\ MaxEvents \in Nat
      BY PipelineAssumption DEF TypeOK
    <3>2. g_metrics["queue_pops"] + 1 \in 0 .. MaxEvents
      BY <2>1, <3>1 DEF EventsAccounted, Counters
    <3> QED
      BY <2>2, <3>1, <3>2
  <2>6. TypeOK'
    BY <1>4, <2>1, <2>2, <2>5 DEF Fifo!Pop, Fifo!Becomes, main, client, stream, reading, TypeOK
  <2>7. CallsMatch'
    BY <1>4, <2>2 DEF Fifo!Pop, Fifo!Becomes, client, TypeOK, CallsMatch, NoPushRefused,
      Client, Writer
  <2>8. QueueOwned' /\ ThreadsJoined'
    BY <2>2 DEF main, client, TypeOK, QueueOwned, ThreadsJoined, Gone
  <2>9. CopiesOrdered'
    BY <2>2, <2>3 DEF main, reading, TypeOK, CopiesOrdered, Counters
  <2> QED
    BY <2>4, <2>6, <2>7, <2>8, <2>9
<1>5. CASE WriterCounts
  <2>1. queue = "live"
    BY <1>5 DEF WriterCounts, TypeOK, QueueOwned, ThreadsJoined, Gone
  <2>2. EventsAccounted'
    BY <1>5 DEF WriterCounts, Count, fifo, client, TypeOK, EventsAccounted, Counters, One
  <2>3. g_metrics' \in [Counters -> 0 .. MaxEvents]
    BY <1>5 DEF WriterCounts, Count, TypeOK, EventsAccounted, Counters, One
  <2>4. TypeOK'
    BY <1>5, <2>3 DEF WriterCounts, fifo, main, client, stream, reading, TypeOK
  <2>5. QueueOwned' /\ ThreadsJoined' /\ CallsMatch'
    BY <1>5 DEF WriterCounts, fifo, main, client, TypeOK, QueueOwned, ThreadsJoined, CallsMatch,
      NoPushRefused, Gone
  <2>6. CopiesOrdered'
    BY <1>5, <2>1 DEF WriterCounts, Count, main, reading, TypeOK, CopiesOrdered, Counters
  <2> QED
    BY <2>2, <2>4, <2>5, <2>6
<1> QED
  BY <1>1, <1>2, <1>3, <1>4, <1>5 DEF WriterStep, WriterPop

(* The invariant holds along every behaviour of the process.               *)
LEMMA InvHolds == Spec => []Inv
<1>1. Inv /\ [Next]_vars => Inv'
  <2> SUFFICES ASSUME Inv, [Next]_vars PROVE Inv'
    OBVIOUS
  <2>1. CASE Signal \/ Exited \/ UNCHANGED vars
    <3>0. g_stop \in BOOLEAN
      BY Zenon DEF Inv, TypeOK
    <3>1. UNCHANGED <<fifo, main, client, writer, metrics>> /\ g_stop' \in BOOLEAN
      BY <2>1, <3>0, Zenon DEF Signal, Exited, vars
    <3> USE <3>1 DEF Inv, fifo, main, client, stream, writer, metrics, reading
    <3>2. TypeOK'
      BY DEF TypeOK
    <3>3. QueueOwned' /\ ThreadsJoined'
      BY DEF QueueOwned, ThreadsJoined, Gone
    <3>4. CallsMatch' /\ EventsAccounted'
      BY DEF CallsMatch, NoPushRefused, EventsAccounted, One
    <3>5. CopiesOrdered'
      BY DEF CopiesOrdered
    <3> QED
      BY <3>2, <3>3, <3>4, <3>5
  <2> QED
    BY <2>1, MainKeepsInv, ClientKeepsInv, WriterKeepsInv DEF Next
<1> QED
  BY <1>1, InvInit, PTL DEF Spec

(* Every variable keeps its type: in particular the queue never holds more *)
(* than its capacity and no counter of metrics.h passes the number of      *)
(* events the server has sent.                                             *)
THEOREM TypeCorrect == Spec => []TypeOK
<1>1. Inv => TypeOK
  BY DEF Inv
<1> QED
  BY <1>1, InvHolds, PTL

(* No thread touches a queue that has been freed, and main returns, by any *)
(* path, with both threads joined and the queue gone (main.c:69-101).      *)
THEOREM QueueLifetime == Spec => []QueueOutlivesThreads
<1>1. Inv => QueueOutlivesThreads
  BY DEF Inv, TypeOK, QueueOwned, ThreadsJoined, QueueOutlivesThreads, Gone
<1> QED
  BY <1>1, InvHolds, PTL

(* No push is ever refused: the queue is closed only after the client has  *)
(* been joined (main.c:96-99, geyser_client.c:142-144).                    *)
THEOREM PushAccepted == Spec => []NoPushRefused
<1>1. Inv => NoPushRefused
  BY DEF Inv, CallsMatch
<1> QED
  BY <1>1, InvHolds, PTL

(* What main prints adds up, whatever the threads do between its reads of  *)
(* the counters, and the last summary is exact (metrics.c:26-75).          *)
THEOREM SummaryCorrect == Spec => []SummaryConsistent
<1>1. Inv => SummaryConsistent
  <2> SUFFICES ASSUME Inv, mpc = "summary", unread = {}
               PROVE  /\ summary["events_total"] <= summary["queue_pops"]
                      /\ summary["events_total"] <= summary["queue_pushes"]
                      /\ queue = "freed" =>
                           /\ summary["queue_pushes"] = sent
                           /\ summary["events_total"] = summary["queue_pops"]
                           /\ summary["queue_pops"] + Len(items) = sent
    BY DEF SummaryConsistent
  <2>1. /\ summary["events_total"] <= summary["queue_pops"]
        /\ summary["events_total"] <= summary["queue_pushes"]
    BY DEF Inv, CopiesOrdered, Counters
  <2>2. ASSUME queue = "freed"
        PROVE  /\ summary["queue_pushes"] = sent
               /\ summary["events_total"] = summary["queue_pops"]
               /\ summary["queue_pops"] + Len(items) = sent
    <3>1. cpc # "push" /\ wpc # "count"
      BY <2>2 DEF Inv, ThreadsJoined, Gone
    <3>2. \A c \in Counters : summary[c] = g_metrics[c]
      BY <2>2 DEF Inv, CopiesOrdered
    <3> QED
      BY <3>1, <3>2 DEF Inv, TypeOK, EventsAccounted, Counters, One
  <2> QED
    BY <2>1, <2>2
<1> QED
  BY <1>1, InvHolds, PTL

-----------------------------------------------------------------------------
(* The safety halves of PushReturns and ShutdownCompletes                  *)

(* The writer is in its loop and will come back to event_queue_pop.        *)
WriterServes == writer_running /\ wpc \in {"test", "call", "pop", "count", "flush"}

(* A push that waits for room waits for a thread that will make some: as   *)
(* long as the client is inside event_queue_push the writer has not been   *)
(* told to stop and the queue is not closed (main.c:96-99).                *)
PushHasConsumer == cpc = "push" => WriterServes /\ ~closed

(* Where main is while the writer serves.                                  *)
ServesUntilStopped ==
  (mpc \in {"start_client", "run", "stop_client", "join_client"}
     \/ (mpc \in {"snapshot", "summary"} /\ queue = "live"))
    => WriterServes

LEMMA WriterServing == Spec => []ServesUntilStopped
<1>1. Init => ServesUntilStopped
  BY DEF Init, ServesUntilStopped
<1>2. Inv /\ ServesUntilStopped /\ [Next]_vars => ServesUntilStopped'
  <2> SUFFICES ASSUME Inv, ServesUntilStopped, [Next]_vars PROVE ServesUntilStopped'
    OBVIOUS
  <2>1. CASE MainStep
    <3>1. CASE CreateQueue \/ StartWriter
      BY <3>1 DEF CreateQueue, StartWriter, Fail, ServesUntilStopped, WriterServes
    <3>2. CASE StartClient \/ RunLoop \/ StopClient \/ JoinClient
      BY <3>2 DEF StartClient, RunLoop, StopClient, JoinClient, writer, ServesUntilStopped,
        WriterServes, Inv, QueueOwned
    <3>3. CASE StopWriter \/ CloseQueue \/ JoinWriter \/ Destroy
      BY <3>3 DEF StopWriter, CloseQueue, JoinWriter, Destroy, ServesUntilStopped
    <3>4. CASE Snapshot \/ ReadCounter \/ EndSummary
      BY <3>4 DEF Snapshot, ReadCounter, EndSummary, main, writer, ServesUntilStopped,
        WriterServes, Inv, QueueOwned, TypeOK
    <3> QED
      BY <2>1, <3>1, <3>2, <3>3, <3>4 DEF MainStep
  <2>2. CASE WriterStep
    BY <2>2 DEF WriterStep, WriterTest, WriterCallsPop, WriterPop, WriterCounts, WriterFlush,
      WriterFinal, WriterGoes, main, ServesUntilStopped, WriterServes
  <2>3. CASE Signal \/ ClientStep \/ ServerAccepts \/ ServerSends \/ CallEnds \/ Exited
             \/ UNCHANGED vars
    <3>1. UNCHANGED <<main, writer>>
      BY <2>3 DEF Signal, ClientStep, ClientLoop, ClientConnect, ClientConnectFails,
        ClientRecvTest, ClientLeavesLoop, ClientPush, ClientSeesEnd, ClientGetsStatus, ClientReturns, ClientGoes,
        ServerAccepts, ServerSends, CallEnds, Exited, vars
    <3> QED
      BY <3>1 DEF main, writer, ServesUntilStopped, WriterServes
  <2> QED
    BY <2>1, <2>2, <2>3 DEF Next
<1> QED
  BY <1>1, <1>2, InvHolds, PTL DEF Spec

(* No order of the three threads leaves the client in a push for which the *)
(* writer is not there any more to make room; that its calls to the        *)
(* database return is another matter (main.c:96-99, event_queue.c:52-54).  *)
THEOREM PushIsServed == Spec => []PushHasConsumer
<1>1. Inv /\ ServesUntilStopped => PushHasConsumer
  BY DEF Inv, TypeOK, ThreadsJoined, QueueOwned, Gone, ServesUntilStopped, PushHasConsumer
<1> QED
  BY <1>1, InvHolds, WriterServing, PTL

(* The most moves main, the client and the writer can make from each place *)
(* until they end, when none of them goes round its loop again.  The last  *)
(* summary is the one after the queue has been freed.                      *)
MainLeft ==
  [create |-> 14, start_writer |-> 13, start_client |-> 12, snapshot |-> 11, summary |-> 10,
   run |-> 9, stop_client |-> 8, join_client |-> 7, stop_writer |-> 6, close |-> 5,
   join_writer |-> 4, destroy |-> 3, exit |-> 0]
LastSummary == [snapshot |-> 2, summary |-> 1, exit |-> 0]
MainSteps == IF queue = "freed" THEN LastSummary[mpc] ELSE MainLeft[mpc]

ClientLeft ==
  [connect |-> 9, handshake |-> 8, recv |-> 7, push |-> 6, recv_test |-> 5, status |-> 4,
   teardown |-> 3, loop |-> 2, done |-> 1, joined |-> 0]

WriterLeft ==
  [call |-> 7, pop |-> 6, count |-> 5, flush |-> 4, test |-> 3, final |-> 2, done |-> 1,
   joined |-> 0]

(* After the signal every move of main brings it nearer to its return, a   *)
(* summary it is in the middle of included; a thread that has been told to *)
(* stop is not told otherwise, and every move brings it nearer to its join *)
(* (main.c:84-105).                                                        *)
MainWindsDown ==
  g_stop => /\ g_stop'
            /\ mpc' # mpc => MainSteps' < MainSteps
            /\ mpc' = mpc => unread' \subseteq unread

ClientWindsDown ==
  (~client_running /\ cpc # "absent") =>
    ~client_running' /\ (cpc' # cpc => ClientLeft[cpc'] < ClientLeft[cpc])

WriterWindsDown ==
  (~writer_running /\ wpc # "absent") =>
    ~writer_running' /\ (wpc' # wpc => WriterLeft[wpc'] < WriterLeft[wpc])

ShutdownWindsDown == MainWindsDown /\ ClientWindsDown /\ WriterWindsDown

LEMMA MainDescends ==
  ASSUME Inv, [Next]_vars
  PROVE  MainWindsDown
<1>1. CASE MainStep
  <2>0. g_stop' = g_stop
    BY <1>1 DEF MainStep, CreateQueue, StartWriter, StartClient, RunLoop, StopClient, JoinClient,
      StopWriter, CloseQueue, JoinWriter, Destroy, Snapshot, ReadCounter, EndSummary
  <2>1. CASE CreateQueue \/ StartWriter \/ StartClient
    BY <2>0, <2>1 DEF CreateQueue, StartWriter, StartClient, Fail, MainWindsDown, MainSteps,
      MainLeft, LastSummary, Inv, QueueOwned
  <2>2. CASE RunLoop \/ StopClient \/ JoinClient
    BY <2>0, <2>2 DEF RunLoop, StopClient, JoinClient, MainWindsDown, MainSteps, MainLeft,
      Inv, QueueOwned
  <2>3. CASE StopWriter \/ CloseQueue \/ JoinWriter
    BY <2>0, <2>3 DEF StopWriter, CloseQueue, JoinWriter, MainWindsDown, MainSteps, MainLeft,
      Inv, QueueOwned
  <2>4. CASE Destroy
    BY <2>0, <2>4 DEF Destroy, MainWindsDown, MainSteps, MainLeft, LastSummary, Inv, QueueOwned
  <2>5. CASE Snapshot
    BY <2>0, <2>5 DEF Snapshot, MainWindsDown, MainSteps, MainLeft, LastSummary
  <2>6. CASE ReadCounter
    BY <2>0, <2>6 DEF ReadCounter, Read, main, MainWindsDown
  <2>7. CASE EndSummary
    BY <2>0, <2>7 DEF EndSummary, MainWindsDown, MainSteps, MainLeft, LastSummary
  <2> QED
    BY <1>1, <2>1, <2>2, <2>3, <2>4, <2>5, <2>6, <2>7 DEF MainStep
<1>2. CASE ClientStep \/ ServerAccepts \/ ServerSends \/ CallEnds \/ WriterStep \/ Signal
           \/ Exited \/ UNCHANGED vars
  <2>1. UNCHANGED <<main, reading>> /\ g_stop' \in {g_stop, TRUE}
    BY <1>2 DEF ClientStep, ClientLoop, ClientConnect, ClientConnectFails, ClientRecvTest,
      ClientLeavesLoop, ClientPush, ClientSeesEnd, ClientGetsStatus, ClientReturns, ClientGoes, ServerAccepts,
      ServerSends, CallEnds, WriterStep, WriterTest, WriterCallsPop, WriterPop, WriterCounts,
      WriterFlush, WriterFinal, WriterGoes, Signal, Exited, vars, metrics
  <2> QED
    BY <2>1 DEF main, reading, MainWindsDown
<1> QED
  BY <1>1, <1>2 DEF Next

LEMMA ClientDescends ==
  ASSUME Inv, [Next]_vars
  PROVE  ClientWindsDown
<1>1. CASE ClientStep
  BY <1>1 DEF ClientStep, ClientLoop, ClientConnect, ClientConnectFails, ClientRecvTest,
    ClientLeavesLoop, ClientPush, ClientSeesEnd, ClientGetsStatus, ClientReturns, ClientGoes, ClientWindsDown,
    ClientLeft
<1>2. CASE ServerAccepts \/ ServerSends \/ CallEnds
  BY <1>2 DEF ServerAccepts, ServerSends, CallEnds, ClientGoes, ClientWindsDown, ClientLeft
<1>3. CASE JoinClient \/ StopClient \/ StartClient
  BY <1>3 DEF JoinClient, StopClient, StartClient, ClientWindsDown, ClientLeft, Inv, ThreadsJoined
<1>4. CASE CreateQueue \/ StartWriter \/ RunLoop \/ StopWriter \/ CloseQueue \/ JoinWriter
           \/ Destroy \/ Snapshot \/ ReadCounter \/ EndSummary \/ WriterStep \/ Signal \/ Exited
           \/ UNCHANGED vars
  <2>1. UNCHANGED client
    BY <1>4 DEF CreateQueue, StartWriter, RunLoop, StopWriter, CloseQueue, JoinWriter, Destroy,
      Snapshot, ReadCounter, EndSummary, WriterStep, WriterTest, WriterCallsPop, WriterPop,
      WriterCounts, WriterFlush, WriterFinal, WriterGoes, Signal, Exited, vars
  <2> QED
    BY <2>1 DEF client, ClientWindsDown
<1> QED
  BY <1>1, <1>2, <1>3, <1>4 DEF Next, MainStep

LEMMA WriterDescends ==
  ASSUME Inv, [Next]_vars
  PROVE  WriterWindsDown
<1>1. CASE WriterStep
  <2>1. /\ writer_running' = writer_running
        /\ \/ wpc = "test" /\ wpc' = IF writer_running THEN "call" ELSE "final"
           \/ wpc = "call" /\ wpc' = "pop"
           \/ wpc = "pop" /\ wpc' \in {"count", "flush"}
           \/ wpc = "count" /\ wpc' = "flush"
           \/ wpc = "flush" /\ wpc' = "test"
           \/ wpc = "final" /\ wpc' = "done"
    BY <1>1, Zenon DEF WriterStep, WriterTest, WriterCallsPop, WriterPop, WriterCounts, WriterFlush,
      WriterFinal, WriterGoes
  <2> QED
    BY <2>1 DEF WriterWindsDown, WriterLeft
<1>2. CASE StartWriter \/ StopWriter \/ JoinWriter
  BY <1>2 DEF StartWriter, StopWriter, JoinWriter, writer, WriterWindsDown, WriterLeft, Inv,
    ThreadsJoined
<1>3. CASE CreateQueue \/ StartClient \/ RunLoop \/ StopClient \/ JoinClient \/ CloseQueue
           \/ Destroy \/ Snapshot \/ ReadCounter \/ EndSummary \/ ClientStep \/ ServerAccepts
           \/ ServerSends \/ CallEnds \/ Signal \/ Exited \/ UNCHANGED vars
  <2>1. UNCHANGED writer
    BY <1>3 DEF CreateQueue, StartClient, RunLoop, StopClient, JoinClient, CloseQueue, Destroy,
      Snapshot, ReadCounter, EndSummary, ClientStep, ClientLoop, ClientConnect,
      ClientConnectFails, ClientRecvTest, ClientLeavesLoop, ClientPush, ClientSeesEnd,
      ClientGetsStatus, ClientReturns, ClientGoes, ServerAccepts, ServerSends, CallEnds, Signal, Exited, vars
  <2> QED
    BY <2>1 DEF writer, WriterWindsDown
<1> QED
  BY <1>1, <1>2, <1>3 DEF Next, MainStep

(* A signal is never forgotten, and of what main waits for on its way out  *)
(* each thread can only come nearer to its end: what can hold up the       *)
(* shutdown is one wait, of the client for the server, for room or for a   *)
(* status, or of the writer for the database (main.c:84-105).              *)
THEOREM ShutdownIsBounded == Spec => [][ShutdownWindsDown]_vars
<1>1. Inv /\ [Next]_vars => [ShutdownWindsDown]_vars
  BY MainDescends, ClientDescends, WriterDescends DEF ShutdownWindsDown
<1> QED
  BY <1>1, InvHolds, PTL DEF Spec
=============================================================================
