------------------------------ MODULE Pipeline ------------------------------
(***************************************************************************)
(* src/main.c: the process.  main creates the queue, starts the database   *)
(* writer and the Geyser client, waits for a signal, and stops and frees   *)
(* them in a fixed order.  This module composes the three threads through  *)
(* the queue, which is BoundedFifo, the specification EventQueue has been  *)
(* shown to implement; of the client and of the writer it keeps what they  *)
(* do to the queue, to their running flags and to each other (GeyserClient *)
(* and DbWriter have the rest).  The counters of metrics.h that the two    *)
(* threads keep of the queue are here too, with the summaries main makes   *)
(* of them while they change.                                              *)
(***************************************************************************)
EXTENDS Naturals, Sequences

CONSTANTS Event,      \* an event, the pipeline does not look inside
          NoEvent,
          Capacity,   \* config.queue_capacity
          MaxEvents   \* bound: events the server sends

ASSUME PipelineAssumption ==
  Capacity \in Nat \ {0} /\ MaxEvents \in Nat /\ NoEvent # Event

Client == "client"
Writer == "writer"

VARIABLES items, closed, status, event, block, out,  \* the queue and the calls to it
          queue,           \* "none", "live" or "freed"
          mpc,             \* where main is
          exit_code,       \* what main returns
          g_stop,          \* set by the signal handler
          cpc,             \* where the client thread is
          client_running,  \* client->running
          call,            \* the client's gRPC call
          status_started,  \* the batch for its status was started
          wpc,             \* where the writer thread is
          writer_running,  \* writer->running
          sent,            \* events the server has sent
          g_metrics,       \* queue_pushes, queue_pops and events_total
          summary,         \* main's copies of them
          unread           \* those it has yet to read for the next summary

fifo == <<items, closed, status, event, block, out>>
main == <<queue, mpc, exit_code>>
stream == <<call, status_started>>
client == <<cpc, client_running, stream, sent>>
writer == <<wpc, writer_running>>
reading == <<summary, unread>>
metrics == <<g_metrics, reading>>
vars == <<fifo, main, g_stop, client, writer, metrics>>

Counters == {"queue_pushes", "queue_pops", "events_total"}

Zero == [c \in Counters |-> 0]

Count(counter) == g_metrics' = [g_metrics EXCEPT ![counter] = @ + 1]

Fifo == INSTANCE BoundedFifo
          WITH Producers <- {Client}, Consumers <- {Writer}, Events <- {Event}

TypeOK ==
  /\ items \in Seq({Event}) /\ Len(items) <= Capacity
  /\ closed \in BOOLEAN /\ g_stop \in BOOLEAN
  /\ status \in [{Client, Writer} -> {"none", "pending", "ok", "refused"}]
  /\ queue \in {"none", "live", "freed"}
  /\ mpc \in {"create", "start_writer", "start_client", "run", "stop_client", "join_client",
              "stop_writer", "close", "join_writer", "destroy", "snapshot", "summary", "exit"}
  /\ exit_code \in {"none", "success", "failure"}
  /\ cpc \in {"absent", "loop", "connect", "handshake", "recv_test", "recv", "push",
              "status", "teardown", "done", "joined"}
  /\ wpc \in {"absent", "test", "call", "pop", "count", "flush", "final", "done", "joined"}
  /\ client_running \in BOOLEAN /\ writer_running \in BOOLEAN
  /\ call \in {"none", "open", "ended"} /\ status_started \in BOOLEAN
  /\ sent \in 0 .. MaxEvents
  /\ {g_metrics, summary} \subseteq [Counters -> 0 .. MaxEvents] /\ unread \subseteq Counters

Init ==
  /\ Fifo!Init
  /\ queue = "none" /\ mpc = "create" /\ exit_code = "none" /\ g_stop = FALSE
  /\ cpc = "absent" /\ client_running = FALSE /\ call = "none" /\ sent = 0
  /\ status_started = FALSE
  /\ wpc = "absent" /\ writer_running = FALSE
  /\ g_metrics = Zero /\ summary = Zero /\ unread = Counters

-----------------------------------------------------------------------------
(* main *)

(* handle_signal, at any time after main has installed it.                 *)
Signal ==
  /\ ~g_stop /\ mpc # "exit"
  /\ g_stop' = TRUE
  /\ UNCHANGED <<fifo, main, client, writer, metrics>>

Fail == mpc' = "exit" /\ exit_code' = "failure"

(* yurei_config_load and event_queue_create, each of which may fail.       *)
CreateQueue ==
  /\ mpc = "create"
  /\ \/ queue' = "live" /\ mpc' = "start_writer" /\ UNCHANGED exit_code
     \/ UNCHANGED queue /\ Fail
  /\ UNCHANGED <<fifo, g_stop, client, writer, metrics>>

StartWriter ==
  /\ mpc = "start_writer"
  /\ \/ /\ wpc' = "test" /\ writer_running' = TRUE
        /\ mpc' = "start_client" /\ UNCHANGED <<queue, exit_code>>
     \/ queue' = "freed" /\ Fail /\ UNCHANGED writer
  /\ UNCHANGED <<fifo, g_stop, client, metrics>>

(* When the client cannot be started the writer is stopped again.          *)
StartClient ==
  /\ mpc = "start_client"
  /\ \/ /\ cpc' = "loop" /\ client_running' = TRUE
        /\ mpc' = "run" /\ UNCHANGED exit_code
     \/ /\ mpc' = "stop_writer" /\ exit_code' = "failure"
        /\ UNCHANGED <<cpc, client_running>>
  /\ UNCHANGED <<fifo, queue, g_stop, stream, sent, writer, metrics>>

(* while (!g_stop): the sleep ends and it is time for a summary, or the    *)
(* loop is left.                                                           *)
RunLoop ==
  /\ mpc = "run"
  /\ mpc' = IF g_stop THEN "stop_client" ELSE "snapshot"
  /\ UNCHANGED <<fifo, queue, exit_code, g_stop, client, writer, metrics>>

(* Both threads told to stop at once.                                      *)
StopClient_StopsBoth ==
  /\ mpc = "stop_client"
  /\ mpc' = "join_client" /\ client_running' = FALSE /\ writer_running' = FALSE
  /\ UNCHANGED <<fifo, queue, exit_code, g_stop, cpc, stream, sent, wpc, metrics>>

(* geyser_client_stop *)
StopClient ==
  /\ mpc = "stop_client"
  /\ mpc' = "join_client" /\ client_running' = FALSE
  /\ UNCHANGED <<fifo, queue, exit_code, g_stop, cpc, stream, sent, writer, metrics>>

(* A client that is told to stop and not waited for.                       *)
JoinClient_Detaches ==
  /\ mpc = "join_client"
  /\ mpc' = "stop_writer"
  /\ UNCHANGED <<fifo, queue, exit_code, g_stop, client, writer, metrics>>

JoinClient ==
  /\ mpc = "join_client" /\ cpc = "done"
  /\ mpc' = "stop_writer" /\ cpc' = "joined"
  /\ UNCHANGED <<fifo, queue, exit_code, g_stop, client_running, stream, sent, writer, metrics>>

(* db_writer_stop *)
StopWriter ==
  /\ mpc = "stop_writer"
  /\ mpc' = "close" /\ writer_running' = FALSE
  /\ UNCHANGED <<fifo, queue, exit_code, g_stop, client, wpc, metrics>>

CloseQueue ==
  /\ mpc = "close"
  /\ Fifo!Close
  /\ mpc' = "join_writer"
  /\ UNCHANGED <<queue, exit_code, g_stop, client, writer, metrics>>

(* A writer that is told to stop and not waited for.                       *)
JoinWriter_Detaches ==
  /\ mpc = "join_writer"
  /\ mpc' = "destroy"
  /\ UNCHANGED <<fifo, queue, exit_code, g_stop, client, writer, metrics>>

JoinWriter ==
  /\ mpc = "join_writer" /\ wpc = "done"
  /\ mpc' = "destroy" /\ wpc' = "joined"
  /\ UNCHANGED <<fifo, queue, exit_code, g_stop, client, writer_running, metrics>>

(* event_queue_destroy, and, unless main has failed, the final statistics. *)
Destroy ==
  /\ mpc = "destroy" /\ queue' = "freed"
  /\ mpc' = IF exit_code = "none" THEN "snapshot" ELSE "exit"
  /\ UNCHANGED <<fifo, exit_code, g_stop, client, writer, metrics>>

Read(counter) ==
  /\ summary' = [summary EXCEPT ![counter] = g_metrics[counter]]
  /\ unread' = unread \ {counter}

(* events_total left to the end, after the counters of the queue.          *)
Snapshot_TotalLast ==
  /\ mpc = "snapshot" /\ mpc' = "summary"
  /\ Read("queue_pops")
  /\ UNCHANGED <<fifo, queue, exit_code, g_stop, client, writer, g_metrics>>

(* metrics_snapshot *)
Snapshot ==
  /\ mpc = "snapshot" /\ mpc' = "summary"
  /\ Read("events_total")
  /\ UNCHANGED <<fifo, queue, exit_code, g_stop, client, writer, g_metrics>>

(* The arguments of the line about the queue: C leaves their order open.   *)
ReadCounter ==
  /\ mpc = "summary"
  /\ \E counter \in unread : Read(counter)
  /\ UNCHANGED <<fifo, main, g_stop, client, writer, g_metrics>>

(* The summary is out: on with the loop or, after the last one, return.    *)
EndSummary ==
  /\ mpc = "summary" /\ unread = {}
  /\ summary' = Zero /\ unread' = Counters
  /\ IF queue = "freed" THEN mpc' = "exit" /\ exit_code' = "success"
                        ELSE mpc' = "run" /\ UNCHANGED exit_code
  /\ UNCHANGED <<fifo, queue, g_stop, client, writer, g_metrics>>

MainStep ==
  \/ CreateQueue \/ StartWriter \/ StartClient \/ RunLoop \/ StopClient \/ JoinClient
  \/ StopWriter \/ CloseQueue \/ JoinWriter \/ Destroy
  \/ Snapshot \/ ReadCounter \/ EndSummary

-----------------------------------------------------------------------------
(* The client thread: geyser_thread and run_subscription                   *)

ClientGoes(from, to) ==
  /\ cpc = from /\ cpc' = to
  /\ UNCHANGED <<fifo, main, g_stop, client_running, stream, sent, writer, metrics>>

ClientLoop == ClientGoes("loop", IF client_running THEN "connect" ELSE "done")

(* The handshake is started, the status perhaps not: nobody looks.         *)
ClientConnect ==
  /\ cpc = "connect"
  /\ cpc' = "handshake" /\ call' = "open" /\ status_started' \in BOOLEAN
  /\ UNCHANGED <<fifo, main, g_stop, client_running, sent, writer, metrics>>

(* The request cannot be built or its batch cannot be started.             *)
ClientConnectFails == ClientGoes("connect", "loop")

(* The server accepts; nothing obliges it to.                              *)
ServerAccepts == ClientGoes("handshake", "recv_test")

ClientRecvTest == client_running /\ ClientGoes("recv_test", "recv")

(* Not running any more, or the receive cannot be started.                 *)
ClientLeavesLoop == ClientGoes("recv_test", "status")

(* A transaction with an event arrives and is pushed.                      *)
ServerSends ==
  /\ cpc = "recv" /\ call # "none" /\ sent < MaxEvents
  /\ sent' = sent + 1
  /\ cpc' = "push"
  /\ Fifo!CallPush(Client, Event)
  /\ UNCHANGED <<main, g_stop, client_running, stream, writer, metrics>>

(* event_queue_push returns: accepted, or refused by a closed queue.       *)
ClientPush ==
  /\ cpc = "push" /\ cpc' = "recv_test"
  /\ \/ Fifo!Push(Client) /\ Count("queue_pushes")
     \/ Fifo!RefusePush(Client) /\ UNCHANGED g_metrics
  /\ UNCHANGED <<main, g_stop, client_running, stream, sent, writer, reading>>

CallEnds ==
  /\ call = "open" /\ call' = "ended"
  /\ UNCHANGED <<fifo, main, g_stop, cpc, client_running, status_started, sent, writer, metrics>>

(* Waits that the end of the call ends: for the handshake, which then      *)
(* fails, and for a message that will not come.                            *)
ClientSeesEnd ==
  /\ call = "ended"
  /\ ClientGoes("handshake", "teardown") \/ ClientGoes("recv", "status")

(* The wait for the status, without end when its batch was not started.    *)
ClientGetsStatus == call = "ended" /\ status_started /\ ClientGoes("status", "teardown")

(* Teardown, and the sleep if it is still running.                         *)
ClientReturns ==
  /\ cpc = "teardown"
  /\ cpc' = "loop" /\ call' = "none"
  /\ UNCHANGED <<fifo, main, g_stop, client_running, status_started, sent, writer, metrics>>

ClientStep ==
  \/ ClientLoop \/ ClientConnect \/ ClientConnectFails \/ ClientRecvTest
  \/ ClientLeavesLoop \/ ClientPush \/ ClientSeesEnd \/ ClientGetsStatus \/ ClientReturns

-----------------------------------------------------------------------------
(* The writer thread: db_writer_main                                       *)

WriterGoes(from, to) ==
  /\ wpc = from /\ wpc' = to
  /\ UNCHANGED <<fifo, main, g_stop, client, writer_running, metrics>>

WriterTest == WriterGoes("test", IF writer_running THEN "call" ELSE "final")

WriterCallsPop ==
  /\ wpc = "call" /\ wpc' = "pop"
  /\ Fifo!CallPop(Writer, FALSE)
  /\ UNCHANGED <<main, g_stop, client, writer_running, metrics>>

(* An event is counted by the queue with the pop, by the writer after it.  *)
WriterPop ==
  /\ wpc = "pop"
  /\ \/ wpc' = "count" /\ Fifo!Pop(Writer) /\ Count("queue_pops")
     \/ wpc' = "flush" /\ Fifo!RefusePop(Writer) /\ UNCHANGED g_metrics
  /\ UNCHANGED <<main, g_stop, client, writer_running, reading>>

WriterCounts ==
  /\ wpc = "count" /\ wpc' = "flush"
  /\ Count("events_total")
  /\ UNCHANGED <<fifo, main, g_stop, client, writer_running, reading>>

(* What it flushes, if anything, takes as long as the database takes, for  *)
(* no call to libpq has a timeout, and leaves the queue alone.             *)
WriterFlush == WriterGoes("flush", "test")
WriterFinal == WriterGoes("final", "done")
InDatabase == wpc \in {"flush", "final"}

WriterStep == WriterTest \/ WriterCallsPop \/ WriterPop \/ WriterCounts \/ WriterFlush \/ WriterFinal

Exited == mpc = "exit" /\ UNCHANGED vars

Next ==
  \/ Signal \/ MainStep \/ ClientStep \/ WriterStep
  \/ ServerAccepts \/ ServerSends \/ CallEnds
  \/ Exited

(* The three threads keep running when they can.  Nothing obliges the      *)
(* server to accept, to send or to end a call, the database to answer, or  *)
(* anyone to send a signal.                                                *)
Fairness ==
  WF_vars(MainStep) /\ WF_vars(ClientStep) /\ WF_vars(~InDatabase /\ WriterStep)

Spec == Init /\ [][Next]_vars
FairSpec == Spec /\ Fairness

(* The same with a database that always answers and a status batch that    *)
(* always starts.                                                          *)
HelpfulSpec ==
  /\ Init /\ [][Next /\ (ClientConnect => status_started')]_vars
  /\ Fairness /\ WF_vars(WriterFlush \/ WriterFinal)

-----------------------------------------------------------------------------
(* Correctness                                                             *)

Gone(p) == p \in {"absent", "joined"}

(* The queue is there whenever a thread can reach it, and when main        *)
(* returns, by any path, no thread is left and the queue has been freed    *)
(* (main.c:69-82, 99-101).                                                 *)
QueueOutlivesThreads ==
  /\ (~Gone(cpc) \/ ~Gone(wpc)) => queue = "live"
  /\ mpc = "exit" => Gone(cpc) /\ Gone(wpc) /\ queue # "live"

(* The warning of dispatch_event (geyser_client.c:142-144) never fires:    *)
(* main joins the client before db_writer_stop closes the queue, so no     *)
(* event is lost to a push that is refused.                                *)
NoPushRefused == status[Client] # "refused"

(* A summary never shows an event as taken by the writer that it does not  *)
(* show as pushed and popped, although both threads go on while main reads *)
(* the counters one by one (pops may exceed pushes, if C reads them in     *)
(* that order).  The last summary is exact: every event the server sent    *)
(* was pushed, every event popped was counted, and the difference is what  *)
(* was left in the queue (metrics.c:26-75, main.c:86-105).                 *)
SummaryConsistent ==
  (mpc = "summary" /\ unread = {}) =>
    /\ summary["events_total"] <= summary["queue_pops"]
    /\ summary["events_total"] <= summary["queue_pushes"]
    /\ queue = "freed" =>
         /\ summary["queue_pushes"] = sent
         /\ summary["events_total"] = summary["queue_pops"]
         /\ summary["queue_pops"] + Len(items) = sent

(* The wait for a status whose batch was not started.                      *)
AwaitsNoStatus == cpc = "status" /\ ~status_started

(* A process told to stop does so once the server has ended the call, even *)
(* when the client is blocked on a full queue meanwhile: the writer keeps  *)
(* making room until the client has been joined.  Three things hold it up: *)
(* a call that is still open, a status that was never started, and a       *)
(* database that does not answer.                                          *)
ShutdownCompletes ==
  (mpc = "join_client" /\ call # "open")
    ~> (mpc = "exit" \/ call = "open" \/ AwaitsNoStatus \/ []InDatabase)

(* A push that waits for room gets it (event_queue.c:52-54, 92), unless    *)
(* the writer is in a call to the database that never returns.             *)
PushReturns == (cpc = "push") ~> (cpc # "push" \/ []InDatabase)

-----------------------------------------------------------------------------
(* What the documentation says, and the code does not do                   *)

(* README.md:3 "without blocking the ingest path", README.md:138 "without  *)
(* blocking ingest": the push of the ingest thread never has to wait.      *)
IngestNeverBlocks == cpc = "push" => Len(items) < Capacity

(* db_writer.c:259 "Final flush on shutdown", main.c:103 "Final metrics    *)
(* dump": a signal leads to the flush and to the return of main.  Checked  *)
(* with a helpful database and gRPC: what is left is the server.           *)
SignalLeadsToExit == g_stop ~> (mpc = "exit")
=============================================================================
