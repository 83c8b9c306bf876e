---------------------------- MODULE BoundedFifo ----------------------------
(***************************************************************************)
(* What include/event_queue.h promises its callers: a bounded first-in     *)
(* first-out queue of events that can be closed.  Every call takes effect  *)
(* at one instant between its invocation and its return:                   *)
(*                                                                         *)
(*   - a push waits for room and then appends; it is refused only by a     *)
(*     closed queue;                                                       *)
(*   - a pop takes the oldest event; it is refused only when there is none *)
(*     and either the queue is closed or the caller asked not to block, so *)
(*     a closed queue still hands out what it holds.                       *)
(*                                                                         *)
(* There are no ring indices, locks or condition variables here: waiting   *)
(* is just the absence of an enabled step.  EventQueue implements this.    *)
(***************************************************************************)
EXTENDS Naturals, Sequences

CONSTANTS Producers,  \* threads that push
          Consumers,  \* threads that pop
          Events,     \* the values of yurei_event_t the model tells apart
          NoEvent,    \* what a pop's out parameter holds before the first success
          Capacity    \* events the queue can hold

VARIABLES items,      \* the queued events, oldest first
          closed,     \* the queue has been closed
          status,     \* of each thread's call: "none", "pending", "ok", "refused"
          event,      \* argument of each producer's pending push
          block,      \* argument of each consumer's pending pop
          out         \* what each consumer's last pop handed out

vars == <<items, closed, status, event, block, out>>

Threads == Producers \cup Consumers

Init ==
  /\ items = <<>>
  /\ closed = FALSE
  /\ status = [t \in Threads |-> "none"]
  /\ event = [p \in Producers |-> NoEvent]
  /\ block = [c \in Consumers |-> FALSE]
  /\ out = [c \in Consumers |-> NoEvent]

Becomes(t, s) == status' = [status EXCEPT ![t] = s]
DropEvent(p) == event' = [event EXCEPT ![p] = NoEvent]
DropBlock(c) == block' = [block EXCEPT ![c] = FALSE]

CallPush(p, e) ==
  /\ status[p] # "pending"
  /\ Becomes(p, "pending")
  /\ event' = [event EXCEPT ![p] = e]
  /\ UNCHANGED <<items, closed, block, out>>

(* Mutated form, to test the properties: a push that does not wait for room. *)
Push_NoRoomCheck(p) ==
  /\ status[p] = "pending"
  /\ ~closed
  /\ items' = Append(items, event[p])
  /\ Becomes(p, "ok") /\ DropEvent(p)
  /\ UNCHANGED <<closed, block, out>>

Push(p) ==
  /\ status[p] = "pending"
  /\ ~closed /\ Len(items) < Capacity
  /\ items' = Append(items, event[p])
  /\ Becomes(p, "ok") /\ DropEvent(p)
  /\ UNCHANGED <<closed, block, out>>

RefusePush(p) ==
  /\ status[p] = "pending"
  /\ closed
  /\ Becomes(p, "refused") /\ DropEvent(p)
  /\ UNCHANGED <<items, closed, block, out>>

CallPop(c, b) ==
  /\ status[c] # "pending"
  /\ Becomes(c, "pending")
  /\ block' = [block EXCEPT ![c] = b]
  /\ out' = [out EXCEPT ![c] = NoEvent]
  /\ UNCHANGED <<items, closed, event>>

Pop(c) ==
  /\ status[c] = "pending"
  /\ items # <<>>
  /\ out' = [out EXCEPT ![c] = Head(items)]
  /\ items' = Tail(items)
  /\ Becomes(c, "ok") /\ DropBlock(c)
  /\ UNCHANGED <<closed, event>>

RefusePop(c) ==
  /\ status[c] = "pending"
  /\ items = <<>>
  /\ closed \/ ~block[c]
  /\ Becomes(c, "refused") /\ DropBlock(c)
  /\ UNCHANGED <<items, closed, event, out>>

Close ==
  /\ closed' = TRUE
  /\ UNCHANGED <<items, status, event, block, out>>

Next ==
  \/ \E p \in Producers :
       \/ \E e \in Events : CallPush(p, e)
       \/ Push(p)
       \/ RefusePush(p)
  \/ \E c \in Consumers :
       \/ \E b \in BOOLEAN : CallPop(c, b)
       \/ Pop(c)
       \/ RefusePop(c)
  \/ Close

Spec == Init /\ [][Next]_vars
=============================================================================
