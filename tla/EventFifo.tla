----------------------------- MODULE EventFifo -----------------------------
(***************************************************************************)
(* What the bridge's input queue promises to its callers: a bounded FIFO.  *)
(* A producer offers one event at a time; the event is either appended, or *)
(* refused because the queue is full at that moment.  The compositor takes *)
(* events in the order in which they were accepted, each exactly once.     *)
(* A new compositor run starts with an empty queue.                        *)
(***************************************************************************)
EXTENDS Naturals, Sequences

CONSTANTS
  Producers,   \* the threads that offer events
  Event,       \* the events
  NoEvent,     \* "nothing offered" and "nothing delivered yet"
  Capacity     \* the number of events the queue can hold

VARIABLES
  offer,       \* offer[p]: the event p is trying to queue, or NoEvent
  queue,       \* the accepted events that are not delivered yet, oldest first
  out          \* the event delivered last

vars == <<offer, queue, out>>

Init ==
  /\ offer = [p \in Producers |-> NoEvent]
  /\ queue = <<>>
  /\ out = NoEvent

Offer(p, e) ==
  /\ offer[p] = NoEvent
  /\ offer' = [offer EXCEPT ![p] = e]
  /\ UNCHANGED <<queue, out>>

Accept(p) ==
  /\ offer[p] # NoEvent
  /\ Len(queue) < Capacity
  /\ queue' = Append(queue, offer[p])
  /\ offer' = [offer EXCEPT ![p] = NoEvent]
  /\ UNCHANGED out

Refuse(p) ==
  /\ offer[p] # NoEvent
  /\ Len(queue) = Capacity
  /\ offer' = [offer EXCEPT ![p] = NoEvent]
  /\ UNCHANGED <<queue, out>>

Deliver ==
  /\ queue # <<>>
  /\ out' = Head(queue)
  /\ queue' = Tail(queue)
  /\ UNCHANGED offer

Clear ==
  /\ queue' = <<>>
  /\ UNCHANGED <<offer, out>>

Next ==
  \/ \E p \in Producers : \/ \E e \in Event : Offer(p, e)
                          \/ Accept(p)
                          \/ Refuse(p)
  \/ Deliver
  \/ Clear

Spec == Init /\ [][Next]_vars
=============================================================================
