----------------------------- MODULE InputQueue -----------------------------
(***************************************************************************)
(* The input event queue of jni_bridge.c: the ring g_input_queue with its  *)
(* two volatile indices, queue_input() on the producing side, the drain    *)
(* loop of frame_timer_cb() on the consuming side, and the reset at the    *)
(* start of compositor_main().  Nothing in the code locks the ring, so     *)
(* one action is one access to a shared variable.                          *)
(*                                                                         *)
(* The constants choose the environment.  Producers is the set of threads  *)
(* that call queue_input(): the JNI thread, and also the compositor thread *)
(* Comp, whose frame_timer_cb() queues hover motion and the deferred press *)
(* before it drains.  OrderedStores says whether the store to a slot       *)
(* becomes visible before the store to g_input_write that follows it (the  *)
(* x86_64 build) or may be overtaken by it (the arm64 build: the slot is   *)
(* not volatile and there is no barrier).  QuietStart says whether the     *)
(* producers stay out of queue_input() while compositor_main() resets.     *)
(***************************************************************************)
EXTENDS Integers, Sequences

CONSTANTS
  Producers,         \* the threads that call queue_input()
  Comp,              \* the compositor thread
  Event,             \* what struct input_event can hold
  NoEvent,           \* a zeroed slot: type INPUT_NONE
  INPUT_QUEUE_SIZE,  \* the number of slots
  OrderedStores,     \* are the stores of queue_input() seen in program order?
  QuietStart         \* is no event being queued while the indices are reset?

ASSUME InputQueueAssumption ==
  /\ INPUT_QUEUE_SIZE \in Nat \ {0, 1}
  /\ NoEvent \notin Event
  /\ OrderedStores \in BOOLEAN
  /\ QuietStart \in BOOLEAN

VARIABLES
  g_input_queue,     \* the slots
  g_input_write,     \* the index of the next slot to fill
  g_input_read,      \* the index of the next slot to drain
  pc,                \* pc[p]: where thread p is in queue_input()
  ev,                \* ev[p]: its parameter
  next,              \* next[p]: its local variable of that name
  slot,              \* slot[p]: the slot its assignment addresses
  cpc,               \* where the compositor thread is
  got,               \* the drain loop's local copy of a slot
  out                \* the event handed to the dispatch switch last

ringVars == <<g_input_queue, g_input_write, g_input_read>>
callVars == <<pc, ev, next, slot>>
drainVars == <<cpc, got, out>>
vars == <<ringVars, callVars, drainVars>>

Slots == 0 .. INPUT_QUEUE_SIZE - 1
Succ(i) == (i + 1) % INPUT_QUEUE_SIZE

TypeOK ==
  /\ g_input_queue \in [Slots -> Event \cup {NoEvent}]
  /\ g_input_write \in Slots
  /\ g_input_read \in Slots
  /\ pc \in [Producers -> {"idle", "full?", "address", "store", "slot", "index"}]
  /\ ev \in [Producers -> Event \cup {NoEvent}]
  /\ next \in [Producers -> Slots]
  /\ slot \in [Producers -> Slots]
  /\ cpc \in {"down", "reset", "idle", "tick", "drain", "copy", "advance"}
  /\ got \in Event \cup {NoEvent}
  /\ out \in Event \cup {NoEvent}

(* Static initialisation; no compositor thread yet. *)
Init ==
  /\ g_input_queue = [i \in Slots |-> NoEvent]
  /\ g_input_write = 0
  /\ g_input_read = 0
  /\ pc = [p \in Producers |-> "idle"]
  /\ ev = [p \in Producers |-> NoEvent]
  /\ next = [p \in Producers |-> 0]
  /\ slot = [p \in Producers |-> 0]
  /\ cpc = "down"
  /\ got = NoEvent
  /\ out = NoEvent

-----------------------------------------------------------------------------
(* Faulty variants of the actions below, to see that the properties notice *)
(* the mistakes they are about.                                            *)

CallNoWrap(p, e) ==      \* the index is not wrapped
  /\ pc[p] = "idle"
  /\ p = Comp => cpc = "tick"
  /\ QuietStart => cpc # "reset"
  /\ ev' = [ev EXCEPT ![p] = e]
  /\ next' = [next EXCEPT ![p] = g_input_write + 1]
  /\ pc' = [pc EXCEPT ![p] = "full?"]
  /\ UNCHANGED <<ringVars, slot, drainVars>>

NotFullUnchecked(p) ==   \* no full test
  /\ pc[p] = "full?"
  /\ pc' = [pc EXCEPT ![p] = "address"]
  /\ UNCHANGED <<ringVars, ev, next, slot, drainVars>>

CopyNextSlot ==          \* the index is advanced before the copy
  /\ cpc = "copy"
  /\ got' = g_input_queue[Succ(g_input_read)]
  /\ cpc' = "advance"
  /\ UNCHANGED <<ringVars, callVars, out>>

AdvanceNowhere ==        \* the index is not advanced
  /\ cpc = "advance"
  /\ out' = got
  /\ cpc' = "drain"
  /\ UNCHANGED <<ringVars, callVars, got>>

-----------------------------------------------------------------------------
(* queue_input(), called by a JNI function at any time and by the          *)
(* compositor thread inside a tick, before it drains.                      *)

(* int next = (g_input_write + 1) % INPUT_QUEUE_SIZE; *)
Call(p, e) ==
  /\ pc[p] = "idle"
  /\ p = Comp => cpc = "tick"
  /\ QuietStart => cpc # "reset"
  /\ ev' = [ev EXCEPT ![p] = e]
  /\ next' = [next EXCEPT ![p] = Succ(g_input_write)]
  /\ pc' = [pc EXCEPT ![p] = "full?"]
  /\ UNCHANGED <<ringVars, slot, drainVars>>

(* if (next == g_input_read) return;   The event is dropped. *)
Full(p) ==
  /\ pc[p] = "full?"
  /\ next[p] = g_input_read
  /\ pc' = [pc EXCEPT ![p] = "idle"]
  /\ UNCHANGED <<ringVars, ev, next, slot, drainVars>>

NotFull(p) ==
  /\ pc[p] = "full?"
  /\ next[p] # g_input_read
  /\ pc' = [pc EXCEPT ![p] = "address"]
  /\ UNCHANGED <<ringVars, ev, next, slot, drainVars>>

(* The subscript of g_input_queue[g_input_write] reads the index again. *)
Address(p) ==
  /\ pc[p] = "address"
  /\ slot' = [slot EXCEPT ![p] = g_input_write]
  /\ pc' = [pc EXCEPT ![p] = "store"]
  /\ UNCHANGED <<ringVars, ev, next, drainVars>>

(* g_input_queue[...] = ev; *)
Store(p) ==
  /\ pc[p] \in {"store", "slot"}
  /\ g_input_queue' = [g_input_queue EXCEPT ![slot[p]] = ev[p]]
  /\ pc' = [pc EXCEPT ![p] = IF pc[p] = "store" THEN "index" ELSE "idle"]
  /\ UNCHANGED <<g_input_write, g_input_read, ev, next, slot, drainVars>>

(* g_input_write = next; *)
Publish(p) ==
  /\ \/ pc[p] = "index"
     \/ pc[p] = "store" /\ ~OrderedStores
  /\ g_input_write' = next[p]
  /\ pc' = [pc EXCEPT ![p] = IF pc[p] = "index" THEN "idle" ELSE "slot"]
  /\ UNCHANGED <<g_input_queue, g_input_read, ev, next, slot, drainVars>>

QueueInput(p) ==
  Full(p) \/ NotFull(p) \/ Address(p) \/ Store(p) \/ Publish(p)

-----------------------------------------------------------------------------
(* The compositor thread. *)

(* compositor_main(): g_input_read = 0; *)
ResetRead ==
  /\ cpc = "down"
  /\ QuietStart => \A p \in Producers : pc[p] = "idle"
  /\ g_input_read' = 0
  /\ cpc' = "reset"
  /\ UNCHANGED <<g_input_queue, g_input_write, callVars, got, out>>

(* g_input_write = 0;   The event loop follows. *)
ResetWrite ==
  /\ cpc = "reset"
  /\ g_input_write' = 0
  /\ cpc' = "idle"
  /\ UNCHANGED <<g_input_queue, g_input_read, callVars, got, out>>

(* wl_display_run() returns: the thread ends between two ticks. *)
Stop ==
  /\ cpc = "idle"
  /\ cpc' = "down"
  /\ UNCHANGED <<ringVars, callVars, got, out>>

(* The frame timer fires; every tick re-arms it. *)
Tick ==
  /\ cpc = "idle"
  /\ cpc' = "tick"
  /\ UNCHANGED <<ringVars, callVars, got, out>>

(* while (g_input_read != g_input_write) *)
DrainTest ==
  /\ cpc \in {"tick", "drain"}
  /\ Comp \in Producers => pc[Comp] = "idle"
  /\ cpc' = IF g_input_read # g_input_write THEN "copy" ELSE "idle"
  /\ UNCHANGED <<ringVars, callVars, got, out>>

(* struct input_event ev = g_input_queue[g_input_read]; *)
Copy ==
  /\ cpc = "copy"
  /\ got' = g_input_queue[g_input_read]
  /\ cpc' = "advance"
  /\ UNCHANGED <<ringVars, callVars, out>>

(* g_input_read = (g_input_read + 1) % INPUT_QUEUE_SIZE;  the copied event *)
(* is then dispatched by the same thread.                                  *)
Advance ==
  /\ cpc = "advance"
  /\ g_input_read' = Succ(g_input_read)
  /\ out' = got
  /\ cpc' = "drain"
  /\ UNCHANGED <<g_input_queue, g_input_write, callVars, got>>

Drain == DrainTest \/ Copy \/ Advance

Next ==
  \/ \E p \in Producers : (\E e \in Event : Call(p, e)) \/ QueueInput(p)
  \/ ResetRead \/ ResetWrite \/ Stop \/ Tick
  \/ Drain

(* The compositor thread is scheduled and its timer re-armed; a thread     *)
(* inside queue_input() runs on.  Nobody is obliged to queue an event, to  *)
(* start the compositor or to stop it.                                     *)
Fairness ==
  /\ WF_vars(ResetWrite \/ Tick \/ Drain)
  /\ \A p \in Producers : WF_vars(QueueInput(p))

Spec == Init /\ [][Next]_vars
FairSpec == Spec /\ Fairness

-----------------------------------------------------------------------------
(* Properties. *)

(* The number of events from read index r up to write index w, the slot of *)
(* the i-th of them, and the events in the order of the drain loop.        *)
Used(r, w) == IF w >= r THEN w - r ELSE w + INPUT_QUEUE_SIZE - r
At(r, i) == (r + i - 1) % INPUT_QUEUE_SIZE
Events(q, r, w) == [i \in 1 .. Used(r, w) |-> q[At(r, i)]]

Content ==
  IF cpc = "reset"
  THEN <<>>
  ELSE Events(g_input_queue, g_input_read, g_input_write)

Offered ==
  [p \in Producers |-> IF pc[p] \in {"idle", "slot"} THEN NoEvent ELSE ev[p]]

Fifo == INSTANCE EventFifo WITH
          Capacity <- INPUT_QUEUE_SIZE - 1,
          offer <- Offered,
          queue <- Content,
          out <- out

(* The ring is a bounded FIFO: every event that queue_input() accepts is   *)
(* dispatched exactly once and in order, an event is dropped only when the *)
(* ring holds INPUT_QUEUE_SIZE - 1 events, and a new compositor run starts *)
(* from an empty queue.                                                    *)
FifoSpec == Fifo!Spec

(* The drain loop never hands on a slot that no event was stored to.       *)
TakesAnEvent == cpc = "advance" => got # NoEvent

(* No slot is stored to while the drain loop copies it out: the plain      *)
(* struct copy on either side is never torn by the other.                  *)
NoSlotRace ==
  \A p \in Producers :
    ~ (pc[p] \in {"store", "slot"} /\ cpc = "copy" /\ slot[p] = g_input_read)

(* While the compositor runs, the event at the head of the ring does not   *)
(* stay there: the drain loop of some tick takes it.                       *)
HeadIsTaken ==
  \A i \in Slots :
    (g_input_read = i /\ g_input_write # i)
      ~> (g_input_read # i \/ cpc \in {"down", "reset"})
=============================================================================
