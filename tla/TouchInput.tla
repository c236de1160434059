----------------------------- MODULE TouchInput -----------------------------
(***************************************************************************)
(* Touch turned into pointer events by jni_bridge.c: nativeSendTouch() on  *)
(* the JNI thread, the deferred button press that frame_timer_cb() counts  *)
(* down on the compositor thread, and the drain loop that dispatches what  *)
(* both threads queued.  A finger that goes down moves the pointer at once *)
(* and presses the button three ticks later; a finger lifted before that   *)
(* flushes the press itself.                                               *)
(*                                                                         *)
(* The queue is the FIFO that InputQueue implements, so queue_input() is   *)
(* one step here.  Every access to g_deferred_button_countdown is a step:  *)
(* both threads test it and store to it, and the decrement of the timer is *)
(* a load and a store.  Overlap says whether a call and a tick may run at  *)
(* the same time; nothing in the code prevents it.                         *)
(*                                                                         *)
(* A motion event carries the gesture it belongs to and where it points:   *)
(* 0 where the finger went down, -1 and 1 nudged from there, 2 elsewhere.  *)
(***************************************************************************)
EXTENDS Integers, Sequences

CONSTANTS
  Capacity,     \* INPUT_QUEUE_SIZE - 1
  MaxGestures,  \* bound: fingers put down
  Overlap       \* may a JNI call and a tick run at the same time?

ASSUME TouchInputAssumption ==
  /\ Capacity \in Nat /\ Capacity > 4
  /\ MaxGestures \in Nat
  /\ Overlap \in BOOLEAN

VARIABLES
  queue,        \* g_input_queue, from the read index to the write index
  g_deferred_button_countdown,
  deferred,     \* g_deferred_button, g_deferred_motion_x and _y: the gesture
  finger,       \* is a finger on the screen?
  gesture,      \* the number of the last gesture
  jpc,          \* where the JNI thread is in nativeSendTouch()
  jtodo,        \* the events this call has still to queue
  tpc,          \* where the compositor thread is
  load,         \* the value the decrement loaded
  ttodo,        \* the events this tick has still to queue
  pointer,      \* the cursor: the motion event dispatched last
  button,       \* the button as the clients and labwc see it
  hovered,      \* the gesture the pointer showed when the last tick ended
  clicked,      \* the gestures whose press was dispatched
  since         \* the first gesture that began in this compositor run

deferVars == <<g_deferred_button_countdown, deferred>>
callVars == <<finger, gesture, jpc, jtodo>>
tickVars == <<tpc, load, ttodo>>
seatVars == <<pointer, button, hovered, clicked, since>>
vars == <<queue, deferVars, callVars, tickVars, seatVars>>

Gestures == 0 .. MaxGestures
Event(type, g, at, by) == [type |-> type, g |-> g, at |-> at, by |-> by]
Motion(g, at, by) == Event("motion", g, at, by)
Press(g, by) == Event("press", g, 0, by)
Release(g) == Event("release", g, 0, "jni")
Other == Event("other", 0, 0, "jni")     \* a key or a scroll event

EventType == [type : {"motion", "press", "release", "other"}, g : Gestures,
              at : -1 .. 2, by : {"jni", "timer"}]

TypeOK ==
  /\ queue \in Seq(EventType) /\ Len(queue) <= Capacity
  /\ g_deferred_button_countdown \in -1 .. 3
  /\ deferred \in Gestures
  /\ finger \in BOOLEAN
  /\ gesture \in Gestures
  /\ jpc \in {"idle", "down", "defer", "arm", "test", "clear", "send"}
  /\ jtodo \in Seq(EventType)
  /\ tpc \in {"stopped", "idle", "test", "load", "store", "retest", "inject", "drain"}
  /\ load \in -1 .. 3
  /\ ttodo \in Seq(EventType)
  /\ pointer \in EventType
  /\ button \in {"up", "down"}
  /\ hovered \in Gestures
  /\ clicked \subseteq Gestures
  /\ since \in 1 .. MaxGestures + 1

NoMotion == Motion(0, 0, "jni")

Init ==
  /\ queue = <<>>
  /\ g_deferred_button_countdown = 0
  /\ deferred = 0
  /\ finger = FALSE
  /\ gesture = 0
  /\ jpc = "idle"
  /\ jtodo = <<>>
  /\ tpc = "stopped"
  /\ load = 0
  /\ ttodo = <<>>
  /\ pointer = NoMotion
  /\ button = "up"
  /\ hovered = 0
  /\ clicked = {}
  /\ since = 1

(* queue_input(): a full queue drops the event. *)
Enqueue(e) == queue' = IF Len(queue) < Capacity THEN Append(queue, e) ELSE queue

-----------------------------------------------------------------------------
(* Faulty variants of the actions below, to see that the properties notice *)
(* the mistakes they are about.                                            *)

ArmFourTicks ==          \* one tick too many
  /\ jpc = "arm"
  /\ g_deferred_button_countdown' = 4
  /\ jpc' = "idle"
  /\ UNCHANGED <<queue, deferred, finger, gesture, jtodo, tickVars, seatVars>>

ArmOneTick ==            \* no time to hover
  /\ jpc = "arm"
  /\ g_deferred_button_countdown' = 1
  /\ jpc' = "idle"
  /\ UNCHANGED <<queue, deferred, finger, gesture, jtodo, tickVars, seatVars>>

UpNoFlush ==             \* the early press is not flushed
  /\ jpc = "test"
  /\ jpc' = "send"
  /\ UNCHANGED <<queue, deferVars, finger, gesture, jtodo, tickVars, seatVars>>

UpKeepsCountdown ==      \* the press is flushed and stays due
  /\ jpc = "clear"
  /\ jtodo' = <<Head(jtodo), Press(deferred, "jni")>> \o jtodo
  /\ jpc' = "send"
  /\ UNCHANGED <<queue, deferVars, finger, gesture, tickVars, seatVars>>

UpReturnsEarly ==        \* the flush forgets the release
  /\ jpc = "clear"
  /\ g_deferred_button_countdown' = 0
  /\ jtodo' = <<Head(jtodo), Press(deferred, "jni")>>
  /\ jpc' = "send"
  /\ UNCHANGED <<queue, deferred, finger, gesture, tickVars, seatVars>>

TickTestOneShort ==      \* > 1 for > 0
  /\ tpc = "test"
  /\ tpc' = IF g_deferred_button_countdown > 1 THEN "load" ELSE "drain"
  /\ UNCHANGED <<queue, deferVars, callVars, load, ttodo, seatVars>>

InjectNudgedPress ==     \* the press without the exact position
  /\ tpc = "retest"
  /\ ttodo' = IF g_deferred_button_countdown > 0
              THEN <<Motion(deferred, 1, "timer")>>
              ELSE <<Press(deferred, "timer")>>
  /\ tpc' = "inject"
  /\ UNCHANGED <<queue, deferVars, callVars, load, seatVars>>

-----------------------------------------------------------------------------
(* The JNI thread. *)

(* A call begins.  The longest one queues four events: with room for them  *)
(* nothing is dropped.                                                     *)
MayCall ==
  /\ jpc = "idle"
  /\ Len(queue) + 4 <= Capacity
  /\ Overlap \/ tpc \in {"stopped", "idle"}

(* ACTION_DOWN: the motion first. *)
TouchDown ==
  /\ MayCall
  /\ ~finger
  /\ gesture < MaxGestures
  /\ finger' = TRUE
  /\ gesture' = gesture + 1
  /\ jtodo' = <<Motion(gesture + 1, 0, "jni")>>
  /\ jpc' = "down"
  /\ UNCHANGED <<queue, deferVars, tickVars, seatVars>>

(* g_deferred_button = ...; g_deferred_motion_x = x; g_deferred_motion_y = y; *)
Defer ==
  /\ jpc = "defer"
  /\ deferred' = gesture
  /\ jpc' = "arm"
  /\ UNCHANGED <<queue, g_deferred_button_countdown, finger, gesture, jtodo,
                 tickVars, seatVars>>

(* g_deferred_button_countdown = 3; *)
Arm ==
  /\ jpc = "arm"
  /\ g_deferred_button_countdown' = 3
  /\ jpc' = "idle"
  /\ UNCHANGED <<queue, deferred, finger, gesture, jtodo, tickVars, seatVars>>

(* ACTION_MOVE *)
TouchMove ==
  /\ MayCall
  /\ finger
  /\ jtodo' = <<Motion(gesture, 2, "jni")>>
  /\ jpc' = "send"
  /\ UNCHANGED <<queue, deferVars, finger, gesture, tickVars, seatVars>>

(* ACTION_UP, at the place the finger went down or elsewhere.  It always   *)
(* ends with a motion and the release.                                     *)
TouchUp ==
  /\ MayCall
  /\ finger
  /\ \E at \in {0, 2} : jtodo' = <<Motion(gesture, at, "jni"), Release(gesture)>>
  /\ finger' = FALSE
  /\ jpc' = "test"
  /\ UNCHANGED <<queue, deferVars, gesture, tickVars, seatVars>>

(* if (g_deferred_button_countdown > 0) *)
UpTest ==
  /\ jpc = "test"
  /\ jpc' = IF g_deferred_button_countdown > 0 THEN "clear" ELSE "send"
  /\ UNCHANGED <<queue, deferVars, finger, gesture, jtodo, tickVars, seatVars>>

(* g_deferred_button_countdown = 0, and a motion and the press go first. *)
UpClear ==
  /\ jpc = "clear"
  /\ g_deferred_button_countdown' = 0
  /\ jtodo' = <<Head(jtodo), Press(deferred, "jni")>> \o jtodo
  /\ jpc' = "send"
  /\ UNCHANGED <<queue, deferred, finger, gesture, tickVars, seatVars>>

(* nativeSendKey() and nativeSendScroll(). *)
SendOther ==
  /\ MayCall
  /\ jtodo' = <<Other>>
  /\ jpc' = "send"
  /\ UNCHANGED <<queue, deferVars, finger, gesture, tickVars, seatVars>>

(* queue_input(), called for one event after the other. *)
JniQueue ==
  /\ jpc \in {"down", "send"}
  /\ Enqueue(Head(jtodo))
  /\ jtodo' = Tail(jtodo)
  /\ jpc' = IF Len(jtodo) > 1 THEN jpc ELSE [down |-> "defer", send |-> "idle"][jpc]
  /\ UNCHANGED <<deferVars, finger, gesture, tickVars, seatVars>>

InCall == Defer \/ Arm \/ UpTest \/ UpClear \/ JniQueue

-----------------------------------------------------------------------------
(* The compositor thread. *)

(* compositor_main(): the queue is reset, the seat is new.  The countdown  *)
(* is not among the variables it resets.                                   *)
Start ==
  /\ tpc = "stopped"
  /\ Overlap \/ jpc = "idle"
  /\ queue' = <<>>
  /\ pointer' = NoMotion
  /\ button' = "up"
  /\ hovered' = 0
  /\ since' = gesture + 1
  /\ tpc' = "idle"
  /\ UNCHANGED <<deferVars, callVars, load, ttodo, clicked>>

Stop ==
  /\ tpc = "idle"
  /\ tpc' = "stopped"
  /\ UNCHANGED <<queue, deferVars, callVars, load, ttodo, seatVars>>

Tick ==
  /\ tpc = "idle"
  /\ Overlap \/ jpc = "idle"
  /\ tpc' = "test"
  /\ UNCHANGED <<queue, deferVars, callVars, load, ttodo, seatVars>>

(* if (g_deferred_button_countdown > 0) *)
TickTest ==
  /\ tpc = "test"
  /\ tpc' = IF g_deferred_button_countdown > 0 THEN "load" ELSE "drain"
  /\ UNCHANGED <<queue, deferVars, callVars, load, ttodo, seatVars>>

(* g_deferred_button_countdown--, which is a load ... *)
TickLoad ==
  /\ tpc = "load"
  /\ load' = g_deferred_button_countdown
  /\ tpc' = "store"
  /\ UNCHANGED <<queue, deferVars, callVars, ttodo, seatVars>>

(* ... and a store. *)
TickStore ==
  /\ tpc = "store"
  /\ g_deferred_button_countdown' = load - 1
  /\ tpc' = "retest"
  /\ UNCHANGED <<queue, deferred, callVars, load, ttodo, seatVars>>

(* The countdown is read again: a nudge to one side or the other while it  *)
(* runs, the exact position and the press when it is over.                 *)
TickInject ==
  /\ tpc = "retest"
  /\ LET jitter == IF g_deferred_button_countdown % 2 = 1 THEN 1 ELSE -1
     IN  ttodo' = IF g_deferred_button_countdown > 0
                  THEN <<Motion(deferred, jitter, "timer")>>
                  ELSE <<Motion(deferred, 0, "timer"), Press(deferred, "timer")>>
  /\ tpc' = "inject"
  /\ UNCHANGED <<queue, deferVars, callVars, load, seatVars>>

TickQueue ==
  /\ tpc = "inject"
  /\ Enqueue(Head(ttodo))
  /\ ttodo' = Tail(ttodo)
  /\ tpc' = IF Len(ttodo) > 1 THEN "inject" ELSE "drain"
  /\ UNCHANGED <<deferVars, callVars, load, seatVars>>

(* One turn of the drain loop: the switch on the event's type. *)
Dispatch ==
  /\ tpc = "drain"
  /\ queue # <<>>
  /\ queue' = Tail(queue)
  /\ LET e == Head(queue)
     IN  /\ pointer' = IF e.type = "motion" THEN e ELSE pointer
         /\ button' = [press |-> "down", release |-> "up",
                       motion |-> button, other |-> button][e.type]
         /\ clicked' = IF e.type = "press" THEN clicked \cup {e.g} ELSE clicked
  /\ UNCHANGED <<deferVars, callVars, tickVars, hovered, since>>

(* The queue is empty: the clients are flushed and the timer re-armed. *)
EndTick ==
  /\ tpc = "drain"
  /\ queue = <<>>
  /\ hovered' = pointer.g
  /\ tpc' = "idle"
  /\ UNCHANGED <<queue, deferVars, callVars, load, ttodo, pointer, button,
                 clicked, since>>

InTick ==
  \/ Tick \/ TickTest \/ TickLoad \/ TickStore \/ TickInject \/ TickQueue
  \/ Dispatch \/ EndTick

Next ==
  \/ TouchDown \/ TouchMove \/ TouchUp \/ SendOther \/ InCall
  \/ Start \/ Stop \/ InTick

(* A call that began runs on, and so does the compositor thread, whose     *)
(* timer every tick re-arms.  Nobody is obliged to touch the screen, to    *)
(* lift the finger, to start the compositor or to stop it.                 *)
Spec == Init /\ [][Next]_vars
FairSpec == Spec /\ WF_vars(InCall) /\ WF_vars(InTick)

-----------------------------------------------------------------------------
(* Properties. *)

(* This step dispatches an event of this type. *)
Dispatches(type) == Dispatch /\ Head(queue).type = type

(* The event at the head belongs to a gesture that began in this run. *)
HeadIsCurrent == Head(queue).g >= since

(* A click is one press and one release: the button is never pressed twice *)
(* in a row, although the timer and a finger lifted early both press it.   *)
NoDoublePress == [][Dispatches("press") => button = "up"]_vars

(* A gesture's release comes after its press, also when the finger is      *)
(* lifted before the deferred press is due (lines 847 to 850).             *)
PressBeforeRelease ==
  [][Dispatches("release") /\ HeadIsCurrent => button = "down"]_vars

(* A deferred press reaches the clients in a later tick than the motion    *)
(* that put the pointer there, so that they have seen the pointer hover    *)
(* (lines 333 to 336); only a quick tap gives that up.                     *)
HoverBeforeClick ==
  [][Dispatches("press") /\ Head(queue).by = "timer" /\ HeadIsCurrent
       => hovered = Head(queue).g]_vars

(* A press lands where its own gesture put the pointer, and a deferred one *)
(* exactly where the finger went down.                                     *)
PressAtGesture ==
  [][Dispatches("press")
       => /\ pointer.g = Head(queue).g
          /\ Head(queue).by = "timer" => pointer.at = 0]_vars

(* Line 596: "Reset state from any previous compositor run".  The timer    *)
(* presses the button only for a finger that went down while this run      *)
(* lasted, not for one whose press was left to it.                         *)
PressOfThisRun ==
  [][Dispatches("press") /\ Head(queue).by = "timer" => HeadIsCurrent]_vars

(* Every finger that goes down while the compositor runs, and keeps        *)
(* running, leads to a press, however soon it is lifted.                   *)
GestureClicks ==
  \A g \in 1 .. MaxGestures :
    (gesture = g /\ g >= since)
      ~> (g \in clicked \/ since > g \/ tpc = "stopped")

(* Once no finger is left on the screen the button does not stay down,     *)
(* unless the compositor is stopped.                                       *)
ButtonComesUp ==
  []<>(button = "up" \/ finger \/ tpc = "stopped")
=============================================================================
