----------------------------- MODULE ViewFocus -----------------------------
(***************************************************************************)
(* The part of frame_timer_cb() that looks at labwc's list of views: every *)
(* tick it brings back and maximizes the views that are shown, and when    *)
(* another view than at the last tick is the first of them, it raises that *)
(* view and gives it the keyboard.  It runs on labwc's own thread, so a    *)
(* tick is one step; between two ticks labwc and its clients create, map,  *)
(* unmap, destroy, raise and minimize views and move the focus as they     *)
(* like.                                                                   *)
(*                                                                         *)
(* The tick remembers the front view by its address.  A view is a number   *)
(* here, given once; its address is free again when it is destroyed and    *)
(* may be that of the next view.  "Shown" is mapped and with a surface.    *)
(***************************************************************************)
EXTENDS Integers, Sequences, SequencesExt

CONSTANTS
  Addresses,    \* where malloc() puts a struct view
  NULL,
  MaxViews      \* bound: views created

Views == 1 .. MaxViews
None == 0

ASSUME ViewFocusAssumption == MaxViews \in Nat /\ NULL \notin Addresses

VARIABLES
  running,      \* does the event loop run?
  keyboard,     \* has the seat a keyboard? without a keymap it has none
  views,        \* server.views, front to back
  address,      \* address[v]
  shown, minimized, maximized,  \* the views that are
  focus,        \* the view that has the keyboard, or None
  last_front_view,
  entered,      \* the views a tick gave the keyboard since they were mapped
  stale,        \* the views mapped at the address of the one before
  before,       \* the front view of the last tick that had one
  settled       \* has nothing happened since the last tick?

viewVars == <<views, address, shown, minimized, maximized>>
history == <<entered, stale, before, settled>>
vars == <<running, keyboard, viewVars, focus, last_front_view, history>>

TypeOK ==
  /\ running \in BOOLEAN /\ keyboard \in BOOLEAN /\ settled \in BOOLEAN
  /\ views \in Seq(Views)
  /\ address \in [Views -> Addresses \cup {NULL}]
  /\ shown \subseteq Range(views)
  /\ minimized \subseteq Range(views) /\ maximized \subseteq Range(views)
  /\ focus \in shown \cup {None}
  /\ last_front_view \in Addresses \cup {NULL}
  /\ entered \subseteq shown /\ stale \subseteq shown
  /\ before \in Views \cup {None}

NoViews ==
  /\ views = <<>>
  /\ shown = {} /\ minimized = {} /\ maximized = {}
  /\ focus = None

Init ==
  /\ running = FALSE
  /\ keyboard = FALSE
  /\ NoViews
  /\ address = [v \in Views |-> NULL]
  /\ last_front_view = NULL
  /\ entered = {} /\ stale = {}
  /\ before = None
  /\ settled = FALSE

Live == Range(views)
ShownAt == {i \in DOMAIN views : views[i] \in shown}
FrontView == IF ShownAt = {} THEN None ELSE views[Min(ShownAt)]
SameAddress(v, w) == w # None /\ address[v] = address[w]
Without(v) == RemoveAt(views, CHOOSE i \in DOMAIN views : views[i] = v)
ToFront(v) == <<v>> \o Without(v)

-----------------------------------------------------------------------------
(* Faulty variants of the actions below, to see that the properties notice *)
(* the mistakes they are about.                                            *)

StartNoReset ==          \* last_front_view is left over from the last run
  /\ ~running
  /\ running' = TRUE
  /\ keyboard' \in BOOLEAN
  /\ before' = None
  /\ UNCHANGED <<viewVars, focus, last_front_view, entered, stale, settled>>

GiveAlways(v) ==         \* no comparison with last_front_view
  IF v # None
  THEN /\ views' = ToFront(v)
       /\ focus' = IF keyboard THEN v ELSE focus
       /\ entered' = IF keyboard THEN entered \cup {v} ELSE entered
       /\ last_front_view' = address[v]
  ELSE UNCHANGED <<views, focus, entered, last_front_view>>

GiveNobody(v) ==         \* no test that there is a front view
  /\ views' = IF v = None THEN <<v>> \o views ELSE ToFront(v)
  /\ focus' = IF keyboard THEN v ELSE focus
  /\ entered' = IF keyboard THEN entered \cup {v} ELSE entered
  /\ last_front_view' = IF v = None THEN NULL ELSE address[v]

-----------------------------------------------------------------------------
(* compositor_main() *)

(* The reset at the start of the thread, and the keymap: only if it loads  *)
(* is a keyboard set on the seat.                                          *)
Start ==
  /\ ~running
  /\ running' = TRUE
  /\ keyboard' \in BOOLEAN
  /\ last_front_view' = NULL
  /\ stale' = {}
  /\ before' = None
  /\ UNCHANGED <<viewVars, focus, entered, settled>>

(* server_finish() destroys every view. *)
Finish ==
  /\ running
  /\ running' = FALSE
  /\ keyboard' = FALSE
  /\ views' = <<>>
  /\ shown' = {} /\ minimized' = {} /\ maximized' = {}
  /\ focus' = None
  /\ entered' = {} /\ stale' = {}
  /\ settled' = FALSE
  /\ UNCHANGED <<address, last_front_view, before>>

-----------------------------------------------------------------------------
(* frame_timer_cb() *)

(* Every shown view vs is unminimized and maximized. *)
Restore(vs) ==
  /\ minimized' = minimized \ vs
  /\ maximized' = maximized \cup vs

(* The front view v is raised and given the keyboard, if it is another     *)
(* than the last time.                                                     *)
Give(v) ==
  IF v # None /\ address[v] # last_front_view
  THEN /\ views' = ToFront(v)
       /\ focus' = IF keyboard THEN v ELSE focus
       /\ entered' = IF keyboard THEN entered \cup {v} ELSE entered
       /\ last_front_view' = address[v]
  ELSE UNCHANGED <<views, focus, entered, last_front_view>>

Tick ==
  /\ running
  /\ Restore(shown)
  /\ Give(FrontView)
  /\ before' = IF FrontView = None THEN before ELSE FrontView
  /\ stale' = {v \in stale : SameAddress(v, before')}
  /\ settled' = TRUE
  /\ UNCHANGED <<running, keyboard, address, shown>>

-----------------------------------------------------------------------------
(* labwc and its clients (external) *)

Between ==
  /\ running
  /\ settled' = FALSE
  /\ UNCHANGED <<running, keyboard, last_front_view, before>>

Taken == {address[v] : v \in Live}

Create(v, a) ==
  /\ Between
  /\ address[v] = NULL /\ \A w \in Views : w < v => address[w] # NULL
  /\ a \notin Taken
  /\ address' = [address EXCEPT ![v] = a]
  /\ views' = <<v>> \o views
  /\ UNCHANGED <<shown, minimized, maximized, focus, entered, stale>>

Map(v) ==
  /\ Between
  /\ v \in Live \ shown
  /\ shown' = shown \cup {v}
  /\ stale' = IF SameAddress(v, before) THEN stale \cup {v} ELSE stale
  /\ UNCHANGED <<views, address, minimized, maximized, focus, entered>>

Hidden(v) ==
  /\ shown' = shown \ {v}
  /\ focus' = IF focus = v THEN None ELSE focus
  /\ entered' = entered \ {v}
  /\ stale' = stale \ {v}

Unmap(v) ==
  /\ Between
  /\ v \in shown
  /\ Hidden(v)
  /\ UNCHANGED <<views, address, minimized, maximized>>

Destroy(v) ==
  /\ Between
  /\ v \in Live
  /\ Hidden(v)
  /\ views' = Without(v)
  /\ minimized' = minimized \ {v} /\ maximized' = maximized \ {v}
  /\ UNCHANGED address

Raise(v) ==
  /\ Between
  /\ v \in Live /\ views[1] # v
  /\ views' = ToFront(v)
  /\ UNCHANGED <<address, shown, minimized, maximized, focus, entered, stale>>

Minimize(v) ==
  /\ Between
  /\ v \in shown \ minimized
  /\ minimized' = minimized \cup {v}
  /\ UNCHANGED <<views, address, shown, maximized, focus, entered, stale>>

Unmaximize(v) ==
  /\ Between
  /\ v \in shown \cap maximized
  /\ maximized' = maximized \ {v}
  /\ UNCHANGED <<views, address, shown, minimized, focus, entered, stale>>

MoveFocus(v) ==
  /\ Between
  /\ keyboard
  /\ v \in shown \cup {None} /\ v # focus
  /\ focus' = v
  /\ UNCHANGED <<viewVars, entered, stale>>

Labwc ==
  \/ \E v \in Views :
       \/ \E a \in Addresses : Create(v, a)
       \/ Map(v) \/ Unmap(v) \/ Destroy(v)
       \/ Raise(v) \/ Minimize(v) \/ Unmaximize(v)
  \/ \E v \in Views \cup {None} : MoveFocus(v)

Next == Start \/ Finish \/ Tick \/ Labwc

Spec == Init /\ [][Next]_vars

-----------------------------------------------------------------------------
(* Line 412: "Raise newly appeared front view and give it keyboard focus". *)
(* When a tick has seen a front view, that view has been given the         *)
(* keyboard since it appeared, whatever was closed, raised or restarted in *)
(* between.  The exception is exact: it was mapped at the very address     *)
(* that last_front_view held, because it is the view hidden before, or one *)
(* allocated where that view was.                                          *)
FrontIsEntered ==
  settled /\ keyboard /\ FrontView # None => FrontView \in entered \cup stale

(* A tick leaves the keyboard where labwc put it, a panel or a launcher    *)
(* included, unless another view is in front than at the last tick.        *)
KeepsFocus == [][Tick /\ focus' # focus => FrontView # before]_vars
=============================================================================
