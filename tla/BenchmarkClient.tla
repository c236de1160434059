--------------------------- MODULE BenchmarkClient ---------------------------
(***************************************************************************)
(* benchmark_client.c: a Wayland client that asks for a maximized window,  *)
(* waits for the compositor to configure it, makes one buffer of that size *)
(* and then draws a frame whenever the compositor says the last one is     *)
(* done.  The compositor (external) sends events, which wait in order on   *)
(* the connection; it may configure the window again at any time, as the   *)
(* tick of jni_bridge.c does on a zoom or a keyboard, close it, or go.     *)
(*                                                                         *)
(* A size is one number, ordered as the areas are; 0 leaves it to the      *)
(* client.                                                                 *)
(***************************************************************************)
EXTENDS Integers, Sequences, FiniteSets

CONSTANTS
  Sizes,        \* the sizes a window is configured with
  Default,      \* 640 x 480
  MaxSizes      \* bound: how often a window is configured

ASSUME BenchmarkClientAssumption ==
  Sizes \subseteq Nat /\ Default \in Nat \ {0} /\ MaxSizes \in Nat

VARIABLES
  cpc,          \* where main() is
  client,       \* its variables
  wire          \* the connection to the compositor

benchVars == <<cpc, client, wire>>

(* win is win_width and win_height, room what the buffer has room for (0:  *)
(* there is none), overrun whether more was written or unmapped than       *)
(* there is room, resized whether win changed after the buffer was made.   *)
NewClient ==
  [win |-> Default, configured |-> FALSE, running |-> TRUE, room |-> 0,
   overrun |-> FALSE, resized |-> FALSE]

(* events are those sent and not dispatched, sizes how many configures     *)
(* there were, sync and frame whether an answer and a callback are due.    *)
NewWire ==
  [up |-> FALSE, events |-> <<>>, sizes |-> 0, sync |-> FALSE, frame |-> 0]

Size(s) == [type |-> "size", size |-> s]
Event(type) == [type |-> type, size |-> 0]
EventType == [type : {"size", "configure", "close", "frame", "sync"},
              size : Sizes \cup {0}]

BenchTypeOK ==
  /\ cpc \in {"none", "connect", "wait", "settle", "setup", "loop", "cleanup",
              "ended"}
  /\ client \in [win : Sizes \cup {Default}, configured : BOOLEAN,
                 running : BOOLEAN, room : Sizes \cup {0, Default},
                 overrun : BOOLEAN, resized : BOOLEAN]
  /\ wire \in [up : BOOLEAN, events : Seq(EventType), sizes : 0 .. MaxSizes,
               sync : BOOLEAN, frame : 0 .. 1]

BenchInit == cpc = "none" /\ client = NewClient /\ wire = NewWire

(* execl(): main() of a new process. *)
Exec == cpc' = "connect" /\ client' = NewClient /\ wire' = NewWire
Exited == cpc' = "none" /\ client' = NewClient /\ wire' = NewWire

-----------------------------------------------------------------------------
(* Faulty variants of the definitions below, to see that the properties    *)
(* notice the mistakes they are about.                                     *)

CommitOnly(w) == w       \* no wl_surface_frame() before the commit

CommitTwice(w) ==        \* a second callback for the same frame
  [w EXCEPT !.frame = @ + 2]

SetupDefault ==          \* the buffer has the size from before the configure
  /\ cpc = "setup"
  /\ client' = [client EXCEPT !.room = Default, !.overrun = client.win > Default]
  /\ wire' = [wire EXCEPT !.frame = @ + 1]
  /\ cpc' = "loop"

LeaveClosed ==           \* the result of wl_display_dispatch() is not tested
  /\ cpc = "loop"
  /\ ~client.running
  /\ cpc' = "cleanup"
  /\ UNCHANGED <<client, wire>>

-----------------------------------------------------------------------------
(* The callbacks. *)

(* glReadPixels() into shm_data, then attach and damage. *)
Draw(c) == [c EXCEPT !.overrun = @ \/ c.win > c.room]

(* wl_surface_frame(), wl_surface_commit() *)
Commit(w) == [w EXCEPT !.frame = @ + 1]

xdg_toplevel_configure(c, s) ==
  IF s > 0 THEN [c EXCEPT !.win = s, !.resized = c.room > 0] ELSE c

(* What the handler of event e makes of the variables c. *)
Handled(c, e) ==
  [size      |-> xdg_toplevel_configure(c, e.size),
   configure |-> [c EXCEPT !.configured = TRUE],
   close     |-> [c EXCEPT !.running = FALSE],
   frame     |-> IF c.running THEN Draw(c) ELSE c,
   sync      |-> c][e.type]

-----------------------------------------------------------------------------
(* main() *)

(* Without a compositor, or one of its globals, the program ends. *)
Connect ==
  /\ cpc = "connect"
  /\ \E up \in BOOLEAN :
       /\ wire' = [wire EXCEPT !.up = up]
       /\ cpc' = IF up THEN "wait" ELSE "ended"
  /\ UNCHANGED client

(* wl_display_dispatch(): the next event; a callback that draws asks for   *)
(* the next one.  The answer to the second roundtrip ends it.              *)
Dispatch ==
  /\ cpc \in {"wait", "settle", "loop"}
  /\ wire.up /\ wire.events # <<>>
  /\ LET e == Head(wire.events)
         rest == [wire EXCEPT !.events = Tail(@)]
     IN  /\ client' = Handled(client, e)
         /\ wire' = IF e.type = "frame" /\ client.running THEN Commit(rest) ELSE rest
         /\ cpc' = IF e.type = "sync" THEN "setup" ELSE cpc

(* The wait for the first configure is over; the second roundtrip begins. *)
Configured ==
  /\ cpc = "wait"
  /\ client.configured
  /\ wire' = [wire EXCEPT !.sync = wire.up]
  /\ cpc' = "settle"
  /\ UNCHANGED client

(* A roundtrip fails when the compositor has gone; nobody looks. *)
NotSettled ==
  /\ cpc = "settle"
  /\ ~wire.up
  /\ cpc' = "setup"
  /\ UNCHANGED <<client, wire>>

(* init_egl(), init_shaders(), create_shm_buffer(), and the first frame. *)
Setup ==
  /\ cpc = "setup"
  /\ client' = [client EXCEPT !.room = client.win]
  /\ wire' = Commit(wire)
  /\ cpc' = "loop"

SetupFails ==
  /\ cpc = "setup"
  /\ cpc' = "ended"
  /\ UNCHANGED <<client, wire>>

LeaveLoop ==
  /\ cpc = "loop"
  /\ ~client.running \/ ~wire.up
  /\ cpc' = "cleanup"
  /\ UNCHANGED <<client, wire>>

(* munmap() is given the size of the window. *)
Cleanup ==
  /\ cpc = "cleanup"
  /\ client' = Draw(client)
  /\ cpc' = "ended"
  /\ UNCHANGED wire

Main ==
  \/ Connect \/ Dispatch \/ Configured \/ NotSettled \/ Setup \/ SetupFails
  \/ LeaveLoop \/ Cleanup

-----------------------------------------------------------------------------
(* The compositor (external).  It has a window from the first commit to    *)
(* the cleanup.                                                            *)
HasWindow == wire.up /\ cpc \notin {"none", "ended"}
Send(es) == wire' = [wire EXCEPT !.events = @ \o es]

(* A new size, and the configure that completes it. *)
SendSize(s) ==
  /\ HasWindow
  /\ wire.sizes < MaxSizes
  /\ wire' = [wire EXCEPT !.events = @ \o <<Size(s), Event("configure")>>,
                          !.sizes = @ + 1]
  /\ UNCHANGED <<cpc, client>>

SendClose ==
  /\ HasWindow
  /\ \A i \in DOMAIN wire.events : wire.events[i].type # "close"
  /\ client.running
  /\ Send(<<Event("close")>>)
  /\ UNCHANGED <<cpc, client>>

SendSync ==
  /\ HasWindow
  /\ wire.sync
  /\ wire' = [wire EXCEPT !.events = Append(@, Event("sync")), !.sync = FALSE]
  /\ UNCHANGED <<cpc, client>>

SendFrame ==
  /\ HasWindow
  /\ wire.frame > 0
  /\ wire' = [wire EXCEPT !.events = Append(@, Event("frame")), !.frame = @ - 1]
  /\ UNCHANGED <<cpc, client>>

(* The compositor ends, or drops the client. *)
Disconnect ==
  /\ HasWindow
  /\ wire' = [wire EXCEPT !.up = FALSE, !.events = <<>>, !.sync = FALSE]
  /\ UNCHANGED <<cpc, client>>

Compositor ==
  \/ \E s \in Sizes : SendSize(s)
  \/ SendClose \/ SendSync \/ SendFrame \/ Disconnect

-----------------------------------------------------------------------------
Frames == {i \in DOMAIN wire.events : wire.events[i].type = "frame"}

(* While it draws, exactly one frame is under way: asked for or answered   *)
(* and not yet dispatched.  With none the animation stops, with two it     *)
(* doubles every frame.  And nothing is committed before the first         *)
(* configure, which the protocol forbids.                                  *)
OneFrameUnderWay ==
  cpc = "loop" =>
    /\ client.configured
    /\ wire.up /\ client.running => wire.frame + Cardinality(Frames) = 1

(* Line 630: "Initialize EGL + GLES2 offscreen rendering at the configured *)
(* size".  A frame fits the memory of the buffer and the memory is         *)
(* unmapped as it was mapped, unless the compositor changed the size after *)
(* the two roundtrips: nothing is made anew then.                          *)
ReadbackFits == client.overrun => client.resized
=============================================================================
