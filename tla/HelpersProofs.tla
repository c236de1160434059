---------------------------- MODULE HelpersProofs ----------------------------
(***************************************************************************)
(* The processes of Helpers and the buffer of BenchmarkClient, for any     *)
(* number of processes, configures and sizes.                              *)
(***************************************************************************)
EXTENDS Helpers, FiniteSetTheorems, TLAPS

(* The variables of jni_bridge.c and its children. *)
ProcTypeOK ==
  /\ process \in [Pids -> {"none", "alive", "told", "zombie"}]
  /\ self \in Pids \cup {0}
  /\ kind \in [Pids -> {"none", "benchmark", "virgl"}]
  /\ g_benchmark_pid \in Pids \cup {-1} /\ g_virgl_pid \in Pids \cup {-1}

(* The record types of BenchTypeOK, with counters that have no bound. *)
ClientType ==
  [win : Nat \ {0}, configured : BOOLEAN, running : BOOLEAN, room : Nat,
   overrun : BOOLEAN, resized : BOOLEAN]

WireType ==
  [up : BOOLEAN, events : Seq(EventType), sizes : Nat, sync : BOOLEAN, frame : Nat]

Pending(type) == \E i \in DOMAIN wire.events : wire.events[i].type = type

(* One answer to the second roundtrip is due or sent, while it is waited   *)
(* for; frames are asked for and sent from the setup on.                   *)
WireInv ==
  /\ wire \in WireType
  /\ ~wire.up => wire.events = <<>> /\ ~wire.sync
  /\ cpc \in {"none", "connect"} => ~wire.up
  /\ wire.sync => cpc = "settle" /\ ~Pending("sync")
  /\ Pending("sync") => cpc = "settle"
  /\ \A i, j \in DOMAIN wire.events :
       wire.events[i].type = "sync" /\ wire.events[j].type = "sync" => i = j
  /\ wire.frame > 0 \/ Pending("frame") => cpc \in {"loop", "cleanup", "ended"}

(* There is a buffer from the setup on, and it is as large as the window   *)
(* until that is resized.                                                  *)
RoomInv ==
  /\ client \in ClientType
  /\ cpc \in {"none", "connect", "wait", "settle", "setup"} => client.room = 0
  /\ cpc \in {"loop", "cleanup"} => client.room > 0
  /\ client.overrun => client.resized /\ client.room > 0
  /\ client.room > 0 /\ ~client.resized => client.room = client.win

BenchInv == WireInv /\ RoomInv

(* No second frame is asked for before the first is answered and           *)
(* dispatched; while the client draws, it has asked for one; and it drew   *)
(* nothing before it was configured.                                       *)
FrameInv ==
  /\ wire.frame <= 1
  /\ wire.frame = 1 => ~Pending("frame")
  /\ \A i, j \in DOMAIN wire.events :
       wire.events[i].type = "frame" /\ wire.events[j].type = "frame" => i = j
  /\ cpc = "loop" /\ wire.up /\ client.running => wire.frame = 1 \/ Pending("frame")
  /\ cpc \in {"settle", "setup", "loop"} => client.configured

(* Where main() is, and the bounds BenchTypeOK sets to the sizes.          *)
BoundInv ==
  /\ cpc \in {"none", "connect", "wait", "settle", "setup", "loop", "cleanup",
              "ended"}
  /\ wire.sizes <= MaxSizes
  /\ client.win \in Sizes \cup {Default}
  /\ client.room \in Sizes \cup {0, Default}

-----------------------------------------------------------------------------
LEMMA ProcStart == Init => ProcTypeOK /\ NoneForgotten
BY DEF Init, ProcTypeOK, NoneForgotten

LEMMA ProcKeeps ==
  ProcTypeOK /\ NoneForgotten /\ [Next]_vars => ProcTypeOK' /\ NoneForgotten'
<1> SUFFICES ASSUME ProcTypeOK, NoneForgotten, [Next]_vars
             PROVE  ProcTypeOK' /\ NoneForgotten'
  OBVIOUS
<1> USE HelpersAssumption DEF ProcTypeOK, NoneForgotten, Exists, Terminate, Fork, Pids
<1>1. CASE EndBenchmark
  BY <1>1 DEF EndBenchmark
<1>2. CASE StartBenchmark
  BY <1>2 DEF StartBenchmark
<1>3. CASE nativeStartVirglServer
  BY <1>3 DEF nativeStartVirglServer
<1>4. CASE nativeStopVirglServer
  BY <1>4 DEF nativeStopVirglServer
<1>5. CASE nativeIsVirglRunning
  BY <1>5 DEF nativeIsVirglRunning
<1>6. ASSUME NEW p \in Pids, Killed(p) \/ Exits(p) PROVE ProcTypeOK' /\ NoneForgotten'
  BY <1>6 DEF Killed, Exits, Ends
<1>7. ASSUME NEW p \in Pids, Reaped(p) PROVE ProcTypeOK' /\ NoneForgotten'
  BY <1>7 DEF Reaped
<1>8. CASE ClientRuns \/ CompositorRuns \/ UNCHANGED vars
  BY <1>8 DEF ClientRuns, CompositorRuns, vars, procVars
<1> QED BY <1>1, <1>2, <1>3, <1>4, <1>5, <1>6, <1>7, <1>8 DEF Next

(* However often the application starts and ends its helpers, and whoever  *)
(* reaps them, one that is alive is ended already or the one remembered.   *)
THEOREM NoHelperForgotten == Spec => []NoneForgotten
BY ProcStart, ProcKeeps, PTL DEF Spec

-----------------------------------------------------------------------------
LEMMA BenchStart == Init => BenchInv
BY BenchmarkClientAssumption
DEF Init, BenchInit, NewClient, NewWire, BenchInv, WireInv, RoomInv, ClientType,
    WireType, Pending

(* A process that begins or ends leaves nothing of the one before. *)
LEMMA AfreshKeeps ==
  ASSUME Exec \/ Exited
  PROVE  BenchInv'
<1>1. /\ cpc' \in {"none", "connect"} /\ client' = NewClient /\ wire' = NewWire
  BY DEF Exec, Exited
<1>2. NewWire \in WireType /\ NewWire.events = << >>
  BY DEF NewWire, WireType
<1>3. NewClient \in ClientType
  BY BenchmarkClientAssumption DEF NewClient, ClientType
<1>4. WireInv'
  BY <1>1, <1>2 DEF WireInv, Pending, NewWire
<1>5. RoomInv'
  BY <1>1, <1>3 DEF RoomInv, NewClient
<1> QED BY <1>4, <1>5 DEF BenchInv

(* An event that is sent goes behind the others, one that is dispatched    *)
(* was in front of them.                                                   *)
LEMMA SentBehind ==
  ASSUME NEW s \in Seq(EventType), NEW e \in EventType
  PROVE  /\ Append(s, e) \in Seq(EventType)
         /\ DOMAIN Append(s, e) = 1 .. Len(s) + 1
         /\ DOMAIN s = 1 .. Len(s)
         /\ \A i \in DOMAIN s : Append(s, e)[i] = s[i]
         /\ Append(s, e)[Len(s) + 1] = e
         /\ Len(s) \in Nat
OBVIOUS

LEMMA TakenFromFront ==
  ASSUME NEW s \in Seq(EventType), s # << >>
  PROVE  /\ Tail(s) \in Seq(EventType)
         /\ Head(s) \in EventType
         /\ Head(s) = s[1]
         /\ 1 \in DOMAIN s
         /\ \A i \in DOMAIN Tail(s) : i + 1 \in DOMAIN s /\ Tail(s)[i] = s[i + 1]
         /\ \A i \in DOMAIN Tail(s) : i \in Nat \ {0}
OBVIOUS

(* The updates of the connection keep its type. *)
LEMMA WireUpdated ==
  ASSUME NEW w \in WireType
  PROVE  /\ \A ev \in Seq(EventType) :
              /\ [w EXCEPT !.events = ev] \in WireType
              /\ \A n \in Nat : /\ [w EXCEPT !.events = ev, !.sizes = n] \in WireType
                               /\ [w EXCEPT !.events = ev, !.frame = n] \in WireType
              /\ \A b \in BOOLEAN :
                   [w EXCEPT !.events = ev, !.sync = b] \in WireType
              /\ \A b, u \in BOOLEAN :
                   [w EXCEPT !.up = u, !.events = ev, !.sync = b] \in WireType
         /\ \A b \in BOOLEAN : /\ [w EXCEPT !.up = b] \in WireType
                              /\ [w EXCEPT !.sync = b] \in WireType
         /\ \A n \in Nat : [w EXCEPT !.frame = n] \in WireType
BY DEF WireType

LEMMA WireFields ==
  ASSUME NEW w \in WireType
  PROVE  /\ w.up \in BOOLEAN /\ w.sync \in BOOLEAN
         /\ w.events \in Seq(EventType)
         /\ w.sizes + 1 \in Nat /\ w.frame + 1 \in Nat
         /\ w.frame > 0 => w.frame - 1 \in Nat
BY DEF WireType

(* Sending e keeps what is known of the connection, if e may be sent. *)
LEMMA SendKeeps ==
  ASSUME BenchInv, NEW e \in EventType,
         NEW w \in WireType, wire' = w, w.events = Append(wire.events, e),
         wire.up, w.up = wire.up, UNCHANGED <<cpc, client>>,
         e.type = "sync" => cpc = "settle" /\ wire.sync /\ ~w.sync,
         w.sync => wire.sync,
         e.type = "frame" => wire.frame > 0,
         w.frame > 0 => wire.frame > 0
  PROVE  BenchInv'
<1> USE DEF BenchInv, WireInv, WireType
<1>1. /\ DOMAIN wire'.events = 1 .. Len(wire.events) + 1
      /\ DOMAIN wire.events = 1 .. Len(wire.events)
      /\ \A i \in DOMAIN wire.events : wire'.events[i] = wire.events[i]
      /\ wire'.events[Len(wire.events) + 1] = e
      /\ Len(wire.events) \in Nat
  BY SentBehind
<1>2. \A i \in DOMAIN wire'.events :
        \/ i \in DOMAIN wire.events /\ wire'.events[i] = wire.events[i]
        \/ i = Len(wire.events) + 1 /\ wire'.events[i] = e
  BY <1>1
<1>3. \A type : Pending(type)' => Pending(type) \/ e.type = type
  BY <1>2 DEF Pending
<1>4. ~wire'.up => wire'.events = << >> /\ ~wire'.sync
  OBVIOUS
<1>5. /\ wire'.sync => cpc' = "settle" /\ ~Pending("sync")'
      /\ Pending("sync")' => cpc' = "settle"
      /\ wire'.frame > 0 \/ Pending("frame")'
           => cpc' \in {"loop", "cleanup", "ended"}
  BY <1>3
<1>6. \A i, j \in DOMAIN wire'.events :
        wire'.events[i].type = "sync" /\ wire'.events[j].type = "sync" => i = j
  BY <1>2 DEF Pending
<1>7. RoomInv'
  BY DEF RoomInv
<1> QED BY <1>4, <1>5, <1>6, <1>7

(* The steps of the compositor. *)
LEMMA CompositorKeeps == BenchInv /\ Compositor => BenchInv'
<1> SUFFICES ASSUME BenchInv, Compositor PROVE BenchInv'
  OBVIOUS
<1> USE DEF HasWindow, WireType
<1>t. wire \in WireType
  BY DEF BenchInv, WireInv
<1>1. ASSUME NEW s \in Sizes, SendSize(s) PROVE BenchInv'
  <2>1. Size(s) \in EventType /\ Event("configure") \in EventType
    BY DEF Size, Event, EventType
  <2> DEFINE ev == wire.events \o <<Size(s), Event("configure")>>
  <2>2. wire' = [wire EXCEPT !.events = ev, !.sizes = @ + 1]
    BY <1>1 DEF SendSize
  <2>3. /\ ev \in Seq(EventType)
        /\ DOMAIN ev = 1 .. Len(wire.events) + 2
        /\ Len(wire.events) \in Nat
        /\ DOMAIN wire.events = 1 .. Len(wire.events)
        /\ \A i \in DOMAIN wire.events : ev[i] = wire.events[i]
        /\ ev[Len(wire.events) + 1] = Size(s)
        /\ ev[Len(wire.events) + 2] = Event("configure")
    BY <1>t, <2>1
  <2>4. \A i \in DOMAIN ev :
          \/ i \in DOMAIN wire.events /\ ev[i] = wire.events[i]
          \/ ev[i].type \in {"size", "configure"}
    BY <2>3 DEF Size, Event
  <2>5. /\ Pending("sync")' => Pending("sync")
        /\ Pending("frame")' => Pending("frame")
    BY <1>t, <2>2, <2>4 DEF Pending
  <2>6. wire' \in WireType /\ wire'.events = ev
    <3>1. wire.sizes + 1 \in Nat
      BY <1>t, WireFields
    <3> HIDE DEF ev, WireType
    <3>2. wire' \in WireType
      BY <1>t, <2>2, <2>3, <3>1, WireUpdated
    <3> QED BY <1>t, <2>2, <3>2 DEF WireType
  <2>7. WireInv'
    <3>1. wire.up /\ wire'.up /\ wire'.sync = wire.sync /\ wire'.frame = wire.frame /\ cpc' = cpc
      BY <1>1, <1>t, <2>2 DEF SendSize
    <3>2. \A i, j \in DOMAIN wire'.events :
            wire'.events[i].type = "sync" /\ wire'.events[j].type = "sync" => i = j
      BY <2>4, <2>6 DEF BenchInv, WireInv
    <3> QED BY <2>5, <2>6, <3>1, <3>2 DEF BenchInv, WireInv
  <2> QED BY <1>1, <2>7 DEF BenchInv, RoomInv, SendSize
<1>2. CASE SendClose
  <2>1. Event("close") \in EventType /\ Event("close").type = "close"
    BY DEF Event, EventType
  <2> DEFINE ev == wire.events \o <<Event("close")>>
  <2>2. ev \in Seq(EventType) /\ ev = Append(wire.events, Event("close"))
    BY <1>t, <2>1
  <2>3. wire' = [wire EXCEPT !.events = ev]
    BY <1>2 DEF SendClose, Send
  <2>4. wire' \in WireType /\ wire'.events = ev
    <3> HIDE DEF ev, WireType
    <3>1. wire' \in WireType
      BY <1>t, <2>2, <2>3, WireUpdated
    <3> QED BY <1>t, <2>3, <3>1 DEF WireType
  <2>5. wire.up /\ wire'.up = wire.up /\ wire'.sync = wire.sync /\ wire'.frame = wire.frame
    BY <1>2, <1>t, <2>3 DEF SendClose
  <2> QED BY <1>2, <2>1, <2>2, <2>4, <2>5, SendKeeps DEF SendClose
<1>3. CASE SendSync
  <2>1. Event("sync") \in EventType /\ Event("sync").type = "sync"
    BY DEF Event, EventType
  <2> DEFINE ev == Append(wire.events, Event("sync"))
  <2>2. wire' \in WireType /\ wire'.events = ev
    <3>1. ev \in Seq(EventType)
      BY <1>t, <2>1, WireFields, SentBehind
    <3>2. wire' = [wire EXCEPT !.events = ev, !.sync = FALSE]
      BY <1>3 DEF SendSync
    <3> HIDE DEF ev, WireType
    <3>4. wire' \in WireType
      BY <1>t, <3>1, <3>2, WireUpdated
    <3> QED BY <1>t, <3>2, <3>4 DEF WireType
  <2>3. wire.sync => cpc = "settle"
    BY DEF BenchInv, WireInv
  <2> QED BY <1>3, <1>t, <2>1, <2>2, <2>3, SendKeeps DEF SendSync
<1>4. CASE SendFrame
  <2>1. Event("frame") \in EventType /\ Event("frame").type = "frame"
    BY DEF Event, EventType
  <2> DEFINE ev == Append(wire.events, Event("frame"))
  <2>2. wire' \in WireType /\ wire'.events = ev
    <3>1. ev \in Seq(EventType)
      BY <1>t, <2>1, WireFields, SentBehind
    <3>2. wire' = [wire EXCEPT !.events = ev, !.frame = wire.frame - 1]
      BY <1>4 DEF SendFrame
    <3>3. wire.frame - 1 \in Nat
      BY <1>4, <1>t, WireFields DEF SendFrame
    <3> HIDE DEF ev, WireType
    <3>4. wire' \in WireType
      BY <1>t, <3>1, <3>2, <3>3, WireUpdated
    <3> QED BY <1>t, <3>2, <3>4 DEF WireType
  <2> QED BY <1>4, <1>t, <2>1, <2>2, SendKeeps DEF SendFrame
<1>5. CASE Disconnect
  <2>1. /\ wire' = [wire EXCEPT !.up = FALSE, !.events = << >>, !.sync = FALSE]
        /\ cpc \notin {"none", "ended"}
        /\ UNCHANGED <<cpc, client>>
    BY <1>5 DEF Disconnect
  <2>2. wire' \in WireType
    <3> HIDE DEF WireType
    <3>1. << >> \in Seq(EventType)
      OBVIOUS
    <3> QED BY <1>t, <2>1, <3>1, WireUpdated
  <2>3. /\ wire'.events = << >> /\ ~wire'.sync
        /\ wire'.frame = wire.frame
    BY <1>t, <2>1
  <2> QED BY <2>1, <2>2, <2>3 DEF BenchInv, WireInv, RoomInv, Pending
<1> QED BY <1>1, <1>2, <1>3, <1>4, <1>5 DEF Compositor

(* The fields of an event, a callback's updates of the variables. *)
LEMMA EventFields ==
  ASSUME NEW e \in EventType
  PROVE  /\ e.size \in Nat
         /\ e.type \in {"size", "configure", "close", "frame", "sync"}
<1>1. e.size \in Sizes \cup {0}
  BY DEF EventType
<1>2. e.type \in {"size", "configure", "close", "frame", "sync"}
  BY DEF EventType
<1>3. \A s \in Sizes \cup {0} : s \in Nat
  BY BenchmarkClientAssumption
<1> QED BY <1>1, <1>2, <1>3

LEMMA ClientUpdated ==
  ASSUME NEW c \in ClientType, NEW b \in BOOLEAN
  PROVE  /\ \A n \in Nat \ {0} : [c EXCEPT !.win = n, !.resized = b] \in ClientType
         /\ [c EXCEPT !.configured = b] \in ClientType
         /\ [c EXCEPT !.running = b] \in ClientType
         /\ [c EXCEPT !.overrun = b] \in ClientType
BY DEF ClientType

(* A callback leaves a buffer that is too small only behind a resize. *)
LEMMA HandlerKeeps ==
  ASSUME NEW e \in EventType, RoomInv, client' = Handled(client, e),
         cpc \in {"wait", "settle", "loop"},
         e.type = "frame" => cpc = "loop",
         cpc' = IF e.type = "sync" THEN "setup" ELSE cpc,
         e.type = "sync" => cpc = "settle"
  PROVE  RoomInv'
<1>t. client \in ClientType
  BY DEF RoomInv
<1>1. CASE e.type = "size"
  <2>1. client' = IF e.size > 0
                  THEN [client EXCEPT !.win = e.size, !.resized = client.room > 0]
                  ELSE client
    BY <1>1 DEF Handled, xdg_toplevel_configure
  <2>2. CASE e.size > 0
    <3> DEFINE b == client.room > 0
    <3>1. e.size \in Nat \ {0} /\ b \in BOOLEAN
      BY <2>2, EventFields
    <3>2. client' = [client EXCEPT !.win = e.size, !.resized = b]
      BY <2>1, <2>2
    <3>3. client' \in ClientType
      <4> HIDE DEF b
      <4>1. [client EXCEPT !.win = e.size, !.resized = b] \in ClientType
        BY <1>t, <3>1, ClientUpdated
      <4> QED BY <3>2, <4>1
    <3>4. /\ client'.win = e.size /\ client'.room = client.room
          /\ client'.overrun = client.overrun
      BY <1>t, <3>2 DEF ClientType
    <3>5. client'.resized = b
      <4> HIDE DEF b
      <4> QED BY <1>t, <3>2 DEF ClientType
    <3>6. cpc' = cpc
      BY <1>1
    <3> QED BY <1>t, <3>3, <3>4, <3>5, <3>6 DEF RoomInv, ClientType
  <2>3. CASE ~(e.size > 0)
    BY <1>1, <2>1, <2>3 DEF RoomInv
  <2> QED BY <2>2, <2>3
<1>2. CASE e.type \in {"configure", "close", "sync"}
  <2>1. \/ client' = [client EXCEPT !.configured = TRUE]
        \/ client' = [client EXCEPT !.running = FALSE]
        \/ client' = client
    <3>1. CASE e.type = "configure"
      BY <3>1 DEF Handled
    <3>2. CASE e.type = "close"
      BY <3>2 DEF Handled
    <3>3. CASE e.type = "sync"
      BY <3>3 DEF Handled
    <3> QED BY <1>2, <3>1, <3>2, <3>3
  <2>2. client' \in ClientType
    <3>1. /\ [client EXCEPT !.configured = TRUE] \in ClientType
          /\ [client EXCEPT !.running = FALSE] \in ClientType
      BY <1>t, ClientUpdated
    <3> QED BY <1>t, <2>1, <3>1
  <2>3. /\ client'.win = client.win /\ client'.room = client.room
        /\ client'.overrun = client.overrun /\ client'.resized = client.resized
    BY <1>t, <2>1 DEF ClientType
  <2> QED BY <1>2, <2>2, <2>3 DEF RoomInv
<1>3. CASE e.type = "frame"
  <2> DEFINE b == client.overrun \/ client.win > client.room
  <2>1. client' = client \/ client' = [client EXCEPT !.overrun = b]
    BY <1>3 DEF Handled, Draw
  <2>2. client' \in ClientType
    <3>1. b \in BOOLEAN
      BY <1>t DEF ClientType
    <3> HIDE DEF b
    <3> QED BY <1>t, <2>1, <3>1, ClientUpdated
  <2>3. /\ client'.win = client.win /\ client'.room = client.room
        /\ client'.resized = client.resized
        /\ client'.overrun = client.overrun \/ client'.overrun = b
    <3> HIDE DEF b
    <3> QED BY <1>t, <2>1 DEF ClientType
  <2> QED BY <1>t, <1>3, <2>2, <2>3 DEF RoomInv, ClientType
<1> QED BY <1>1, <1>2, <1>3, EventFields

(* The steps of the client. *)
LEMMA ClientKeeps == BenchInv /\ Main => BenchInv'
<1> SUFFICES ASSUME BenchInv, Main PROVE BenchInv'
  OBVIOUS
<1> USE DEF WireType, ClientType
<1>t. wire \in WireType /\ client \in ClientType
  BY DEF BenchInv, WireInv, RoomInv
<1>1. CASE Connect
  <2>1. PICK up \in BOOLEAN : /\ wire' = [wire EXCEPT !.up = up]
                              /\ cpc' = IF up THEN "wait" ELSE "ended"
    BY <1>1 DEF Connect
  <2>2. cpc = "connect" /\ client' = client
    BY <1>1 DEF Connect
  <2>3. wire' \in WireType
    <3> HIDE DEF WireType
    <3> QED BY <1>t, <2>1, WireUpdated
  <2>4. /\ wire'.up = up /\ wire'.events = wire.events
        /\ wire'.sync = wire.sync /\ wire'.frame = wire.frame
    BY <1>t, <2>1
  <2>6. WireInv'
    BY <2>1, <2>2, <2>3, <2>4 DEF BenchInv, WireInv, Pending
  <2> QED BY <2>1, <2>2, <2>6 DEF BenchInv, RoomInv
<1>2. CASE Dispatch
  <2> DEFINE e == Head(wire.events)
  <2>1. /\ e \in EventType
        /\ e = wire.events[1] /\ 1 \in DOMAIN wire.events
        /\ Tail(wire.events) \in Seq(EventType)
        /\ \A i \in DOMAIN Tail(wire.events) :
             /\ i \in Nat \ {0} /\ i + 1 \in DOMAIN wire.events
             /\ Tail(wire.events)[i] = wire.events[i + 1]
    BY <1>2, <1>t, TakenFromFront DEF Dispatch
  <2>2. /\ e.type = "sync" => cpc = "settle"
        /\ e.type = "frame" => cpc = "loop"
    BY <1>2, <2>1 DEF BenchInv, WireInv, Pending, Dispatch
  <2>3. /\ client' = Handled(client, e)
        /\ cpc' = IF e.type = "sync" THEN "setup" ELSE cpc
        /\ cpc \in {"wait", "settle", "loop"}
    BY <1>2 DEF Dispatch
  <2>4. RoomInv'
    BY <2>1, <2>2, <2>3, HandlerKeeps DEF BenchInv
  <2>5. /\ wire' \in WireType
        /\ wire'.events = Tail(wire.events)
        /\ wire'.up /\ wire.up /\ wire'.sync = wire.sync
        /\ wire'.frame > 0 => wire.frame > 0 \/ e.type = "frame"
    <3> DEFINE ev == Tail(wire.events)
               rest == [wire EXCEPT !.events = ev]
    <3>1. wire.up /\ (wire' = rest \/ (e.type = "frame" /\ wire' = Commit(rest)))
      BY <1>2 DEF Dispatch
    <3>2. ev \in Seq(EventType) /\ wire.frame + 1 \in Nat
      BY <1>t, <2>1, WireFields
    <3>3. rest \in WireType /\ rest.events = ev
          /\ rest.up = wire.up /\ rest.sync = wire.sync /\ rest.frame = wire.frame
      BY <1>t, <3>2
    <3>4. Commit(rest) = [rest EXCEPT !.frame = wire.frame + 1]
      BY <3>3 DEF Commit
    <3> HIDE DEF rest, ev
    <3>5. [rest EXCEPT !.frame = wire.frame + 1] \in WireType
      <4> HIDE DEF WireType
      <4> QED BY <3>2, <3>3, WireUpdated
    <3>6. CASE wire' = rest
      BY <3>1, <3>3, <3>6 DEF ev
    <3>7. CASE e.type = "frame" /\ wire' = Commit(rest)
      BY <3>1, <3>3, <3>4, <3>5, <3>7 DEF ev
    <3> QED BY <3>1, <3>6, <3>7
  <2>6. /\ Pending("sync")' => Pending("sync") /\ e.type # "sync"
        /\ Pending("frame")' => Pending("frame")
    BY <2>1, <2>5 DEF Pending, BenchInv, WireInv
  <2>7. wire.sync => e.type # "sync"
    BY <2>1 DEF Pending, BenchInv, WireInv
  <2>8. \A i, j \in DOMAIN wire'.events :
          wire'.events[i].type = "sync" /\ wire'.events[j].type = "sync" => i = j
    BY <2>1, <2>5 DEF BenchInv, WireInv
  <2>9. wire'.frame > 0 \/ Pending("frame")'
          => cpc' \in {"loop", "cleanup", "ended"}
    BY <2>2, <2>3, <2>5, <2>6 DEF BenchInv, WireInv
  <2> QED BY <2>3, <2>4, <2>5, <2>6, <2>7, <2>8, <2>9 DEF BenchInv, WireInv
<1>3. CASE Configured
  BY <1>3, <1>t DEF Configured, BenchInv, WireInv, RoomInv, Pending
<1>4. CASE NotSettled
  BY <1>4 DEF NotSettled, BenchInv, WireInv, RoomInv, Pending
<1>5. CASE Setup
  <2>1. /\ wire' = [wire EXCEPT !.frame = wire.frame + 1]
        /\ cpc = "setup" /\ cpc' = "loop"
        /\ client' = [client EXCEPT !.room = client.win]
    BY <1>5 DEF Setup, Commit
  <2>2. WireInv'
    BY <1>t, <2>1 DEF BenchInv, WireInv, Pending
  <2> QED BY <1>t, <2>1, <2>2 DEF BenchInv, RoomInv
<1>6. CASE SetupFails
  BY <1>6 DEF SetupFails, BenchInv, WireInv, RoomInv, Pending
<1>7. CASE LeaveLoop
  BY <1>7 DEF LeaveLoop, BenchInv, WireInv, RoomInv, Pending
<1>8. CASE Cleanup
  BY <1>8, <1>t DEF Cleanup, Draw, BenchInv, WireInv, RoomInv, Pending
<1> QED BY <1>1, <1>2, <1>3, <1>4, <1>5, <1>6, <1>7, <1>8 DEF Main

LEMMA BenchKeeps == BenchInv /\ [Next]_vars => BenchInv'
<1> SUFFICES ASSUME BenchInv, [Next]_vars PROVE BenchInv'
  OBVIOUS
<1>1. CASE UNCHANGED benchVars
  BY <1>1 DEF benchVars, BenchInv, WireInv, RoomInv, Pending
<1>2. CASE StartBenchmark
  BY <1>2, AfreshKeeps DEF StartBenchmark
<1>3. ASSUME NEW p \in Pids, Killed(p) \/ Exits(p) PROVE BenchInv'
  BY <1>1, <1>3, AfreshKeeps DEF Killed, Exits, Ends
<1>4. CASE ClientRuns
  BY <1>4, ClientKeeps DEF ClientRuns
<1>5. CASE CompositorRuns
  BY <1>5, CompositorKeeps DEF CompositorRuns
<1> QED BY <1>1, <1>2, <1>3, <1>4, <1>5
        DEF Next, vars, EndBenchmark, nativeStartVirglServer, nativeStopVirglServer,
            nativeIsVirglRunning, Reaped

(* A frame is read back into a buffer it fits, and unmapped as it was      *)
(* mapped, unless the window is resized after the two roundtrips, for any  *)
(* sizes, number of configures and order of the events.                    *)
THEOREM FramesFit == Spec => []ReadbackFits
<1>1. BenchInv => ReadbackFits
  BY DEF BenchInv, RoomInv, ReadbackFits
<1> QED BY <1>1, BenchStart, BenchKeeps, PTL DEF Spec

-----------------------------------------------------------------------------
LEMMA FramesStart == Init => FrameInv /\ BoundInv
BY BenchmarkClientAssumption
DEF Init, BenchInit, NewClient, NewWire, FrameInv, BoundInv, Pending

LEMMA FramesAfresh ==
  ASSUME Exec \/ Exited
  PROVE  FrameInv' /\ BoundInv'
<1>1. cpc' \in {"none", "connect"} /\ client' = NewClient /\ wire' = NewWire
  BY DEF Exec, Exited
<1> QED BY <1>1, BenchmarkClientAssumption DEF FrameInv, BoundInv, Pending, NewWire, NewClient

(* The connection w after e was sent on it. *)
LEMMA FrameSent ==
  ASSUME FrameInv, wire \in WireType, NEW e \in EventType,
         wire'.events = Append(wire.events, e),
         wire'.up = wire.up, UNCHANGED <<cpc, client>>,
         wire'.frame = IF e.type = "frame" THEN 0 ELSE wire.frame,
         e.type = "frame" => wire.frame = 1
  PROVE  FrameInv'
<1> USE DEF FrameInv
<1>0. wire.events \in Seq(EventType)
  BY WireFields
<1>1. /\ DOMAIN wire'.events = 1 .. Len(wire.events) + 1
      /\ DOMAIN wire.events = 1 .. Len(wire.events)
      /\ \A i \in DOMAIN wire.events : wire'.events[i] = wire.events[i]
      /\ wire'.events[Len(wire.events) + 1] = e
      /\ Len(wire.events) \in Nat
  BY <1>0, SentBehind
<1>2. \A i \in DOMAIN wire'.events :
        \/ i \in DOMAIN wire.events /\ wire'.events[i] = wire.events[i]
        \/ i = Len(wire.events) + 1 /\ wire'.events[i] = e
  BY <1>1
<1>3. Pending("frame")' <=> Pending("frame") \/ e.type = "frame"
  BY <1>1, <1>2 DEF Pending
<1>4. \A i, j \in DOMAIN wire'.events :
        wire'.events[i].type = "frame" /\ wire'.events[j].type = "frame" => i = j
  BY <1>2 DEF Pending
<1> QED BY <1>3, <1>4

LEMMA FramesCompositor ==
  BenchInv /\ FrameInv /\ BoundInv /\ Compositor => FrameInv' /\ BoundInv'
<1> SUFFICES ASSUME BenchInv, FrameInv, BoundInv, Compositor
             PROVE  FrameInv' /\ BoundInv'
  OBVIOUS
<1>t. wire \in WireType
  BY DEF BenchInv, WireInv
<1>1. ASSUME NEW s \in Sizes, SendSize(s) PROVE FrameInv' /\ BoundInv'
  <2> DEFINE ev == wire.events \o <<Size(s), Event("configure")>>
  <2>1. /\ wire' = [wire EXCEPT !.events = ev, !.sizes = @ + 1]
        /\ wire.sizes < MaxSizes
        /\ UNCHANGED <<cpc, client>>
    BY <1>1 DEF SendSize
  <2>2. Size(s) \in EventType /\ Event("configure") \in EventType
    BY DEF Size, Event, EventType
  <2>3. /\ DOMAIN ev = 1 .. Len(wire.events) + 2
        /\ Len(wire.events) \in Nat
        /\ DOMAIN wire.events = 1 .. Len(wire.events)
        /\ \A i \in DOMAIN wire.events : ev[i] = wire.events[i]
        /\ ev[Len(wire.events) + 1] = Size(s)
        /\ ev[Len(wire.events) + 2] = Event("configure")
    BY <1>t, <2>2, WireFields
  <2>4. \A i \in DOMAIN ev :
          \/ i \in DOMAIN wire.events /\ ev[i] = wire.events[i]
          \/ ev[i].type \in {"size", "configure"}
    BY <2>3 DEF Size, Event
  <2>5. \A i \in DOMAIN wire.events : i \in DOMAIN ev
    BY <2>3
  <2> HIDE DEF ev
  <2>6. /\ wire'.events = ev /\ wire'.frame = wire.frame /\ wire'.up = wire.up
        /\ wire'.sizes = wire.sizes + 1
    BY <1>t, <2>1 DEF WireType
  <2>7. Pending("frame")' <=> Pending("frame")
    BY <2>3, <2>4, <2>5, <2>6 DEF Pending
  <2>8. \A i, j \in DOMAIN wire'.events :
          wire'.events[i].type = "frame" /\ wire'.events[j].type = "frame" => i = j
    BY <2>4, <2>6 DEF FrameInv
  <2>9. wire'.sizes <= MaxSizes
    BY <1>t, <2>1, <2>6, BenchmarkClientAssumption DEF WireType
  <2> QED BY <2>1, <2>6, <2>7, <2>8, <2>9 DEF FrameInv, BoundInv
<1>2. CASE SendClose
  <2> DEFINE ev == Append(wire.events, Event("close"))
  <2>1. wire' = [wire EXCEPT !.events = ev] /\ UNCHANGED <<cpc, client>>
    <3>1. wire.events \o <<Event("close")>> = ev
      BY <1>t, WireFields DEF Event, EventType
    <3> QED BY <1>2, <3>1 DEF SendClose, Send
  <2>2. Event("close") \in EventType /\ Event("close").type # "frame"
    BY DEF Event, EventType
  <2> HIDE DEF ev
  <2>3. /\ wire'.events = ev /\ wire'.frame = wire.frame /\ wire'.up = wire.up
        /\ wire'.sizes = wire.sizes
    BY <1>t, <2>1 DEF WireType
  <2>4. FrameInv'
    BY <1>t, <2>1, <2>2, <2>3, FrameSent DEF ev
  <2> QED BY <2>1, <2>3, <2>4 DEF BoundInv
<1>3. CASE SendSync
  <2> DEFINE ev == Append(wire.events, Event("sync"))
  <2>1. wire' = [wire EXCEPT !.events = ev, !.sync = FALSE] /\ UNCHANGED <<cpc, client>>
    BY <1>3 DEF SendSync
  <2>2. Event("sync") \in EventType /\ Event("sync").type # "frame"
    BY DEF Event, EventType
  <2> HIDE DEF ev
  <2>3. /\ wire'.events = ev /\ wire'.frame = wire.frame /\ wire'.up = wire.up
        /\ wire'.sizes = wire.sizes
    BY <1>t, <2>1 DEF WireType
  <2>4. FrameInv'
    BY <1>t, <2>1, <2>2, <2>3, FrameSent DEF ev
  <2> QED BY <2>1, <2>3, <2>4 DEF BoundInv
<1>4. CASE SendFrame
  <2> DEFINE ev == Append(wire.events, Event("frame"))
  <2>0. wire.frame = 1
    BY <1>4, <1>t DEF SendFrame, FrameInv, WireType
  <2>1. wire' = [wire EXCEPT !.events = ev, !.frame = 0] /\ UNCHANGED <<cpc, client>>
    BY <1>4, <2>0 DEF SendFrame
  <2>2. Event("frame") \in EventType /\ Event("frame").type = "frame"
    BY DEF Event, EventType
  <2> HIDE DEF ev
  <2>3. /\ wire'.events = ev /\ wire'.frame = 0 /\ wire'.up = wire.up
        /\ wire'.sizes = wire.sizes
    BY <1>t, <2>1 DEF WireType
  <2>4. FrameInv'
    BY <1>t, <2>0, <2>1, <2>2, <2>3, FrameSent DEF ev
  <2> QED BY <2>1, <2>3, <2>4 DEF BoundInv
<1>5. CASE Disconnect
  <2>1. /\ wire' = [wire EXCEPT !.up = FALSE, !.events = << >>, !.sync = FALSE]
        /\ UNCHANGED <<cpc, client>>
    BY <1>5 DEF Disconnect
  <2>2. /\ wire'.events = << >> /\ ~wire'.up
        /\ wire'.frame = wire.frame /\ wire'.sizes = wire.sizes
    BY <1>t, <2>1 DEF WireType
  <2>3. ~Pending("frame")'
    BY <2>2 DEF Pending
  <2> QED BY <2>1, <2>2, <2>3 DEF FrameInv, BoundInv
<1> QED BY <1>1, <1>2, <1>3, <1>4, <1>5 DEF Compositor

(* The event at the front is dispatched. *)
LEMMA FramesDispatch ==
  BenchInv /\ FrameInv /\ BoundInv /\ Dispatch => FrameInv' /\ BoundInv'
<1> SUFFICES ASSUME BenchInv, FrameInv, BoundInv, Dispatch
             PROVE  FrameInv' /\ BoundInv'
  OBVIOUS
<1>t. wire \in WireType /\ client \in ClientType
  BY DEF BenchInv, WireInv, RoomInv
<1> DEFINE e == Head(wire.events)
           ev == Tail(wire.events)
           rest == [wire EXCEPT !.events = ev]
<1>1. /\ e \in EventType
      /\ e = wire.events[1] /\ 1 \in DOMAIN wire.events
      /\ \A i \in DOMAIN ev : /\ i \in Nat \ {0} /\ i + 1 \in DOMAIN wire.events
                             /\ ev[i] = wire.events[i + 1]
      /\ \A i \in DOMAIN wire.events : i # 1 => i - 1 \in DOMAIN ev /\ ev[i - 1] = wire.events[i]
  <2>1. wire.events \in Seq(EventType) /\ wire.events # << >>
    BY <1>t, WireFields DEF Dispatch
  <2>2. \A i \in DOMAIN wire.events : i # 1 => i - 1 \in DOMAIN ev /\ ev[i - 1] = wire.events[i]
    BY <2>1
  <2> QED BY <2>1, <2>2, TakenFromFront
<1>2. /\ client' = Handled(client, e)
      /\ wire' = IF e.type = "frame" /\ client.running THEN Commit(rest) ELSE rest
      /\ cpc' = IF e.type = "sync" THEN "setup" ELSE cpc
      /\ cpc \in {"wait", "settle", "loop"}
      /\ e.type = "sync" => cpc = "settle"
    BY <1>1 DEF Dispatch, BenchInv, WireInv, Pending
<1>3. rest.events = ev /\ rest.frame = wire.frame /\ rest.up = wire.up /\ rest.sizes = wire.sizes
  <2> HIDE DEF ev
  <2> QED BY <1>t DEF WireType
<1>4. Commit(rest) = [rest EXCEPT !.frame = wire.frame + 1]
  BY <1>3 DEF Commit
<1>5. /\ wire'.events = ev /\ wire'.up = wire.up /\ wire'.sizes = wire.sizes
      /\ e.type = "frame" /\ client.running => wire'.frame = wire.frame + 1
      /\ ~(e.type = "frame" /\ client.running) => wire'.frame = wire.frame
  <2>1. rest \in WireType
    <3> HIDE DEF WireType
    <3>1. ev \in Seq(EventType)
      BY <1>t, <1>1, WireFields, TakenFromFront DEF Dispatch
    <3> HIDE DEF ev
    <3> QED BY <1>t, <3>1, WireUpdated
  <2> HIDE DEF rest, ev
  <2>2. CASE e.type = "frame" /\ client.running
    <3>1. wire' = [rest EXCEPT !.frame = wire.frame + 1]
      BY <1>2, <1>4, <2>2
    <3> QED BY <1>3, <2>1, <2>2, <3>1 DEF WireType
  <2>3. CASE ~(e.type = "frame" /\ client.running)
    BY <1>2, <1>3, <2>3
  <2> QED BY <2>2, <2>3
<1>6. /\ client'.room = client.room
      /\ client'.win = client.win \/ client'.win \in Sizes
      /\ client.configured => client'.configured
      /\ client'.running => client.running
  <2> HIDE DEF e
  <2>1. CASE e.type = "size"
    <3>1. client' = IF e.size > 0
                    THEN [client EXCEPT !.win = e.size, !.resized = client.room > 0]
                    ELSE client
      BY <1>2, <2>1 DEF Handled, xdg_toplevel_configure
    <3>2. CASE e.size > 0
      <4> DEFINE b == client.room > 0
      <4>1. client' = [client EXCEPT !.win = e.size, !.resized = b]
        BY <3>1, <3>2
      <4>2. e.size \in Sizes
        BY <1>1, <3>2 DEF EventType
      <4> HIDE DEF b
      <4>3. /\ client'.room = client.room /\ client'.win = e.size
            /\ client'.configured = client.configured
            /\ client'.running = client.running
        BY <1>t, <4>1 DEF ClientType
      <4> QED BY <2>1, <4>2, <4>3, <1>t DEF ClientType
    <3> QED BY <2>1, <3>1, <3>2, <1>t DEF ClientType
  <2>2. CASE e.type = "configure"
    <3>1. client' = [client EXCEPT !.configured = TRUE]
      BY <1>2, <2>2 DEF Handled
    <3> QED BY <1>t, <2>2, <3>1 DEF ClientType
  <2>3. CASE e.type = "close"
    <3>1. client' = [client EXCEPT !.running = FALSE]
      BY <1>2, <2>3 DEF Handled
    <3> QED BY <1>t, <2>3, <3>1 DEF ClientType
  <2>4. CASE e.type = "sync"
    <3>1. client' = client
      BY <1>2, <2>4 DEF Handled
    <3> QED BY <1>t, <2>4, <3>1 DEF ClientType
  <2>5. CASE e.type = "frame"
    <3> DEFINE b == client.overrun \/ client.win > client.room
    <3>1. client' = client \/ client' = [client EXCEPT !.overrun = b]
      BY <1>2, <2>5 DEF Handled, Draw
    <3> HIDE DEF b
    <3> QED BY <1>t, <2>5, <3>1 DEF ClientType
  <2> QED BY <1>1, <2>1, <2>2, <2>3, <2>4, <2>5, EventFields
<1> HIDE DEF e, ev
<1>7. \A i, j \in DOMAIN wire'.events :
        wire'.events[i].type = "frame" /\ wire'.events[j].type = "frame" => i = j
  <2> SUFFICES ASSUME NEW i \in DOMAIN ev, NEW j \in DOMAIN ev,
                      ev[i].type = "frame", ev[j].type = "frame"
               PROVE  i = j
    BY <1>5
  <2>1. i + 1 = j + 1
    BY <1>1 DEF FrameInv
  <2> QED BY <1>1, <2>1
<1>8. /\ Pending("frame")' => Pending("frame") /\ e.type # "frame"
      /\ Pending("frame") /\ e.type # "frame" => Pending("frame")'
      /\ e.type = "frame" => Pending("frame")
  <2>1. ASSUME NEW i \in DOMAIN ev, ev[i].type = "frame"
        PROVE  Pending("frame") /\ e.type # "frame"
    <3>1. i + 1 \in DOMAIN wire.events /\ wire.events[i + 1].type = "frame" /\ i + 1 # 1
      BY <1>1, <2>1
    <3> QED BY <1>1, <3>1 DEF Pending, FrameInv
  <2>2. Pending("frame")' => \E i \in DOMAIN ev : ev[i].type = "frame"
    BY <1>5 DEF Pending
  <2>3. Pending("frame") /\ e.type # "frame" => Pending("frame")'
    BY <1>1, <1>5 DEF Pending
  <2>4. e.type = "frame" => Pending("frame")
    BY <1>1 DEF Pending
  <2> QED BY <2>1, <2>2, <2>3, <2>4
<1>9. FrameInv'
  <2>1. wire.frame \in {0, 1}
    BY <1>t DEF FrameInv, WireType
  <2>2. CASE e.type = "frame"
    <3>1. wire.frame = 0 /\ ~Pending("frame")' /\ cpc' = cpc
      BY <1>2, <1>8, <2>1, <2>2 DEF FrameInv
    <3>2. /\ client.running => wire'.frame = 1
          /\ ~client.running => wire'.frame = 0 /\ ~client'.running
      BY <1>5, <1>6, <2>2, <3>1
    <3> QED BY <1>6, <1>7, <3>1, <3>2 DEF FrameInv
  <2>3. CASE e.type # "frame"
    <3>1. wire'.frame = wire.frame /\ (Pending("frame")' <=> Pending("frame"))
      BY <1>5, <1>8, <2>3
    <3> QED BY <1>2, <1>5, <1>6, <1>7, <2>1, <3>1 DEF FrameInv
  <2> QED BY <2>2, <2>3
<1>10. BoundInv'
  BY <1>2, <1>5, <1>6 DEF BoundInv
<1> QED BY <1>9, <1>10

(* Every other step of the client. *)
LEMMA FramesClient ==
  BenchInv /\ FrameInv /\ BoundInv /\ Main => FrameInv' /\ BoundInv'
<1> SUFFICES ASSUME BenchInv, FrameInv, BoundInv, Main
             PROVE  FrameInv' /\ BoundInv'
  OBVIOUS
<1>t. wire \in WireType /\ client \in ClientType
  BY DEF BenchInv, WireInv, RoomInv
<1>1. CASE Connect
  <2>1. PICK up \in BOOLEAN : /\ wire' = [wire EXCEPT !.up = up]
                              /\ cpc' = IF up THEN "wait" ELSE "ended"
    BY <1>1 DEF Connect
  <2>2. /\ wire'.events = wire.events /\ wire'.frame = wire.frame
        /\ wire'.sizes = wire.sizes /\ client' = client
    BY <1>1, <1>t, <2>1 DEF Connect, WireType
  <2> QED BY <2>1, <2>2 DEF FrameInv, BoundInv, Pending
<1>2. CASE Dispatch
  BY <1>2, FramesDispatch
<1>3. CASE Configured
  <2>1. /\ wire'.events = wire.events /\ wire'.frame = wire.frame
        /\ wire'.sizes = wire.sizes /\ client' = client /\ cpc' = "settle"
        /\ client.configured
    BY <1>3, <1>t DEF Configured, WireType
  <2> QED BY <2>1 DEF FrameInv, BoundInv, Pending
<1>4. CASE NotSettled \/ SetupFails \/ LeaveLoop
  <2>1. /\ UNCHANGED <<client, wire>>
        /\ (cpc = "settle" /\ cpc' = "setup") \/ cpc' \in {"ended", "cleanup"}
    BY <1>4 DEF NotSettled, SetupFails, LeaveLoop
  <2> QED BY <2>1 DEF FrameInv, BoundInv, Pending
<1>5. CASE Setup
  <2>1. /\ wire' = [wire EXCEPT !.frame = wire.frame + 1]
        /\ cpc = "setup" /\ cpc' = "loop"
        /\ client' = [client EXCEPT !.room = client.win]
    BY <1>5 DEF Setup, Commit
  <2>2. wire.frame = 0 /\ ~Pending("frame") /\ client.configured
    BY <1>t, <2>1 DEF BenchInv, WireInv, FrameInv, WireType
  <2>3. /\ wire'.events = wire.events /\ wire'.frame = 1
        /\ wire'.sizes = wire.sizes
    BY <1>t, <2>1, <2>2 DEF WireType
  <2>4. /\ client'.win = client.win /\ client'.room = client.win
        /\ client'.configured = client.configured
    BY <1>t, <2>1 DEF ClientType
  <2> QED BY <2>1, <2>2, <2>3, <2>4 DEF FrameInv, BoundInv, Pending
<1>6. CASE Cleanup
  <2> DEFINE b == client.overrun \/ client.win > client.room
  <2>1. client' = [client EXCEPT !.overrun = b] /\ cpc' = "ended" /\ wire' = wire
    BY <1>6 DEF Cleanup, Draw
  <2> HIDE DEF b
  <2>2. client'.win = client.win /\ client'.room = client.room
    BY <1>t, <2>1 DEF ClientType
  <2> QED BY <2>1, <2>2 DEF FrameInv, BoundInv, Pending
<1> QED BY <1>1, <1>2, <1>3, <1>4, <1>5, <1>6 DEF Main

LEMMA FramesKeep ==
  BenchInv /\ FrameInv /\ BoundInv /\ [Next]_vars => FrameInv' /\ BoundInv'
<1> SUFFICES ASSUME BenchInv, FrameInv, BoundInv, [Next]_vars
             PROVE  FrameInv' /\ BoundInv'
  OBVIOUS
<1>1. CASE UNCHANGED benchVars
  BY <1>1 DEF benchVars, FrameInv, BoundInv, Pending
<1>2. CASE StartBenchmark
  BY <1>2, FramesAfresh DEF StartBenchmark
<1>3. ASSUME NEW p \in Pids, Killed(p) \/ Exits(p) PROVE FrameInv' /\ BoundInv'
  BY <1>1, <1>3, FramesAfresh DEF Killed, Exits, Ends
<1>4. CASE ClientRuns
  BY <1>4, FramesClient DEF ClientRuns
<1>5. CASE CompositorRuns
  BY <1>5, FramesCompositor DEF CompositorRuns
<1> QED BY <1>1, <1>2, <1>3, <1>4, <1>5
        DEF Next, vars, EndBenchmark, nativeStartVirglServer, nativeStopVirglServer,
            nativeIsVirglRunning, Reaped

(* Frames of the property, counted. *)
LEMMA OneFrame ==
  ASSUME BenchInv, FrameInv
  PROVE  OneFrameUnderWay
<1> SUFFICES ASSUME cpc = "loop", wire.up, client.running
             PROVE  wire.frame + Cardinality(Frames) = 1
  BY DEF OneFrameUnderWay, FrameInv
<1>1. wire.frame \in {0, 1}
  BY DEF FrameInv, BenchInv, WireInv, WireType
<1>2. CASE wire.frame = 1
  <2>1. Frames = {}
    BY <1>2 DEF Frames, FrameInv, Pending
  <2> QED BY <1>2, <2>1, FS_EmptySet
<1>3. CASE wire.frame = 0
  <2>1. PICK i \in DOMAIN wire.events : wire.events[i].type = "frame"
    BY <1>3 DEF FrameInv, Pending
  <2>2. Frames = {i}
    BY <2>1 DEF Frames, FrameInv
  <2>3. Cardinality(Frames) = 1
    BY <2>2, FS_Singleton
  <2> QED BY <1>3, <2>3
<1> QED BY <1>1, <1>2, <1>3

(* While the benchmark draws, it has asked for one frame, or was sent the  *)
(* answer and has not dispatched it, and it was configured before, for any *)
(* number of configures and any order of the compositor's answers.         *)
THEOREM OneFrameAtATime == Spec => []OneFrameUnderWay
BY BenchStart, BenchKeeps, FramesStart, FramesKeep, OneFrame, PTL DEF Spec

(* Every variable of the helpers and of the client keeps its type.         *)
THEOREM HelpersTyped == Spec => []TypeOK
<1>1. ASSUME BenchInv, FrameInv, BoundInv, ProcTypeOK PROVE TypeOK
  <2>1. client \in [win : Sizes \cup {Default}, configured : BOOLEAN,
                    running : BOOLEAN, room : Sizes \cup {0, Default},
                    overrun : BOOLEAN, resized : BOOLEAN]
    BY <1>1 DEF BenchInv, RoomInv, ClientType, BoundInv
  <2>2. wire \in [up : BOOLEAN, events : Seq(EventType), sizes : 0 .. MaxSizes,
                  sync : BOOLEAN, frame : 0 .. 1]
    <3>1. wire.sizes \in 0 .. MaxSizes /\ wire.frame \in 0 .. 1
      BY <1>1, BenchmarkClientAssumption
      DEF BenchInv, WireInv, WireType, BoundInv, FrameInv
    <3> QED BY <1>1, <3>1 DEF BenchInv, WireInv, WireType
  <2> QED BY <1>1, <2>1, <2>2 DEF TypeOK, BenchTypeOK, ProcTypeOK, BoundInv
<1> QED BY <1>1, ProcStart, ProcKeeps, BenchStart, BenchKeeps, FramesStart, FramesKeep,
           PTL DEF Spec
=============================================================================
