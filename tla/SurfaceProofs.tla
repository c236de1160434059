---------------------------- MODULE SurfaceProofs ----------------------------
(***************************************************************************)
(* Proofs about the surface: what the window lock and the order of steps   *)
(* in nativeSetSurface() guarantee for every set of sizes and any number   *)
(* of surfaces, whether or not calls and ticks overlap, devices fail or    *)
(* the compositor restarts; then, in the last section, what holds besides  *)
(* when calls and ticks take turns and nothing fails.                      *)
(***************************************************************************)
EXTENDS Surface, TLAPS

-----------------------------------------------------------------------------
(* The inductive invariant. *)

(* A surface that is being set still has a number left for its window. *)
NumberInv ==
  /\ jpc \in {"destroy", "forget", "lock", "replace"} => surfaces < MaxSurfaces
  /\ window <= surfaces

(* Who is where while the lock is held: the lock is taken before the       *)
(* window is touched and released after.                                   *)
LockInv ==
  /\ lock = "jni" => jpc \in {"replace", "create", "width", "height", "reblit", "unlock"}
  /\ jpc \in {"replace", "create", "reblit", "unlock"} => lock = "jni"
  /\ lock = "tick" => tpc \in {"blit", "copy"}
  /\ tpc \in {"blit", "copy"} => lock = "tick"
  /\ tpc = "copy" => target = window

(* The presenter is the window's own or NULL, and NULL while the window    *)
(* changes; one that was destroyed is about to be forgotten.               *)
PresenterInv ==
  /\ presenter # NULL => presenter = window
  /\ jpc \in {"lock", "replace", "create"} => presenter = NULL
  /\ jpc = "destroy" => presenter # NULL
  /\ presenter \in destroyed => jpc = "forget"
  /\ jpc = "create" => window # NULL /\ window \notin destroyed
  /\ \A d \in destroyed : d <= surfaces

IInv == TypeOK /\ NumberInv /\ LockInv /\ PresenterInv

-----------------------------------------------------------------------------
(* Sizes. *)

(* A quotient of natural numbers is a natural number. *)
LEMMA Quotient ==
  ASSUME NEW n \in Nat, NEW d \in Nat \ {0}
  PROVE  n \div d \in Nat
OBVIOUS

(* The size at any zoom is a size. *)
LEMMA ZoomedType ==
  ASSUME NEW s \in MaybeSize, NEW z \in Nat
  PROVE  Zoomed(s, z) \in MaybeSize
<1> DEFINE zoom == CASE z < 500 -> 500 [] z > 4000 -> 4000 [] OTHER -> z
           at(n) == AtLeast100((n * 1000) \div zoom)
<1>1. zoom \in Nat \ {0}
  OBVIOUS
<1>2. ASSUME NEW n \in Nat PROVE at(n) \in Nat
  <2>1. n * 1000 \in Nat
    OBVIOUS
  <2>2. (n * 1000) \div zoom \in Nat
    <3> HIDE DEF zoom
    <3> QED BY <1>1, <2>1, Quotient
  <2> HIDE DEF zoom
  <2> QED BY <2>2 DEF AtLeast100
<1>3. Zoomed(s, z) = <<at(s[1]), at(s[2])>>
  BY DEF Zoomed
<1>4. s[1] \in Nat /\ s[2] \in Nat
  BY DEF MaybeSize
<1> HIDE DEF at
<1> QED BY <1>2, <1>3, <1>4 DEF MaybeSize

(* The logical size of a surface is a size. *)
LEMMA LogicalType ==
  ASSUME NEW s \in Physical
  PROVE  Logical(s) \in MaybeSize
<1>1. s[1] \in Nat /\ s[2] \in Nat
  BY SurfaceAssumption DEF Size
<1> QED BY <1>1 DEF Logical, DPI_SCALE, MaybeSize

(* The visible area in logical pixels is a size. *)
LEMMA VisibleType ==
  ASSUME NEW v \in Visible
  PROVE  <<v[1] \div DPI_SCALE, v[2] \div DPI_SCALE>> \in MaybeSize
<1>1. v[1] \in Nat /\ v[2] \in Nat
  BY SurfaceAssumption DEF Size
<1> QED BY <1>1 DEF DPI_SCALE, MaybeSize

(* The sizes and numbers that the actions name belong to their types. *)
LEMMA NamedValues ==
  /\ NoSize \in MaybeSize /\ DefaultMode \in MaybeSize
  /\ NULL \in Windows
  /\ NoRequest \in [b : Boxes, size : MaybeSize, commit : BOOLEAN]
BY SurfaceAssumption DEF NoSize, MaybeSize, NoRequest, NULL, Windows, Boxes, Size

(* One dimension of a size is a number, and may be replaced. *)
LEMMA Dimension ==
  ASSUME NEW s \in MaybeSize, NEW n \in Nat
  PROVE  /\ s[1] \in Nat /\ s[2] \in Nat
         /\ [s EXCEPT ![1] = n] \in MaybeSize
         /\ [s EXCEPT ![2] = n] \in MaybeSize
         /\ <<s[1], n>> \in MaybeSize
BY DEF MaybeSize

(* Storing one word of a box leaves two boxes with sizes. *)
LEMMA StoreWord ==
  ASSUME NEW f \in [Boxes -> MaybeSize], NEW b \in Boxes, NEW n \in Nat
  PROVE  /\ [f EXCEPT ![b][1] = n] \in [Boxes -> MaybeSize]
         /\ [f EXCEPT ![b][2] = n] \in [Boxes -> MaybeSize]
<1>1. f[b] \in MaybeSize
  OBVIOUS
<1> QED BY Dimension, <1>1

(* The frame that is cached, whatever the window and the mode are. *)
LEMMA CachedFrame ==
  ASSUME NEW g \in MaybeSize, NEW m \in MaybeSize, NEW stride \in Nat, NEW room \in Nat
  PROVE  /\ [w |-> Least(g[1], stride), h |-> Least(g[2], m[2]), stride |-> stride,
             room |-> room]
              \in [w : Nat, h : Nat, stride : Nat, room : Nat]
         /\ stride * Least(g[2], m[2]) \in Nat
<1>1. g[1] \in Nat /\ g[2] \in Nat /\ m[2] \in Nat
  BY DEF MaybeSize
<1>2. Least(g[1], stride) \in Nat /\ Least(g[2], m[2]) \in Nat
  BY <1>1 DEF Least
<1>3. ASSUME NEW i \in Nat, NEW j \in Nat PROVE i * j \in Nat
  OBVIOUS
<1> QED BY <1>1, <1>2, <1>3

-----------------------------------------------------------------------------
(* The invariant holds initially, and every step keeps it. *)

LEMMA InitIInv == Init => IInv
<1> SUFFICES ASSUME Init PROVE IInv
  OBVIOUS
<1>1. TypeOK
  BY NamedValues, SurfaceAssumption DEF Init, TypeOK, NULL, Windows, Boxes
<1>2. NumberInv /\ LockInv /\ PresenterInv
  BY SurfaceAssumption DEF Init, NumberInv, LockInv, PresenterInv, NULL
<1> QED BY <1>1, <1>2 DEF IInv

(* A step keeps the types. *)
LEMMA TypeStep == IInv /\ [Next]_vars => TypeOK'
<1> SUFFICES ASSUME IInv, [Next]_vars PROVE TypeOK'
  OBVIOUS
<1>0. TypeOK /\ NumberInv /\ PresenterInv
  BY DEF IInv
<1> USE <1>0 DEF TypeOK, windowVars, presenterVars, frameVars, jniVars, tickVars
<1>1. ASSUME NEW s \in Physical \cup {NoSize}, SetSurface(s) PROVE TypeOK'
  BY <1>1 DEF SetSurface
<1>2. CASE DestroyPresenter
  <2>1. presenter \in 1 .. MaxSurfaces
    BY SurfaceAssumption, <1>2 DEF DestroyPresenter, PresenterInv, Windows, NULL
  <2> QED BY <1>2, <2>1 DEF DestroyPresenter
<1>3. CASE ForgetPresenter
  BY NamedValues, <1>3 DEF ForgetPresenter
<1>4. CASE LockWindow
  BY <1>4 DEF LockWindow
<1>5. CASE ReplaceWindow
  <2>1. surfaces + 1 \in Windows
    BY SurfaceAssumption, <1>5 DEF ReplaceWindow, NumberInv, Windows
  <2>2. surface # NoSize => Logical(surface) \in MaybeSize
    BY LogicalType
  <2>3. surface # NoSize =>
          [b |-> "output", size |-> Logical(surface), commit |-> TRUE]
            \in [b : Boxes, size : MaybeSize, commit : BOOLEAN]
    BY <2>2 DEF Boxes
  <2>4. surfaces' \in Windows /\ surface' \in Physical \cup {NoSize}
    BY <1>5, <2>1 DEF ReplaceWindow
  <2>5. window' \in Windows
    BY NamedValues, <1>5, <2>1 DEF ReplaceWindow
  <2>6. geometry' \in MaybeSize /\ max_surface' \in MaybeSize
    BY NamedValues, <1>5, <2>2 DEF ReplaceWindow
  <2>7. request' \in [b : Boxes, size : MaybeSize, commit : BOOLEAN]
    BY <1>5, <2>3 DEF ReplaceWindow
  <2>8. preview' \in BOOLEAN /\ shown' \in BOOLEAN /\ jpc' \in {"create", "unlock"}
    BY <1>5 DEF ReplaceWindow
  <2> QED BY <1>5, <2>4, <2>5, <2>6, <2>7, <2>8 DEF ReplaceWindow
<1>6. CASE CreatePresenter
  BY NamedValues, <1>6 DEF CreatePresenter
<1>7. CASE StoreWidth
  <2>1. pending' \in [Boxes -> MaybeSize]
    <3>1. request.b \in Boxes /\ request.size[1] \in Nat
      BY Dimension
    <3> QED BY StoreWord, <1>7, <3>1 DEF StoreWidth
  <2> QED BY <1>7, <2>1 DEF StoreWidth
<1>8. CASE StoreHeight
  <2>1. pending' \in [Boxes -> MaybeSize]
    <3>1. request.b \in Boxes /\ request.size[2] \in Nat
      BY Dimension
    <3> QED BY StoreWord, <1>8, <3>1 DEF StoreHeight
  <2>2. asked' \in [Boxes -> MaybeSize]
    BY <1>8 DEF StoreHeight
  <2> QED BY NamedValues, <1>8, <2>1, <2>2 DEF StoreHeight
<1>9. CASE Reblit
  <2>1. shown' \in BOOLEAN
    BY <1>9 DEF Reblit
  <2> QED BY <1>9, <2>1 DEF Reblit
<1>10. CASE UnlockWindow
  BY <1>10 DEF UnlockWindow
<1>11. ASSUME NEW zoom \in Zooms, NEW commit \in BOOLEAN, SetZoom(zoom, commit) PROVE TypeOK'
  <2>1. Zoomed(max_surface, zoom) \in MaybeSize
    BY ZoomedType, SurfaceAssumption
  <2> QED BY <1>11, <2>1 DEF SetZoom, Boxes
<1>12. CASE ZoomWindow
  BY NamedValues, <1>12 DEF ZoomWindow
<1>13. ASSUME NEW v \in Visible, Resize(v) PROVE TypeOK'
  BY VisibleType, <1>13 DEF Resize, Boxes
<1>14. CASE Start
  <2>1. applied' \in [Boxes -> Size \cup {NoSize}]
    BY SurfaceAssumption, <1>14 DEF Start
  <2> QED BY <1>14, <2>1 DEF Start
<1>15. CASE Stop
  BY <1>15 DEF Stop
<1>16. CASE Tick
  BY <1>16 DEF Tick, Boxes
<1>17. CASE ReadWidth
  <2>1. read' \in MaybeSize
    <3>1. pending[box][1] \in Nat
      BY Dimension
    <3> QED BY Dimension, <1>17, <3>1 DEF ReadWidth
  <2> QED BY <1>17, <2>1 DEF ReadWidth
<1>18. CASE ReadHeight
  <2>1. <<read[1], pending[box][2]>> \in MaybeSize
    BY Dimension
  <2>2. read[1] > 0 /\ pending[box][2] > 0 => <<read[1], pending[box][2]>> \in Size
    <3>1. read[1] \in Nat /\ pending[box][2] \in Nat
      BY Dimension
    <3> QED BY <3>1 DEF Size
  <2> QED BY NamedValues, <1>18, <2>1, <2>2 DEF ReadHeight, NextBox, Boxes
<1>19. CASE ClearWidth
  <2>1. pending' \in [Boxes -> MaybeSize]
    BY StoreWord, <1>19 DEF ClearWidth
  <2> QED BY <1>19, <2>1 DEF ClearWidth
<1>20. CASE ClearHeight
  <2>1. pending' \in [Boxes -> MaybeSize]
    BY StoreWord, <1>20 DEF ClearHeight
  <2> QED BY <1>20, <2>1 DEF ClearHeight
<1>21. CASE Apply
  <2>1. applied' \in [Boxes -> Size \cup {NoSize}]
    BY <1>21 DEF Apply
  <2> QED BY NamedValues, <1>21, <2>1 DEF Apply, NextBox, Boxes
<1>22. CASE CommitFrame
  BY <1>22 DEF CommitFrame
<1>23. CASE ReadPresenter
  BY <1>23 DEF ReadPresenter
<1>24. CASE Send
  <2>1. shown' \in BOOLEAN
    BY <1>24 DEF Send
  <2> QED BY NamedValues, <1>24, <2>1 DEF Send
<1>25. CASE LockFrame
  BY <1>25 DEF LockFrame
<1>26. CASE NoBlit
  BY <1>26 DEF NoBlit
<1>27. CASE BeginBlit
  BY <1>27 DEF BeginBlit
<1>28. CASE EndBlit
  <2>1. cache' \in [w : Nat, h : Nat, stride : Nat, room : Nat]
    <3> DEFINE mode == applied["output"]
               frame(stride, room) == [w |-> Least(geometry[1], stride),
                                       h |-> Least(geometry[2], mode[2]),
                                       stride |-> stride, room |-> room]
    <3>1. mode \in MaybeSize
      <4>1. mode \in Size \cup {NoSize}
        BY DEF Boxes
      <4> QED BY <4>1 DEF Size, NoSize, MaybeSize
    <3>2. PICK more \in (IF ahb THEN Padding ELSE {}) \cup {0} :
            \/ cache' = frame(mode[1] + more, cache.room)
            \/ cache' = frame(mode[1] + more, (mode[1] + more) * Least(geometry[2], mode[2]))
            \/ cache' = [cache EXCEPT !.room = 0]
      BY <1>28 DEF EndBlit
    <3>3. mode[1] + more \in Nat
      <4>1. more \in Nat
        BY SurfaceAssumption
      <4>2. mode[1] \in Nat
        <5> HIDE DEF mode
        <5> QED BY <3>1, Dimension
      <4> QED BY <4>1, <4>2
    <3>4. CASE cache' = frame(mode[1] + more, cache.room)
      BY CachedFrame, <3>1, <3>3, <3>4
    <3>5. CASE cache' = frame(mode[1] + more, (mode[1] + more) * Least(geometry[2], mode[2]))
      <4> HIDE DEF mode
      <4> QED BY CachedFrame, <3>1, <3>3, <3>5
    <3>6. CASE cache' = [cache EXCEPT !.room = 0]
      BY <3>6
    <3> QED BY <3>2, <3>4, <3>5, <3>6
  <2> QED BY NamedValues, <1>28, <2>1 DEF EndBlit
<1>29. CASE UNCHANGED vars
  BY <1>29 DEF vars
<1> QED
  BY <1>1, <1>2, <1>3, <1>4, <1>5, <1>6, <1>7, <1>8, <1>9, <1>10, <1>11, <1>12, <1>13, <1>14, <1>15, <1>16, <1>17, <1>18, <1>19, <1>20, <1>21, <1>22, <1>23, <1>24, <1>25, <1>26, <1>27, <1>28, <1>29
     DEF Next, InCall, InTick

(* A step of the compositor thread changes neither the window, nor the     *)
(* presenter, nor what the JNI thread keeps.                               *)
LEMMA TickFrame ==
  InTick \/ Start \/ Stop =>
    UNCHANGED <<window, presenter, destroyed, jpc, surfaces>>
BY DEF InTick, Start, Stop, Tick, ReadWidth, ReadHeight, ClearWidth, ClearHeight, Apply,
       CommitFrame, ReadPresenter, Send, LockFrame, NoBlit, BeginBlit, EndBlit,
       windowVars, presenterVars, jniVars

(* A step keeps the numbers. *)
LEMMA NumberStep == IInv /\ [Next]_vars => NumberInv'
<1> SUFFICES ASSUME IInv, [Next]_vars PROVE NumberInv'
  OBVIOUS
<1>0. TypeOK /\ NumberInv
  BY DEF IInv
<1> USE <1>0 DEF NumberInv, windowVars, presenterVars, jniVars
<1>1. surfaces \in Nat /\ window \in Nat
  BY SurfaceAssumption DEF TypeOK, Windows
<1>2. ASSUME NEW s \in Physical \cup {NoSize}, SetSurface(s) PROVE NumberInv'
  BY <1>2 DEF SetSurface
<1>3. ASSUME NEW zoom \in Zooms, NEW commit \in BOOLEAN, SetZoom(zoom, commit) PROVE NumberInv'
  BY <1>3 DEF SetZoom
<1>4. ASSUME NEW v \in Visible, Resize(v) PROVE NumberInv'
  BY <1>4 DEF Resize
<1>5. CASE ReplaceWindow
  BY <1>1, <1>5 DEF ReplaceWindow, NULL
<1>6. CASE DestroyPresenter \/ ForgetPresenter \/ LockWindow
  BY <1>6 DEF DestroyPresenter, ForgetPresenter, LockWindow
<1>7. CASE CreatePresenter \/ StoreWidth \/ StoreHeight \/ Reblit \/ UnlockWindow \/ ZoomWindow
  BY <1>7 DEF CreatePresenter, StoreWidth, StoreHeight, Reblit, UnlockWindow, ZoomWindow
<1>8. CASE InTick \/ Start \/ Stop
  BY TickFrame, <1>8
<1>9. CASE UNCHANGED vars
  BY <1>9 DEF vars
<1> QED BY <1>2, <1>3, <1>4, <1>5, <1>6, <1>7, <1>8, <1>9 DEF Next, InCall

(* A step keeps what is known of the presenter. *)
LEMMA PresenterStep == IInv /\ [Next]_vars => PresenterInv'
<1> SUFFICES ASSUME IInv, [Next]_vars PROVE PresenterInv'
  OBVIOUS
<1>0. TypeOK /\ NumberInv /\ PresenterInv
  BY DEF IInv
<1>1. /\ surfaces \in Nat /\ window \in Nat
      /\ window <= surfaces
      /\ NULL \notin destroyed
      /\ \A d \in destroyed : d \in Nat /\ d <= surfaces
  BY <1>0, SurfaceAssumption DEF TypeOK, Windows, NumberInv, PresenterInv, NULL
<1> USE <1>0 DEF PresenterInv, windowVars, presenterVars, jniVars
<1>2. ASSUME NEW s \in Physical \cup {NoSize}, SetSurface(s) PROVE PresenterInv'
  BY <1>2 DEF SetSurface, MayCall
<1>3. ASSUME NEW zoom \in Zooms, NEW commit \in BOOLEAN, SetZoom(zoom, commit)
      PROVE PresenterInv'
  BY <1>3 DEF SetZoom, MayCall
<1>4. ASSUME NEW v \in Visible, Resize(v) PROVE PresenterInv'
  BY <1>4 DEF Resize, MayCall
<1>5. CASE DestroyPresenter
  BY <1>1, <1>5 DEF DestroyPresenter
<1>6. CASE ForgetPresenter
  BY <1>1, <1>6 DEF ForgetPresenter
<1>7. CASE LockWindow
  BY <1>7 DEF LockWindow
<1>8. CASE ReplaceWindow
  <2>1. /\ presenter' = NULL /\ destroyed' = destroyed
        /\ surfaces' = surfaces + 1
        /\ jpc' \in {"create", "unlock"}
    BY <1>8 DEF ReplaceWindow
  <2>2. jpc' = "create" => window' = surfaces + 1
    BY <1>8 DEF ReplaceWindow
  <2>3. surfaces + 1 \notin destroyed /\ surfaces + 1 # NULL
    BY <1>1 DEF NULL
  <2>4. \A d \in destroyed : d <= surfaces + 1
    BY <1>1
  <2> QED BY <1>1, <2>1, <2>2, <2>3, <2>4
<1>9. CASE CreatePresenter
  BY <1>1, <1>9 DEF CreatePresenter
<1>10. CASE StoreWidth \/ StoreHeight \/ Reblit \/ UnlockWindow \/ ZoomWindow
  BY <1>10 DEF StoreWidth, StoreHeight, Reblit, UnlockWindow, ZoomWindow
<1>11. CASE InTick \/ Start \/ Stop
  BY TickFrame, <1>11
<1>12. CASE UNCHANGED vars
  BY <1>12 DEF vars
<1> QED BY <1>2, <1>3, <1>4, <1>5, <1>6, <1>7, <1>8, <1>9, <1>10, <1>11, <1>12 DEF Next, InCall

(* A step keeps what is known of the lock: the two threads never hold it   *)
(* together, so neither finds it changed.                                  *)
LEMMA LockStep == IInv /\ [Next]_vars => LockInv'
<1> SUFFICES ASSUME IInv, [Next]_vars PROVE LockInv'
  OBVIOUS
<1>0. TypeOK /\ LockInv
  BY DEF IInv
<1> USE <1>0 DEF LockInv, windowVars, presenterVars, jniVars, tickVars
<1>1. ASSUME NEW s \in Physical \cup {NoSize}, SetSurface(s) PROVE LockInv'
  BY <1>1 DEF SetSurface, MayCall
<1>2. ASSUME NEW zoom \in Zooms, NEW commit \in BOOLEAN, SetZoom(zoom, commit) PROVE LockInv'
  BY <1>2 DEF SetZoom, MayCall
<1>3. ASSUME NEW v \in Visible, Resize(v) PROVE LockInv'
  BY <1>3 DEF Resize, MayCall
<1>4. CASE DestroyPresenter \/ ForgetPresenter
  BY <1>4 DEF DestroyPresenter, ForgetPresenter
<1>5. CASE LockWindow \/ UnlockWindow
  BY <1>5 DEF LockWindow, UnlockWindow
<1>6. CASE ReplaceWindow
  BY <1>6 DEF ReplaceWindow
<1>7. CASE CreatePresenter \/ StoreWidth \/ Reblit
  BY <1>7 DEF CreatePresenter, StoreWidth, Reblit
<1>8. CASE StoreHeight
  BY <1>8 DEF StoreHeight
<1>9. CASE ZoomWindow
  BY <1>9 DEF ZoomWindow
<1>10. CASE Start \/ Stop \/ Tick
  BY <1>10 DEF Start, Stop, Tick
<1>11. CASE ReadWidth \/ ReadHeight \/ ClearWidth \/ ClearHeight \/ Apply
  BY <1>11 DEF ReadWidth, ReadHeight, ClearWidth, ClearHeight, Apply, NextBox
<1>12. CASE CommitFrame \/ ReadPresenter \/ Send
  BY <1>12 DEF CommitFrame, ReadPresenter, Send
<1>13. CASE LockFrame \/ NoBlit
  BY <1>13 DEF LockFrame, NoBlit
<1>14. CASE BeginBlit \/ EndBlit
  BY <1>14 DEF BeginBlit, EndBlit
<1>15. CASE UNCHANGED vars
  BY <1>15 DEF vars
<1> QED
  BY <1>1, <1>2, <1>3, <1>4, <1>5, <1>6, <1>7, <1>8, <1>9, <1>10, <1>11, <1>12, <1>13, <1>14, <1>15
     DEF Next, InCall, InTick

(* The invariant is inductive. *)
LEMMA Inductive == Spec => []IInv
<1>1. IInv /\ [Next]_vars => IInv'
  BY TypeStep, NumberStep, LockStep, PresenterStep DEF IInv
<1> QED BY InitIInv, <1>1, PTL DEF Spec

-----------------------------------------------------------------------------
(* What the surface code guarantees. *)

(* Every variable of the surface code keeps its type: no size gets         *)
(* negative, and no window is numbered past the surfaces that were set.    *)
THEOREM TypeCorrect == Spec => []TypeOK
<1>1. IInv => TypeOK
  BY DEF IInv
<1> QED BY Inductive, <1>1, PTL

(* g_window_lock does its work: the window a frame is being copied to is   *)
(* neither released nor replaced before the frame is posted, however calls *)
(* and ticks interleave.                                                   *)
THEOREM WindowIsHeld == Spec => []WindowHeld
<1>1. IInv => WindowHeld
  BY DEF IInv, LockInv, WindowHeld
<1> QED BY Inductive, <1>1, PTL

(* Between two calls g_presenter is NULL or a live presenter of the window *)
(* that is set: nativeSetSurface() leaves none behind for an old window,   *)
(* whatever fails.                                                         *)
THEOREM PresenterBelongs == Spec => []PresenterOfWindow
<1>1. IInv => PresenterOfWindow
  BY DEF IInv, PresenterInv, PresenterOfWindow
<1> QED BY Inductive, <1>1, PTL

-----------------------------------------------------------------------------
(* When calls and ticks take turns, and nothing is refused or restarted.   *)

Steady == ~Overlap /\ ~Restarts /\ ~DeviceFails

(* A call and a tick are not under way together. *)
TurnInv == jpc # "idle" => tpc \in {"stopped", "idle"}

(* The size of the window's buffers is due, or it is the output's mode.    *)
IsDue == pending["output"] = geometry
IsApplied == applied["output"] = geometry /\ pending["output"] = NoSize

(* How far a tick has got with the output's size. *)
TickRenders ==
  LET sizing == box = "output" /\ tpc \in {"height", "clear_width", "clear_height", "apply"}
  IN  /\ tpc = "stopped" => IsDue
      /\ tpc # "stopped" /\ ~sizing => IsDue \/ IsApplied
      /\ sizing /\ tpc = "height" =>
           \/ IsDue /\ read[1] = geometry[1]
           \/ IsApplied /\ read[1] = 0
      /\ sizing /\ tpc # "height" => read = geometry
      /\ sizing /\ tpc = "clear_height" => pending["output"][1] = 0
      /\ sizing /\ tpc = "apply" => pending["output"] = NoSize

(* The call is about to store the size that the window's buffers have got. *)
Storing == jpc = "create" \/ (jpc \in {"width", "height"} /\ request.b = "output")

RenderInv ==
  /\ window # NULL => geometry \in Size
  /\ jpc = "zoom" => request.b = "output" /\ request.size \in Size
  /\ window # NULL /\ ~preview =>
       IF Storing
       THEN /\ request.b = "output" /\ request.size = geometry
            /\ jpc = "height" => pending["output"][1] = geometry[1]
       ELSE TickRenders

(* Two sizes with the same width and height are the same. *)
LEMMA SameSize ==
  ASSUME NEW s \in MaybeSize, NEW t \in MaybeSize, s[1] = t[1], s[2] = t[2]
  PROVE  s = t
BY DEF MaybeSize

(* The logical size of a surface, and every zoom of a size, is not empty. *)
LEMMA LogicalSize ==
  ASSUME NEW s \in Physical
  PROVE  Logical(s) \in Size
<1>1. s[1] \in Nat \ {0} /\ s[2] \in Nat \ {0}
  BY SurfaceAssumption DEF Size
<1> QED BY <1>1 DEF Logical, DPI_SCALE, Size

LEMMA ZoomedSize ==
  ASSUME NEW s \in MaybeSize, NEW z \in Nat
  PROVE  Zoomed(s, z) \in Size
<1> DEFINE zoom == CASE z < 500 -> 500 [] z > 4000 -> 4000 [] OTHER -> z
           at(n) == AtLeast100((n * 1000) \div zoom)
<1>1. zoom \in Nat \ {0}
  OBVIOUS
<1>2. ASSUME NEW n \in Nat PROVE at(n) \in Nat \ {0}
  <2>1. n * 1000 \in Nat
    OBVIOUS
  <2>2. (n * 1000) \div zoom \in Nat
    <3> HIDE DEF zoom
    <3> QED BY <1>1, <2>1, Quotient
  <2> HIDE DEF zoom
  <2> QED BY <2>2 DEF AtLeast100
<1>3. Zoomed(s, z) = <<at(s[1]), at(s[2])>>
  BY DEF Zoomed
<1>4. s[1] \in Nat /\ s[2] \in Nat
  BY DEF MaybeSize
<1> HIDE DEF at
<1> QED BY <1>2, <1>3, <1>4 DEF Size

(* A step of a call while the tick has its turn, or the other way round,   *)
(* does not occur.                                                         *)
LEMMA TurnStep == Steady /\ IInv /\ TurnInv /\ [Next]_vars => TurnInv'
<1> SUFFICES ASSUME Steady, IInv, TurnInv, [Next]_vars PROVE TurnInv'
  OBVIOUS
<1> USE DEF Steady, TurnInv, MayCall, windowVars, presenterVars, jniVars, tickVars
<1>1. ASSUME NEW s \in Physical \cup {NoSize}, SetSurface(s) PROVE TurnInv'
  BY <1>1 DEF SetSurface
<1>2. ASSUME NEW zoom \in Zooms, NEW commit \in BOOLEAN, SetZoom(zoom, commit) PROVE TurnInv'
  BY <1>2 DEF SetZoom
<1>3. ASSUME NEW v \in Visible, Resize(v) PROVE TurnInv'
  BY <1>3 DEF Resize
<1>4. CASE DestroyPresenter \/ ForgetPresenter \/ LockWindow \/ ReplaceWindow \/ CreatePresenter
  BY <1>4 DEF DestroyPresenter, ForgetPresenter, LockWindow, ReplaceWindow, CreatePresenter
<1>5. CASE StoreWidth \/ StoreHeight \/ Reblit \/ UnlockWindow \/ ZoomWindow
  BY <1>5 DEF StoreWidth, StoreHeight, Reblit, UnlockWindow, ZoomWindow
<1>6. CASE Start \/ Stop \/ Tick
  BY <1>6 DEF Start, Stop, Tick
<1>7. CASE ReadWidth \/ ReadHeight \/ ClearWidth \/ ClearHeight \/ Apply
  BY <1>7 DEF ReadWidth, ReadHeight, ClearWidth, ClearHeight, Apply, NextBox
<1>8. CASE CommitFrame \/ ReadPresenter \/ Send
  BY <1>8 DEF CommitFrame, ReadPresenter, Send
<1>9. CASE LockFrame \/ NoBlit \/ BeginBlit \/ EndBlit
  BY <1>9 DEF LockFrame, NoBlit, BeginBlit, EndBlit
<1>10. CASE UNCHANGED vars
  BY <1>10 DEF vars
<1> QED BY <1>1, <1>2, <1>3, <1>4, <1>5, <1>6, <1>7, <1>8, <1>9, <1>10 DEF Next, InCall, InTick

(* The calls keep what is known of the sizes. *)
LEMMA RenderCall ==
  ASSUME Steady, IInv, TurnInv, RenderInv,
         \/ \E s \in Physical \cup {NoSize} : SetSurface(s)
         \/ \E zoom \in Zooms, commit \in BOOLEAN : SetZoom(zoom, commit)
         \/ \E v \in Visible : Resize(v)
         \/ InCall
  PROVE  RenderInv'
<1>0. TypeOK
  BY DEF IInv
<1> USE DEF Steady, TurnInv, MayCall, RenderInv, Storing, TickRenders, IsDue, IsApplied,
            windowVars, presenterVars, tickVars
<1>1. ASSUME NEW s \in Physical \cup {NoSize}, SetSurface(s) PROVE RenderInv'
  BY <1>1 DEF SetSurface
<1>2. ASSUME NEW zoom \in Zooms, NEW commit \in BOOLEAN, SetZoom(zoom, commit)
      PROVE RenderInv'
  <2>1. Zoomed(max_surface, zoom) \in Size
    BY <1>0, ZoomedSize, SurfaceAssumption DEF TypeOK
  <2> QED BY <1>2, <2>1 DEF SetZoom
<1>3. ASSUME NEW v \in Visible, Resize(v) PROVE RenderInv'
  BY <1>3 DEF Resize
<1>4. CASE DestroyPresenter \/ ForgetPresenter \/ LockWindow
  BY <1>4 DEF DestroyPresenter, ForgetPresenter, LockWindow
<1>5. CASE ReplaceWindow
  <2>1. surface # NoSize => Logical(surface) \in Size
    BY <1>0, LogicalSize DEF TypeOK
  <2> QED BY <1>5, <2>1 DEF ReplaceWindow, NULL
<1>6. CASE CreatePresenter
  BY <1>6 DEF CreatePresenter
<1>7. CASE StoreWidth
  BY <1>0, <1>7 DEF StoreWidth, TypeOK, Boxes, MaybeSize
<1>8. CASE StoreHeight
  BY <1>0, <1>8 DEF StoreHeight, TypeOK, Boxes, MaybeSize
<1>9. CASE Reblit \/ UnlockWindow
  BY <1>9 DEF Reblit, UnlockWindow
<1>10. CASE ZoomWindow
  BY <1>10 DEF ZoomWindow
<1> QED BY <1>1, <1>2, <1>3, <1>4, <1>5, <1>6, <1>7, <1>8, <1>9, <1>10 DEF InCall

(* And so do the ticks. *)
LEMMA RenderTick ==
  ASSUME Steady, IInv, TurnInv, RenderInv, InTick \/ Start \/ Stop
  PROVE  RenderInv'
<1>0. TypeOK
  BY DEF IInv
<1> USE DEF Steady, TurnInv, RenderInv, Storing, TickRenders, IsDue, IsApplied,
            windowVars, presenterVars, jniVars
<1>1. CASE Start \/ Stop \/ Tick
  BY <1>1 DEF Start, Stop, Tick
<1>2. CASE ReadWidth
  BY <1>0, <1>2 DEF ReadWidth, TypeOK, Boxes, MaybeSize, NoSize
<1>3. CASE ReadHeight
  BY <1>0, <1>3, SameSize DEF ReadHeight, NextBox, TypeOK, Boxes, MaybeSize, NoSize, Size
<1>4. CASE ClearWidth
  BY <1>0, <1>4 DEF ClearWidth, TypeOK, Boxes, MaybeSize
<1>5. CASE ClearHeight
  BY <1>0, <1>5, SameSize DEF ClearHeight, TypeOK, Boxes, MaybeSize, NoSize
<1>6. CASE Apply
  BY <1>0, <1>6 DEF Apply, NextBox, TypeOK, Boxes, MaybeSize
<1>7. CASE CommitFrame \/ ReadPresenter \/ Send
  BY <1>7 DEF CommitFrame, ReadPresenter, Send
<1>8. CASE LockFrame \/ NoBlit \/ BeginBlit \/ EndBlit
  BY <1>8 DEF LockFrame, NoBlit, BeginBlit, EndBlit
<1> QED BY <1>1, <1>2, <1>3, <1>4, <1>5, <1>6, <1>7, <1>8 DEF InTick

(* If calls and ticks take turns, and nothing is refused or restarted, the *)
(* output has the size of the window's buffers as soon as no size is due,  *)
(* for every set of sizes and zooms: a zoom or a surface reaches the       *)
(* window and the output alike.                                            *)
THEOREM OutputMatchesWindow == ASSUME Steady PROVE Spec => []RendersAtSize
<1>1. Init => TurnInv /\ RenderInv
  BY DEF Init, TurnInv, RenderInv, NULL
<1>2. IInv /\ TurnInv /\ RenderInv /\ [Next]_vars => TurnInv' /\ RenderInv'
  <2> SUFFICES ASSUME IInv, TurnInv, RenderInv, [Next]_vars
               PROVE  TurnInv' /\ RenderInv'
    OBVIOUS
  <2>1. TurnInv'
    BY Steady, TurnStep
  <2>2. CASE UNCHANGED vars
    BY <2>1, <2>2 DEF vars, windowVars, jniVars, tickVars, RenderInv, Storing,
       TickRenders, IsDue, IsApplied
  <2> QED BY Steady, <2>1, <2>2, RenderCall, RenderTick DEF Next
<1>3. IInv /\ TurnInv /\ RenderInv => RendersAtSize
  BY DEF IInv, RenderInv, Storing, TickRenders, IsDue, IsApplied, RendersAtSize, AtRest,
     Due, Size, NoSize
<1> QED BY Steady, Inductive, <1>1, <1>2, <1>3, PTL DEF Spec
=============================================================================
