------------------------------- MODULE Surface -------------------------------
(***************************************************************************)
(* The Android surface and what is drawn on it, in jni_bridge.c and        *)
(* buffer_presenter.c: nativeSetSurface(), nativeSetZoom() and             *)
(* nativeResize() on the JNI thread, and on the compositor thread the part *)
(* of frame_timer_cb() that applies pending sizes and on_output_commit(),  *)
(* which brings a frame to the surface.                                    *)
(*                                                                         *)
(* A size crosses over as two volatile words that the JNI thread stores    *)
(* and a tick reads and then clears; there are two such boxes, for the     *)
(* output's mode and for the views.  g_window and everything drawn on it   *)
(* is under g_window_lock, g_presenter is not.  One action is one access   *)
(* to a variable that the other thread also uses; what the lock protects   *)
(* changes in one step where no other variable is involved.                *)
(*                                                                         *)
(* Locals that are not used any more are reset.                            *)
(*                                                                         *)
(* A window, and the presenter made from it, is named by the number of the *)
(* nativeSetSurface() that got it; 0 is NULL.                              *)
(***************************************************************************)
EXTENDS Integers

CONSTANTS
  Physical,      \* the sizes a surface may have, in physical pixels
  Visible,       \* the sizes nativeResize() may be given
  Zooms,         \* the zooms nativeSetZoom() may be given, in permille
  DefaultMode,   \* the mode of wlroots' headless output before the first resize
  Padding,       \* by how many pixels a line of an AHardwareBuffer may be longer
  MaxSurfaces,   \* bound: surfaces set
  Overlap,       \* may a JNI call and a tick run at the same time?
  Restarts,      \* may the compositor be stopped and started again?
  DeviceFails    \* may Android and wlroots refuse what they are asked for?

Size == (Nat \ {0}) \X (Nat \ {0})

ASSUME SurfaceAssumption ==
  /\ Physical \subseteq Size
  /\ Visible \subseteq {s \in Size : s[1] >= 3 /\ s[2] >= 3}
  /\ Zooms \subseteq Nat
  /\ DefaultMode \in Size
  /\ Padding \subseteq Nat
  /\ MaxSurfaces \in Nat
  /\ Overlap \in BOOLEAN /\ Restarts \in BOOLEAN /\ DeviceFails \in BOOLEAN

VARIABLES
  (* shared *)
  window,        \* g_window
  geometry,      \* the size of the window's buffers
  lock,          \* who holds g_window_lock: "jni", "tick" or "nobody"
  presenter,     \* g_presenter
  destroyed,     \* the presenters that were freed
  pending,       \* pending[b]: g_pending_resize_w, _h and g_pending_view_w, _h
  cache,         \* g_last_frame: its size and stride, and the room allocated
  shown,         \* has a frame been brought to the window?
  (* JNI thread *)
  jpc,           \* where it is
  surface,       \* the parameter of nativeSetSurface(), or NULL
  request,       \* the box and the size it is about to store, and the commit flag
  max_surface,   \* g_max_surface_w and _h
  preview,       \* was the last zoom one of a pinch that goes on?
  surfaces,      \* the surfaces set so far
  asked,         \* asked[b]: the size that was stored last, or NoSize
  (* compositor thread *)
  tpc,           \* where it is
  box,           \* the box this tick is at
  read,          \* rw and rh, or vw and vh
  arg,           \* the presenter handed to buffer_presenter_send()
  target,        \* the window that the frame is being copied to
  ahb,           \* are this run's buffers AHardwareBuffers?
  applied        \* applied[b]: the output's mode, the size given to the views

windowVars == <<window, geometry, lock>>
presenterVars == <<presenter, destroyed>>
frameVars == <<cache, shown>>
jniVars == <<jpc, surface, request, max_surface, preview, surfaces,
             asked>>
tickVars == <<tpc, box, read, arg, target, ahb, applied>>
vars == <<windowVars, presenterVars, pending, frameVars, jniVars, tickVars>>

NULL == 0
Boxes == {"output", "views"}
Windows == 0 .. MaxSurfaces
MaybeSize == Nat \X Nat
NoSize == <<0, 0>>
NoRequest == [b |-> "output", size |-> NoSize, commit |-> FALSE]

TypeOK ==
  /\ window \in Windows /\ presenter \in Windows /\ destroyed \subseteq 1 .. MaxSurfaces
  /\ geometry \in MaybeSize
  /\ lock \in {"nobody", "jni", "tick"}
  /\ pending \in [Boxes -> MaybeSize]
  /\ cache \in [w : Nat, h : Nat, stride : Nat, room : Nat]
  /\ shown \in BOOLEAN
  /\ jpc \in {"idle", "destroy", "forget", "lock", "replace", "create", "zoom",
              "width", "height", "reblit", "unlock"}
  /\ surface \in Physical \cup {NoSize}
  /\ request \in [b : Boxes, size : MaybeSize, commit : BOOLEAN]
  /\ max_surface \in MaybeSize
  /\ preview \in BOOLEAN
  /\ surfaces \in Windows
  /\ asked \in [Boxes -> MaybeSize]
  /\ tpc \in {"stopped", "idle", "width", "height", "clear_width", "clear_height",
              "apply", "frame", "send", "sending", "lock", "blit", "copy"}
  /\ box \in Boxes /\ read \in MaybeSize
  /\ tpc \in {"clear_width", "clear_height", "apply"} => read \in Size
  /\ arg \in Windows /\ target \in Windows /\ ahb \in BOOLEAN
  /\ applied \in [Boxes -> Size \cup {NoSize}]

Init ==
  /\ window = NULL /\ geometry = NoSize /\ lock = "nobody"
  /\ presenter = NULL /\ destroyed = {}
  /\ pending = [b \in Boxes |-> NoSize]
  /\ cache = [w |-> 0, h |-> 0, stride |-> 0, room |-> 0]
  /\ shown = FALSE
  /\ jpc = "idle" /\ surface = NoSize
  /\ request = NoRequest
  /\ max_surface = NoSize /\ preview = FALSE /\ surfaces = 0
  /\ asked = [b \in Boxes |-> NoSize]
  /\ tpc = "stopped" /\ box = "output" /\ read = NoSize
  /\ arg = NULL /\ target = NULL /\ ahb = FALSE
  /\ applied = [b \in Boxes |-> NoSize]

-----------------------------------------------------------------------------
(* Sizes. *)

DPI_SCALE == 3
Least(a, b) == IF a < b THEN a ELSE b
AtLeast100(n) == IF n < 100 THEN 100 ELSE n

(* The size the compositor renders at on a surface of size s: divided by   *)
(* the density, but a dimension that gets too small keeps its pixels.      *)
Logical(s) ==
  LET scaled(n) == IF n \div DPI_SCALE < 100 THEN n ELSE n \div DPI_SCALE
  IN  <<scaled(s[1]), scaled(s[2])>>

(* The size at a zoom, which is kept between 500 and 4000 permille. *)
Zoomed(s, permille) ==
  LET zoom == CASE permille < 500  -> 500
                [] permille > 4000 -> 4000
                [] OTHER           -> permille
      at(n) == AtLeast100((n * 1000) \div zoom)
  IN  <<at(s[1]), at(s[2])>>

-----------------------------------------------------------------------------
(* A call begins. *)
MayCall == jpc = "idle" /\ (Overlap \/ tpc \in {"stopped", "idle"})

(* The views' size comes after the output's, and then the frame. *)
NextBox ==
  \/ box = "output" /\ box' = "views" /\ tpc' = "width"
  \/ box = "views" /\ box' = "output" /\ tpc' = "frame"

-----------------------------------------------------------------------------
(* Faulty variants of the actions below, to see that the properties notice *)
(* the mistakes they are about.                                            *)

ReadHeightUntested ==    \* no test that there is a size
  /\ tpc = "height"
  /\ read' = <<read[1], pending[box][2]>>
  /\ tpc' = "clear_width"
  /\ UNCHANGED <<windowVars, presenterVars, pending, frameVars, jniVars, box, arg,
                 target, ahb, applied>>

BargeIn ==               \* the lock is not waited for
  /\ jpc = "lock"
  /\ lock' = "jni"
  /\ jpc' = "replace"
  /\ UNCHANGED <<window, geometry, presenterVars, pending, frameVars, surface,
                 request, max_surface, preview, surfaces, asked, tickVars>>

ClearOnlyHolds(s) ==     \* the presenter outlives a surface that is cleared
  /\ MayCall
  /\ surfaces < MaxSurfaces
  /\ surface' = s
  /\ jpc' = IF presenter # NULL /\ s # NoSize THEN "destroy" ELSE "lock"
  /\ UNCHANGED <<windowVars, presenterVars, pending, frameVars, request,
                 max_surface, preview, surfaces, asked, tickVars>>

PreviewOnly(zoom, commit) ==  \* the commit keeps the old geometry
  /\ MayCall
  /\ max_surface[1] > 0
  /\ request' = [b |-> "output", size |-> Zoomed(max_surface, zoom), commit |-> commit]
  /\ jpc' = IF commit THEN "width" ELSE "zoom"
  /\ UNCHANGED <<windowVars, presenterVars, pending, frameVars, surface,
                 max_surface, preview, surfaces, asked, tickVars>>

SameWidthSkipped ==      \* only a new width is applied
  /\ tpc = "height"
  /\ IF read[1] > 0 /\ pending[box][2] > 0 /\ read[1] # applied[box][1]
     THEN /\ read' = <<read[1], pending[box][2]>>
          /\ tpc' = "clear_width"
          /\ UNCHANGED box
     ELSE /\ read' = NoSize
          /\ NextBox
  /\ UNCHANGED <<windowVars, presenterVars, pending, frameVars, jniVars, arg,
                 target, ahb, applied>>

NoFallback ==            \* with a presenter, no other buffer is drawn
  /\ tpc = "frame"
  /\ tpc' = CASE presenter = NULL -> "lock" [] ahb -> "send" [] OTHER -> "idle"
  /\ UNCHANGED <<windowVars, presenterVars, pending, frameVars, jniVars, box, read,
                 arg, target, ahb, applied>>

-----------------------------------------------------------------------------
(* The JNI thread. *)

(* nativeSetSurface(): if (g_presenter)   A cleared surface is NoSize. *)
SetSurface(s) ==
  /\ MayCall
  /\ surfaces < MaxSurfaces
  /\ surface' = s
  /\ jpc' = IF presenter # NULL THEN "destroy" ELSE "lock"
  /\ UNCHANGED <<windowVars, presenterVars, pending, frameVars, request,
                 max_surface, preview, surfaces, asked, tickVars>>

(* buffer_presenter_destroy(g_presenter);   It leaves NULL alone. *)
DestroyPresenter ==
  /\ jpc = "destroy"
  /\ destroyed' = destroyed \cup ({presenter} \ {NULL})
  /\ jpc' = "forget"
  /\ UNCHANGED <<windowVars, presenter, pending, frameVars, surface, request,
                 max_surface, preview, surfaces, asked, tickVars>>

(* g_presenter = NULL; *)
ForgetPresenter ==
  /\ jpc = "forget"
  /\ presenter' = NULL
  /\ jpc' = "lock"
  /\ UNCHANGED <<windowVars, destroyed, pending, frameVars, surface, request,
                 max_surface, preview, surfaces, asked, tickVars>>

(* pthread_mutex_lock(&g_window_lock); *)
LockWindow ==
  /\ jpc = "lock"
  /\ lock = "nobody"
  /\ lock' = "jni"
  /\ jpc' = "replace"
  /\ UNCHANGED <<window, geometry, presenterVars, pending, frameVars, surface,
                 request, max_surface, preview, surfaces, asked, tickVars>>

(* The old window is released; a surface gives a new one, of the logical   *)
(* size.  g_max_surface_w and _h, which only this thread uses, follow.     *)
ReplaceWindow ==
  /\ jpc = "replace"
  /\ surfaces' = surfaces + 1
  /\ surface' = NoSize
  /\ \/ /\ surface # NoSize
        /\ window' = surfaces + 1
        /\ geometry' = Logical(surface)
        /\ max_surface' = Logical(surface)
        /\ request' = [b |-> "output", size |-> Logical(surface), commit |-> TRUE]
        /\ preview' = FALSE
        /\ shown' = FALSE
        /\ jpc' = "create"
     \/ /\ surface # NoSize /\ DeviceFails     \* ANativeWindow_fromSurface()
        /\ window' = NULL
        /\ jpc' = "unlock"
        /\ UNCHANGED <<geometry, max_surface, request, preview, shown>>
     \/ /\ surface = NoSize
        /\ window' = NULL
        /\ max_surface' = NoSize
        /\ jpc' = "unlock"
        /\ UNCHANGED <<geometry, request, preview, shown>>
  /\ UNCHANGED <<lock, presenterVars, pending, cache, asked, tickVars>>

(* g_presenter = buffer_presenter_create(g_window);   It is NULL before    *)
(* API level 29, or if Android gives no surface control.                   *)
CreatePresenter ==
  /\ jpc = "create"
  /\ presenter' \in {window, NULL}
  /\ jpc' = "width"
  /\ UNCHANGED <<windowVars, destroyed, pending, frameVars, surface, request,
                 max_surface, preview, surfaces, asked, tickVars>>

(* g_pending_resize_w = ...; or g_pending_view_w = ...; *)
StoreWidth ==
  /\ jpc = "width"
  /\ pending' = [pending EXCEPT ![request.b][1] = request.size[1]]
  /\ jpc' = "height"
  /\ UNCHANGED <<windowVars, presenterVars, frameVars, surface, request,
                 max_surface, preview, surfaces, asked, tickVars>>

(* g_pending_resize_h = ...; or g_pending_view_h = ...; *)
StoreHeight ==
  /\ jpc = "height"
  /\ pending' = [pending EXCEPT ![request.b][2] = request.size[2]]
  /\ asked' = [asked EXCEPT ![request.b] = request.size]
  /\ request' = NoRequest
  /\ jpc' = IF lock = "jni" THEN "reblit" ELSE "idle"
  /\ UNCHANGED <<windowVars, presenterVars, frameVars, surface,
                 max_surface, preview, surfaces, tickVars>>

(* Without a presenter the cached frame is drawn at once. *)
Reblit ==
  /\ jpc = "reblit"
  /\ \/ shown' = (shown \/ (presenter = NULL /\ cache.room > 0 /\ cache.w > 0))
     \/ DeviceFails /\ UNCHANGED shown        \* ANativeWindow_lock()
  /\ jpc' = "unlock"
  /\ UNCHANGED <<windowVars, presenterVars, pending, cache, surface, request,
                 max_surface, preview, surfaces, asked, tickVars>>

(* pthread_mutex_unlock(&g_window_lock); *)
UnlockWindow ==
  /\ jpc = "unlock"
  /\ lock' = "nobody"
  /\ jpc' = "idle"
  /\ UNCHANGED <<window, geometry, presenterVars, pending, frameVars, surface,
                 request, max_surface, preview, surfaces, asked, tickVars>>

(* nativeSetZoom(): if (g_max_surface_w > 0)   Otherwise it has no effect. *)
SetZoom(zoom, commit) ==
  /\ MayCall
  /\ max_surface[1] > 0
  /\ request' = [b |-> "output", size |-> Zoomed(max_surface, zoom), commit |-> commit]
  /\ jpc' = "zoom"
  /\ UNCHANGED <<windowVars, presenterVars, pending, frameVars, surface,
                 max_surface, preview, surfaces, asked, tickVars>>

(* The window's geometry changes under the lock; the mode only with the    *)
(* pinch's end.                                                            *)
ZoomWindow ==
  /\ jpc = "zoom"
  /\ lock = "nobody"
  /\ geometry' = IF window # NULL THEN request.size ELSE geometry
  /\ preview' = ~request.commit
  /\ IF request.commit
     THEN jpc' = "width" /\ UNCHANGED request
     ELSE jpc' = "idle" /\ request' = NoRequest
  /\ UNCHANGED <<window, lock, presenterVars, pending, frameVars, surface,
                 max_surface, surfaces, asked, tickVars>>

(* nativeResize(): the visible area, in logical pixels. *)
Resize(v) ==
  /\ MayCall
  /\ request' = [b |-> "views", commit |-> TRUE,
                 size |-> <<v[1] \div DPI_SCALE, v[2] \div DPI_SCALE>>]
  /\ jpc' = "width"
  /\ UNCHANGED <<windowVars, presenterVars, pending, frameVars, surface,
                 max_surface, preview, surfaces, asked, tickVars>>

InCall ==
  \/ DestroyPresenter \/ ForgetPresenter \/ LockWindow \/ ReplaceWindow
  \/ CreatePresenter \/ StoreWidth \/ StoreHeight \/ Reblit \/ UnlockWindow
  \/ ZoomWindow

-----------------------------------------------------------------------------
(* The compositor thread. *)

(* compositor_main() brings up a new output, with buffers of one of the    *)
(* two allocators.  Nothing that is pending or drawn is reset.             *)
Start ==
  /\ tpc = "stopped"
  /\ Overlap \/ jpc = "idle"
  /\ applied' = [b \in Boxes |-> IF b = "output" THEN DefaultMode ELSE NoSize]
  /\ ahb' \in BOOLEAN
  /\ tpc' = "idle"
  /\ UNCHANGED <<windowVars, presenterVars, pending, frameVars, jniVars, box, read,
                 arg, target>>

Stop ==
  /\ Restarts
  /\ tpc = "idle"
  /\ tpc' = "stopped"
  /\ UNCHANGED <<windowVars, presenterVars, pending, frameVars, jniVars, box, read,
                 arg, target, ahb, applied>>

Tick ==
  /\ tpc = "idle"
  /\ Overlap \/ jpc = "idle"
  /\ box' = "output"
  /\ tpc' = "width"
  /\ UNCHANGED <<windowVars, presenterVars, pending, frameVars, jniVars, read, arg,
                 target, ahb, applied>>

(* int rw = g_pending_resize_w; *)
ReadWidth ==
  /\ tpc = "width"
  /\ read' = [read EXCEPT ![1] = pending[box][1]]
  /\ tpc' = "height"
  /\ UNCHANGED <<windowVars, presenterVars, pending, frameVars, jniVars, box, arg,
                 target, ahb, applied>>

(* int rh = g_pending_resize_h;  if (rw > 0 && rh > 0) *)
ReadHeight ==
  /\ tpc = "height"
  /\ IF read[1] > 0 /\ pending[box][2] > 0
     THEN /\ read' = <<read[1], pending[box][2]>>
          /\ tpc' = "clear_width"
          /\ UNCHANGED box
     ELSE /\ read' = NoSize
          /\ NextBox
  /\ UNCHANGED <<windowVars, presenterVars, pending, frameVars, jniVars, arg,
                 target, ahb, applied>>

(* g_pending_resize_w = 0; *)
ClearWidth ==
  /\ tpc = "clear_width"
  /\ pending' = [pending EXCEPT ![box][1] = 0]
  /\ tpc' = "clear_height"
  /\ UNCHANGED <<windowVars, presenterVars, frameVars, jniVars, box, read, arg,
                 target, ahb, applied>>

(* g_pending_resize_h = 0; *)
ClearHeight ==
  /\ tpc = "clear_height"
  /\ pending' = [pending EXCEPT ![box][2] = 0]
  /\ tpc' = "apply"
  /\ UNCHANGED <<windowVars, presenterVars, frameVars, jniVars, box, read, arg,
                 target, ahb, applied>>

(* The output is committed with the new mode, which may fail, and does not *)
(* happen when there is no output; or every mapped view is resized.        *)
Apply ==
  /\ tpc = "apply"
  /\ \/ applied' = [applied EXCEPT ![box] = read]
     \/ box = "output" /\ DeviceFails /\ UNCHANGED applied
  /\ read' = NoSize
  /\ NextBox
  /\ UNCHANGED <<windowVars, presenterVars, pending, frameVars, jniVars, arg,
                 target, ahb>>

(* wlr_scene_output_commit() calls on_output_commit(): without an output   *)
(* or a buffer nothing happens, with a presenter and an AHardwareBuffer    *)
(* the frame is handed over, otherwise it is copied.                       *)
CommitFrame ==
  /\ tpc = "frame"
  /\ \/ tpc' = IF presenter # NULL /\ ahb THEN "send" ELSE "lock"
     \/ DeviceFails /\ tpc' = "idle"
  /\ UNCHANGED <<windowVars, presenterVars, pending, frameVars, jniVars, box, read,
                 arg, target, ahb, applied>>

(* The argument of buffer_presenter_send() reads g_presenter again. *)
ReadPresenter ==
  /\ tpc = "send"
  /\ arg' = presenter
  /\ tpc' = "sending"
  /\ UNCHANGED <<windowVars, presenterVars, pending, frameVars, jniVars, box, read,
                 target, ahb, applied>>

(* buffer_presenter_send(): a NULL presenter is left alone. *)
Send ==
  /\ tpc = "sending"
  /\ \/ shown' = (shown \/ (arg # NULL /\ arg = window))
     \/ DeviceFails /\ UNCHANGED shown        \* ASurfaceTransaction_create()
  /\ arg' = NULL
  /\ tpc' = "idle"
  /\ UNCHANGED <<windowVars, presenterVars, pending, cache, jniVars, box, read,
                 target, ahb, applied>>

(* pthread_mutex_lock(&g_window_lock); *)
LockFrame ==
  /\ tpc = "lock"
  /\ lock = "nobody"
  /\ lock' = "tick"
  /\ tpc' = "blit"
  /\ UNCHANGED <<window, geometry, presenterVars, pending, frameVars, jniVars, box,
                 read, arg, target, ahb, applied>>

(* Without a window, or without access to the pixels, nothing is drawn. *)
NoBlit ==
  /\ tpc = "blit"
  /\ window = NULL \/ DeviceFails
  /\ lock' = "nobody"
  /\ tpc' = "idle"
  /\ UNCHANGED <<window, geometry, presenterVars, pending, frameVars, jniVars, box,
                 read, arg, target, ahb, applied>>

(* ANativeWindow_lock(g_window, &nbuf, NULL); *)
BeginBlit ==
  /\ tpc = "blit"
  /\ window # NULL
  /\ target' = window
  /\ tpc' = "copy"
  /\ UNCHANGED <<windowVars, presenterVars, pending, frameVars, jniVars, box, read,
                 arg, ahb, applied>>

(* The part that fits is copied and posted, and the frame is cached: the   *)
(* rows that fit, at the stride of the buffer, which is its width and, for *)
(* an AHardwareBuffer, what Android adds to it.  Memory is allocated anew  *)
(* when the size of that part has changed.                                 *)
EndBlit ==
  /\ tpc = "copy"
  /\ shown' = TRUE
  /\ \E more \in (IF ahb THEN Padding ELSE {}) \cup {0} :
       LET stride == applied["output"][1] + more
           w == Least(geometry[1], stride)
           h == Least(geometry[2], applied["output"][2])
           fits == cache.room > 0 /\ cache.w = w /\ cache.h = h
           frame(room) == [w |-> w, h |-> h, stride |-> stride, room |-> room]
       IN  \/ cache' = frame(IF fits THEN cache.room ELSE stride * h)
           \/ DeviceFails /\ ~fits /\ cache' = [cache EXCEPT !.room = 0]  \* malloc()
  /\ lock' = "nobody"
  /\ target' = NULL
  /\ tpc' = "idle"
  /\ UNCHANGED <<window, geometry, presenterVars, pending, jniVars, box, read, arg,
                 ahb, applied>>

InTick ==
  \/ Tick \/ ReadWidth \/ ReadHeight \/ ClearWidth \/ ClearHeight \/ Apply
  \/ CommitFrame \/ ReadPresenter \/ Send \/ LockFrame \/ NoBlit \/ BeginBlit
  \/ EndBlit

Next ==
  \/ \E s \in Physical \cup {NoSize} : SetSurface(s)
  \/ \E zoom \in Zooms, commit \in BOOLEAN : SetZoom(zoom, commit)
  \/ \E v \in Visible : Resize(v)
  \/ InCall
  \/ Start \/ Stop \/ InTick

(* A call that began runs on, and so does the compositor thread, whose     *)
(* timer every tick re-arms.  Fairness is strong for it because a call may *)
(* hold the lock, or have its turn, each time a tick wants it: calls do    *)
(* not come so densely that the timer never finds a gap.  Nobody is        *)
(* obliged to call, to start the compositor or to stop it.                 *)
Spec == Init /\ [][Next]_vars
FairSpec == Spec /\ WF_vars(InCall) /\ SF_vars(InTick)

-----------------------------------------------------------------------------
(* Properties. *)

AtRest == jpc = "idle" /\ tpc = "idle"
Due(b) == pending[b][1] > 0 /\ pending[b][2] > 0

(* The sizes that may be asked for. *)
Sizes ==
  LET logical == {Logical(s) : s \in Physical}
  IN  logical \cup {Zoomed(s, z) : s \in logical, z \in Zooms}
              \cup {<<v[1] \div DPI_SCALE, v[2] \div DPI_SCALE>> : v \in Visible}

(* The size asked for last is applied, unless another one replaces it: a   *)
(* surface that is set gets an output of its size (lines 354 to 356, 1004),*)
(* and the views fit the visible area (line 373).                          *)
RequestApplied ==
  \A b \in Boxes, s \in Sizes :
    asked[b] = s ~> (applied[b] = s \/ asked[b] # s \/ tpc = "stopped")

(* The compositor renders at the size of the window's buffers (lines 957   *)
(* and 958): when no size is due and no pinch goes on, the two are equal.  *)
RendersAtSize ==
  AtRest /\ window # NULL /\ ~preview /\ ~Due("output")
    => applied["output"] = geometry

(* Line 172: "Zero-copy presenter (API 29+)", and "NULL means fallback to  *)
(* CPU blit".  A frame that is handed over, and so not copied, is handed   *)
(* to a presenter, and one that was not destroyed.                         *)
PresenterLives == tpc = "sending" => arg \notin destroyed \cup {NULL}

(* Between two calls a presenter belongs to the window that is set, and no *)
(* presenter is left when the window is gone.                              *)
PresenterOfWindow ==
  jpc = "idle" /\ presenter # NULL => presenter = window /\ presenter \notin destroyed

(* The window a frame is being copied to is not released or replaced       *)
(* before the frame is posted.                                             *)
WindowHeld == tpc = "copy" => window = target

(* The memory of the cached frame holds as many rows as it is said to.     *)
CacheHolds == cache.room > 0 => cache.h * cache.stride <= cache.room

(* A window that stays gets a frame while the compositor runs, whichever   *)
(* of presenter, buffer copy and cached frame is at hand.                  *)
WindowShowsFrame ==
  \A n \in 1 .. MaxSurfaces :
    window = n ~> (shown \/ window # n \/ tpc = "stopped")
=============================================================================
