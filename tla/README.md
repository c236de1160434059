# wayland-android in TLA+

This directory holds TLA+ models of the program in `src/`, the TLC
configurations that check them on small instances, and theorems about them that
TLAPS checks for every value of the constants. `PROJECT.json` maps every
definition to the lines it models and lists the runs, the faulty variants each
property is tried against, the hazards of the code and the findings.

    tlc -config InputQueueJni.cfg MCInputQueue      # model-check one run
    tlapm InputQueueProofs.tla                      # check the proofs of a module

## The system

The program runs the labwc Wayland compositor inside an Android application.
`jni_bridge.c` replaces labwc's `main()`: the application calls it through JNI
on threads of its own, and it runs the compositor on a thread it creates. The
two sides share plain and `volatile` globals; the only lock is `g_window_lock`.

    application threads                compositor thread
    -------------------                -----------------
    nativeStart, nativeStop    -->     compositor_main()
    nativeSendTouch/Key/Scroll -->     frame_timer_cb()  every 33 ms
      (ring g_input_queue,               - pending sizes
       deferred button press)            - view focus, auto-maximize
    nativeSetSurface/Zoom/Resize -->     - deferred press, drain of the ring
      (pending sizes, g_window,          - scene commit
       g_presenter)                        -> on_output_commit(): frame to window
    nativeLaunchBenchmark,             child processes: benchmark client,
    nativeStartVirglServer ...           virgl_test_server

| Component | State | Operations | What is hard | What makes it correct |
|---|---|---|---|---|
| Input event queue (`jni_bridge.c` 314-331, 464-467, 600-601) | the ring, its read and write index | `queue_input()`, the drain loop, the reset at start | no lock, no barrier, two producers, reset under way of a call | a bounded FIFO: accepted events are dispatched once and in order, only a full ring drops |
| Touch and key input (333-339, 442-555, 826-884) | countdown, deferred press and position, pointer and button of the seat | touch down/move/up, key, scroll, the countdown of a tick, dispatch | the same variables written by both threads; a quick tap races the timer | one press then one release per gesture, at its place, after a hover |
| Compositor lifecycle (69-71, 592-824) | `compositor_running`, `compositor_thread`, the display and its run flag | start, stop, is-running, the phases of the thread | the flag lags the thread at both ends | one compositor at a time, stop leaves none, calls return |
| Surface, zoom and resize (284-312, 344-387, 886-1009) | pending output and view sizes, `g_max_surface_*`, zoom | set/clear surface, zoom, resize, the mailboxes of a tick | sizes are two words without a lock; read then cleared | the latest request is applied, never a mixture of two |
| Frame presentation (168-266, 935-1009, `buffer_presenter.c`) | window, presenter, cached frame | commit of a frame, set/clear surface | the presenter is used outside the lock | nothing is used after it is released |
| View focus and auto-maximize (163-166, 389-427) | `last_front_view` | every tick | views come and go, their addresses are reused, labwc moves the focus too | a new front view gets the keyboard, nothing else moves it |
| Renderer and allocator selection (73-161, 620-636, 695-727) | the EGL objects, `android_renderer`, `android_allocator`, the link of the commit listener | the fallback chain at start, the end of a run | each of nine steps can fail; a run without an output | a matching pair, nothing left over, no read through a NULL link |
| AHardwareBuffer allocator (`ahb_allocator.c`) | the list of buffers, each buffer's handle and lock | create, destroy, map; destroy of the allocator | buffers outlive the allocator | the list is what it says, each handle is released once |
| Pixel formats (`buffer_format_utils.c`) | none | two tables | formats with no counterpart or not 32 bit wide | what is reported is what was allocated |
| Helper processes (1011-1120) | two pids | launch/toggle, start, stop, is-running | children that exit by themselves and are never waited for | no live child is forgotten |
| Benchmark client (`benchmark/benchmark_client.c`) | window size, buffer, `configured`, `running`, frame callback | the configure handshake, frames, shutdown | events in any order, the connection fails anywhere | one frame under way, a frame fits its buffer, it ends |
| wayvnc shim (`wayvnc-shim/`) | none | one interposed request | globals in any order, requests whose arguments are no strings | two globals hidden, all else arrives |
| Xwayland wrapper (`xwayland_wrapper.c`) | none | one argument vector | order and bounds | PRoot reads it as meant |
| xdg-shell protocol code | none | generated by wayland-scanner | | not modelled |
| Build scripts and stubs | none at run time | | | not modelled |
| labwc, wlroots, libwayland | | submodules, empty in `src/` | | external: modelled where `jni_bridge.c` uses them |

## Modules and what they stand for

| Module | Role |
|---|---|
| `EventFifo` | abstract specification: what the queue promises to its callers |
| `InputQueue` | the ring, one shared access per action; `FifoSpec` is its refinement of `EventFifo` |
| `InputQueueProofs` | type correctness, the inductive invariant, exclusion on slots, the refinement of `EventFifo` |
| `MCInputQueue` | names for TLC's model values |
| `TouchInput` | touch, deferred press, dispatch, over the FIFO as one step per operation |
| `TouchInputProofs` | press and release in turn, the hover before a click, the place of a press |
| `Lifecycle`, `MCLifecycle` | start, stop and the compositor thread |
| `LifecycleProofs` | one compositor, a stop that stops, one join, the display that a call ends |
| `Surface`, `MCSurface` | surface, zoom, resize, pending sizes, and the way of a frame to the window |
| `SurfaceProofs` | types, the window lock, the presenter and its window, the size of the output |
| `ViewFocus` | the views of labwc and what a tick does with them |
| `ViewFocusProofs` | the keyboard of a new front view, the focus a tick leaves alone |
| `PixelFormats` | the two tables between DRM and Android formats |
| `AhbAllocator` | the allocator, its linked list, buffers and their handles (EXTENDS `PixelFormats`) |
| `GpuPath` | the choice of renderer and allocator, and a run from start to end (EXTENDS `AhbAllocator`) |
| `GpuPathProofs` | the list, the handles, the formats, the fallback and the crashes of `GpuPath` |
| `BenchmarkClient` | the Wayland client and its connection |
| `Helpers` | the JNI calls that start and end helpers, their processes (EXTENDS `BenchmarkClient`) |
| `HelpersProofs` | the processes, the one frame under way, and the buffer it is read back into |
| `XwaylandArgs`, `WayvncShim` | the wrapper and the shim |
| `Interposers` | a behaviour of either of these two |
| `InterposersProofs` | what wlroots and wayvnc are promised by them |

Each module states its properties at the end and, in a section before its
actions, faulty variants of some actions (a dropped test, a missing reset, an
off-by-one). A property is only kept if TLC finds it violated when one of
these replaces the action it varies.

### InputQueue

The variables are the globals of the same name plus the program counters and
locals of the threads inside `queue_input()` (`pc`, `ev`, `next`, `slot`) and
of the drain loop (`cpc`, `got`, `out`). `queue_input()` reads `g_input_write`
twice, so `Call`, `NotFull`/`Full`, `Address`, `Store` and `Publish` are
separate steps; the drain loop is `DrainTest`, `Copy`, `Advance`; the reset of
`compositor_main()` is `ResetRead`, `ResetWrite`. Three constants say what the
surroundings do, because the code does not enforce it:

- `Producers`: `{Jni}` is the design the comment of line 314 states;
  `{Jni, Comp}` is the code, whose timer queues events on the compositor thread.
- `OrderedStores`: whether the slot is visible before the index. The slot is a
  plain store and the index a `volatile` one, so x86_64 keeps the order and
  arm64 need not.
- `QuietStart`: whether calls stay out of `queue_input()` during the reset.

### TouchInput

`queue_input()` is one step here, on the FIFO that `InputQueue` implements;
every access to `g_deferred_button_countdown` is a step, the decrement being a
load and a store. A gesture is numbered; a motion event says which gesture it
belongs to and whether it points to where the finger went down (0), a nudge
beside it (-1, 1) or elsewhere (2). `Overlap` says whether a call and a tick may
run at the same time, which the code does nothing to prevent. The two reads of
the countdown on lines 448 and 450 are one step: they choose the side of the
nudge only. A call starts only with room for its four events, so that what a
full ring drops does not hide the rest. `ACTION_CANCEL` and the other actions of
Android are ignored by the code and do not appear. The caller alternates down
and up. A compositor run begins (`Start`, with what lines 596 to 601 reset) and
ends (`Stop`); fingers go down and up whether or not one lasts.

### Lifecycle

A compositor thread goes through starting, serving (`server_init()` done),
announced (`compositor_running = 1`), looping, finishing, finished
(`server_finish()` done), exited; a caller is out of the bridge, or in
`nativeStart()` or `nativeStop()` before the terminate, the join or the create.
`wl_display_terminate()` and `wl_display_run()` are external: libwayland's run
flag is set when the loop is entered, whatever it was before, and cleared by
terminate. The compositor may end by itself at any time, as labwc does on its
exit action. `Patience` says what callers wait for after `nativeStart()` before
the next call: "nothing", the "flag" (`nativeIsRunning()` says yes), or the
"loop" (the event loop has been entered, which a caller cannot find out).
`quit` are the threads whose compositor ended unasked. `TerminatesItsOwn` says
what becomes of the call that ends one: its test of the flag lets it go on only
for a thread that is alive, with a display but between lines 727 and 728, and
when it comes to the terminate the display is that thread's, and gone only if
this very thread is in `quit`. `TerminatesLiveDisplay` says that it is never gone,
and fails (see Findings). `pthread_create()` may fail, which nobody notices; an exit of the
process in `server_init()` ends the behaviour.

### Surface

The JNI thread is a program counter `jpc` over `nativeSetSurface()`,
`nativeSetZoom()` and `nativeResize()`; the compositor thread is `tpc` over the
part of `frame_timer_cb()` that applies sizes and over `on_output_commit()`. The
two pairs of words `g_pending_resize_w/h` and `g_pending_view_w/h` are the boxes
"output" and "views". Each access to a word of a box, to `g_presenter` or to
`g_window_lock` is an action; what only the holder of the lock touches changes
with the access next to it (`ReplaceWindow`, `EndBlit`).

A window is named by the number of the call that got it, and its presenter by
the same number, so that "the presenter of an older window" and "a presenter
that was freed" can be said. Frames have no content, a cached frame has its
width, height, stride and the room that was allocated for it, in pixels. The
stride is that of the buffer: an AHardwareBuffer's lines may be longer than the
output is wide, by one of `Padding`.

Left out, because nothing reads them: `g_zoom_permille`, `g_viewport_x/y`. The
frames that wlroots commits as part of a mode change are taken for the frame of
the same tick. `Overlap` says whether a call may run while a tick does (nothing
in the code prevents it), `Restarts` whether the compositor is stopped and
started again, `DeviceFails` whether Android and wlroots may refuse:
`ANativeWindow_fromSurface()`, `ANativeWindow_lock()`,
`ASurfaceTransaction_create()`, the output commit (or there is no output),
`malloc()`. A presenter may
always be missing (`buffer_presenter_create()` returns NULL before API level 29).

### ViewFocus

A tick is one step, because labwc and the timer share a thread. It restores
every shown view (`Restore`) and gives the front one the keyboard if its address
is not `last_front_view` (`Give`). Between ticks labwc and its clients
(external) create, map, unmap, destroy, raise, minimize and unmaximize views
and move the focus. A view is a number and its address one of `Addresses`, so
that the address of a destroyed view can be that of a later one. `entered` are
the views that a tick has given the keyboard since they were mapped, `before`
the front view of the last tick, `stale` the views mapped at its address: they
are the ones the code overlooks, and `FrontIsEntered` allows no others. The
keyboard of the seat is missing if its keymap does not load.

### AhbAllocator, PixelFormats and GpuPath

The list is libwayland's, pointer by pointer: `next` and `prev` of the head and
of every buffer, `wl_list_remove()` leaving NULL behind. `allocator_destroy()` is
one step per iteration because what it does depends on the links it has just
cut. `refs` is what Android counts, `ahb` what the code believes. The lock for the
CPU may fail, as it does for a buffer that has lost its AHardwareBuffer.
`FormatAgrees` is about the format a buffer reports, `StrideInBytes` about the
length of a line, `BytesPerPixel` times what Android says. A buffer that
exists when the allocator is destroyed is in `outlived`; destroying it takes it
off a list a second time, which reads through NULL: `crash`. `CrashOnlyWhen`
says that this and the removal of a commit listener that was never added are the
only two.

`GpuPath` goes through `create_android_gles2_renderer()` call by call (`Steps`),
with what each acquires and what its error path releases, then the allocator,
the fallback, the event loop and `server_finish()` (external), several times
over in one process. Of pixman and the shared memory allocator only their
presence is modelled. A crash ends the process, so the run does not check
deadlock.

### BenchmarkClient and Helpers

The connection is a sequence of events sent and not yet dispatched; the
compositor (external) configures, closes, answers the roundtrip and the frame
callback, or goes. A size is a number ordered as the areas are. The two
roundtrips and the wait between them are `Dispatch` until the flag or the answer
is there. `overrun` says that more was read back or unmapped than the buffer has
room for. What is drawn is left out.

`Helpers` adds the processes: alive, told (sent SIGTERM), zombie, reaped. The
library never waits for a child, but whatever else lives in the application's
process may. A process id held in a variable is not given to another process in
the model: how soon an id comes back is the kernel's affair. `self` is the
process that `BenchmarkClient` describes, the last one started.

### XwaylandArgs, WayvncShim and Interposers

`XwaylandArgs` builds the vector with the number of pointers it was allocated
for; `Understood` is PRoot's reading of it (external), the reference that
`RunsXwayland` compares with. A directory too long for the 512 bytes of its bind
loses the place it is bound to. `WayvncShim` counts for every request how often
wayvnc made it (`sent`), how often that got it an object (`made`) and how often
the compositor received it (`got`); `Announce` to `Again` are wayvnc and the
compositor (external). wayvnc decides how to capture once it has looked at every
global announced, and ends if it found no way. The lazy `dlsym()` is left out: it
happens before anything else of the function. So are the tests that the proxy, its
class, the arguments and the name are not NULL, which no request of libwayland's
fails.

## Runs

| Run | Question | Result |
|---|---|---|
| `queue_jni` | is the ring a bounded FIFO, free of races on a slot, with every head taken? | yes, with one JNI thread, ordered stores, quiet start |
| `queue_both` | is the ring a FIFO with the two producers of the code? | no: an accepted event is overwritten |
| `touch_serial` | does every gesture become hover, press, release at the right place? | yes, if calls and ticks take turns |
| `touch_overlap` | is the press before the release? | no, if the finger is lifted in the tick of the press |
| `lifecycle_loop` | one compositor, stop stops, no double join, does a call end the display of the thread it joins, calls return? | yes, for one caller that waits for the event loop |
| `lifecycle_lost_stop` | does stop return if the caller waits for the flag only? | no: the stop is lost and the join waits for ever |
| `surface_serial` | is the last size applied, is the output as large as the window's buffers, does a window get a frame? | yes, if calls and ticks take turns |
| `surface_overlap` | does the lock hold the window, is the presenter the window's own? | yes, whatever overlaps, fails or restarts |
| `view_focus` | does a new front view get the keyboard, and does a tick leave the focus alone otherwise? | yes, but for a view at the address of the one before |
| `gpu_path` | is the fallback clean at each failure, is the list whole, is every handle released once, is the format reported the one allocated, when does it crash? | yes; it crashes in two cases only |
| `helpers` | is a helper forgotten, does the client draw one frame at a time into a buffer it fits, does it end? | yes, unless it is resized later, or still waits for a configure |
| `interposers` | is the vector in bounds and read as meant, does wayvnc fall back and every other request arrive? | yes |

Bounds. `INPUT_QUEUE_SIZE` is 4 for 256: three events fit, the indices wrap, and
full, empty and wrapped contents all occur; the theorems cover every size.
`Capacity` 6 holds two of the longest calls less two events. `MaxGestures` 3 lets
a gesture meet the countdown left by the one before it. `MaxThreads` 3 or 4 lets
the compositor be restarted several times. `MaxSurfaces` 3 lets a surface be
set, cleared and set again, or replaced twice, 2 lets one be replaced. `MCSurface` has one screen of 600 by 900 pixels
(200 by 300 logical), the whole of it or half of it visible, zooms 500 and 1000
permille (twice as large and back) and a headless mode wider than the window,
as wlroots' 1280 by 720 is: smaller, equal and larger buffers all meet the
window. `Padding` is 32 pixels or none. `MaxViews` 3 over two addresses lets a view come back at the address of
one that is gone while a third is in front. `MaxBuffers` 3 is the first number
at which a buffer has neighbours on the list that are not the head, with
`Formats` all eight of the tables and two that Android does not have, one with
alpha and one without. `MaxPids` 3 holds a zombie of an old
benchmark beside a new one and a server, `MaxSizes` 2 a first configure and a
later one; `Sizes` are 0 (the client chooses) and one larger than the default.
`MaxOptions` 3 and `MaxRequests` 2 are enough for an option to be first, in the
middle and last and for a global to be bound twice. Deadlock is checked in every
run but `gpu_path`, where a crash ends the process.

Fairness. A thread inside the bridge is scheduled (weak fairness of each call
and of the compositor thread); the timer fires again because every tick re-arms
it (line 587). For the tick of `Surface` fairness is strong: a call may hold the
window lock each time a tick wants it, and the mutex promises no turn, so the
assumption is that calls do not come so densely that a tick, once in 33 ms, never
finds a gap. In
`Helpers` a signal is delivered, the client is scheduled, its process ends when
`main()` returns, and a compositor that has not gone answers a roundtrip. Nobody
is obliged to call, to lift a finger, to start or to stop, nor labwc to configure
or close a window.

## Proofs

Every safety property and every action property of a passing run is a theorem. A
theorem holds for every value of the constants that the assumptions of its modules
allow, unless it names more in an `ASSUME` of its own; these are the conditions
under which the runs check the property too:

| Condition | Says | Why it is needed |
|---|---|---|
| `Environment` (`InputQueueProofs`) | one producer, ordered stores, a quiet start | each one dropped breaks the queue (finding 1, and below) |
| `TakeTurns` (`TouchInputProofs`) | no call begins within a tick, no tick within a call | nothing in the code enforces it; without it finding 2 |
| `Steady` (`SurfaceProofs`) | calls and ticks take turns, one compositor run, nothing refused | `SurfaceLostSize.cfg`; and a size is handed over once: a restart or a failed commit loses it |
| one caller, `Patience = "loop"` (`LifecycleProofs`) | the caller waits for the event loop | finding 3, `LifecycleTwice.cfg` |

`InputQueueProofs` proves `Spec => []TypeOK` under `InputQueueAssumption` alone,
for any set of producers. The rest assumes what the run `queue_jni` assumes (one
producer, ordered stores, a quiet start), as the assumption `Environment` of the
theorems. `NoSlotRace` is not inductive: that the free slot in front of the
producer is not the one being drained follows only from what the threads know at
each point of their code. The inductive invariant says that a producer past its
full test holds `next = Succ(g_input_write)` and `next # g_input_read`, one past
the second read holds `slot = g_input_write`, and a consumer past its test has
`g_input_read # g_input_write`, or is in the reset with no call under way.

Its second half proves that every step of the ring is a step or a stutter of
`EventFifo` with the queue read off the ring (`Events`). It needs the
arithmetic of the indices (`Used`, `At`: how a step of either index changes the
number of events and their slots), stated as lemmas, then one lemma for the
producer's steps and one for the compositor's.

`SurfaceProofs` proves `TypeOK`, `WindowHeld` and `PresenterOfWindow` under
`SurfaceAssumption` alone: for all sizes and zooms, any number of surfaces, with
or without overlap, failures and restarts. Its invariant has three parts.
`LockInv` says where the two threads may be while each holds the lock, which
makes their critical sections exclude each other, and that a frame being copied
goes to the current window. `NumberInv` says that a call that is setting a
surface still has a number for it. `PresenterInv` says that a presenter is the
window's own, that there is none while the window is exchanged, and that a freed
presenter is current only between the free and the store of NULL;
`PresenterOfWindow` alone is not inductive because it is silent during a call.

`GpuPathProofs` proves five properties of `gpu_path` under
`AhbAllocatorAssumption` alone: for any number of buffers, any formats and any
number of runs in a process. The list is finite in every state, but induction
along it is out of the prover's reach; what replaces it is the invariant
`Circle`: every member's neighbours are members, `next` and `prev` undo each
other, and no smaller set with the head in it is closed under `next`. Insertion
and removal keep this for sets of any size (`InsertKeeps`, `RemoveKeeps`), by
applying the last part to the smaller set with the node put in or taken out.
`allocator_destroy()` always stands at the first of what is left, so each
iteration is a removal too, and a circle whose head is its own neighbour is the
head alone (`AloneAtEnd`). That buffers off the list have NULL links is what
makes `CrashOnlyWhen` provable. For the renderer the invariant says that before
each call the held objects are exactly those which the error path of that call
releases.

`LifecycleProofs` proves the safety and action properties of `lifecycle_loop`, for
any number of threads, under what that run assumes: one caller, and
`Patience = "loop"`. `OneCompositor` is not inductive, as it says nothing of which
thread is live; the invariant says that only the thread created last can be, that
the flag is 1 from its announcement to its return, that the display lives from
`server_init()` to `server_finish()` and is that thread's, and what a caller knows
at each point: before the terminate the compositor is in its loop with the run flag
set, or this very thread has ended by itself (`Serves`). That is where the patience
enters, through the test in `MayCall`. `EndsItsOwn` needs it for a second reason:
the step in which a call passes its test is one at which the flag is 1. `TypeOK`
needs neither assumption.

`HelpersProofs` proves `NoneForgotten` and `ReadbackFits`. The first rests on the
variables of `jni_bridge.c` alone. For the second the invariant follows the
connection: the answer to the second roundtrip is on its way only while it is
waited for, and a frame callback only once there is a buffer, so no frame is drawn
before it; from then on the buffer is as large as the window until a resize.
`OneFrameUnderWay` speaks of the number of frame callbacks on the connection; the
invariant (`FrameInv`) says where the one there may be is: the events sent are a
sequence, and the set of positions that hold an answer to a frame request has at
most one element, none while a request waits for its answer. While the client
draws, one of the two is there, so it asks for the next frame only after the last
was answered.

`SurfaceProofs` goes on under `Steady`: `TurnInv` says that a call and a tick are
not both under way, and `RenderInv` follows a size on its way: from the call that
has stored one of its two words, through the box, to the tick that has taken it;
`RendersAtSize` is what is left of it when none is due.

`TouchInputProofs` proves `TypeOK` for either value of `Overlap`, and the four action
properties under `TakeTurns`, for any capacity and any number of gestures. None of
the four is inductive, because each is about the event at the head of the queue,
and the events were put there by two threads some ticks before. The invariant
speaks of whole queues: `HeldAt(queue, button, i)` says whether the button will be
down once the events before position i are dispatched, and `Alternate` that every
press on the queue will find it up and every release of this run down. This is
tied to what is not on the queue yet: while a press is owed by the countdown or by
the tick (`Owed`) the button will be up, and deferred is the current gesture; a call
that lifts the finger has either the release alone to send, and then the button
will be down, or the press too, and then it will be up (`Lift`, `Flush`). `Led` says that
each press on the queue comes right behind its own motion, `Hovers` that a deferred
press is of the gesture that the pointer showed when the last tick ended. Eight
lemmas say what appending an event and dispatching one do to these four, and one
lemma per action does the rest. That a call begins only with room for its events
is used throughout: no event of this model is dropped.

`ViewFocusProofs` proves the three properties of `view_focus` for any number of views
and addresses. `AddressInv` says that a live view has an address that is not
NULL, that no two share one, and that a stopped compositor has no views; `FrontInv`
that `last_front_view` is the address the front view of the last tick had, whether
or not that view is still there, that with a keyboard a shown view at that address
was given the focus or is stale, and that after a tick the front view is at that
address. `FrontView` is the first shown view of a list; that there is a
first one follows from the well-foundedness of the numbers.

`GpuPathProofs` also proves `FormatAgrees`, for any formats, from an invariant that
says with which format each buffer was allocated and from the two tables.

`InterposersProofs` proves both properties for any options and any number of them,
any order and number of globals and requests. For the shim the invariant says that
`made` and `got` are `sent` for every request but the two blocked binds, and that
wayvnc's decision agrees with the globals it bound. `Understood`, PRoot's reading of a
line, is a recursive function; that there is a function with its equations is
proved by building one from the end of the line word by word, again from the
well-foundedness of the numbers. `NULL` is not among the options, and what stands for an
argument that is no string is not among the interfaces: the two assumptions.

Left to TLC: liveness, which is out of this prover's reach (`HeadIsTaken`, `GestureClicks`,
`ButtonComesUp`, `CallsReturn`, `RequestApplied`, `WindowShowsFrame`, `ClientEnds`).

## Findings

Each is a run that TLC must find violated; the texts are in `PROJECT.json`.

1. Two producers on the ring lose an accepted event (`queue_both`).
2. ACTION_UP in the tick of the press releases before it presses (`touch_overlap`).
3. `nativeStop()` or `nativeStart()` just before the event loop is lost
   (`lifecycle_lost_stop`).

Six more configurations are kept beside the runs. TLC finds each one's property
violated; they are where the assumptions and exceptions of the passing runs come from.

| Configuration | Property | What it shows |
|---|---|---|
| `TouchInputStale.cfg` (`TouchInput`) | `PressOfThisRun` | the countdown of a press is not among what lines 597 to 601 reset: a run presses for a finger of the run before, or of none |
| `LifecycleDeadDisplay.cfg` (`MCLifecycle`) | `TerminatesLiveDisplay` | labwc ends by itself between the test and the terminate, or has ended while the flag is still 1 (lines 727 and 728): the display terminated is gone |
| `LifecycleTwice.cfg` (`MCLifecycle`) | `OneCompositor` | a second `nativeStart()` during startup does not see the first |
| `SurfaceFreed.cfg` (`MCSurface`) | `PresenterLives` | a frame is handed to the presenter that `nativeSetSurface()` has freed (lines 200 to 203 against 940 to 942), or to NULL and not copied |
| `SurfaceLostSize.cfg` (`MCSurface`) | `RendersAtSize` | a size stored while a tick takes the one before is lost or mixed (lines 345 to 349) |
| `GpuStride.cfg` (`GpuPath`) | `StrideInBytes` | the stride is computed with four bytes a pixel, and three formats of the tables have 2, 3 or 8 |

The models show more, a consequence of a stated assumption or of a choice the code
documents nowhere:

- `OrderedStores = FALSE` (arm64): the drain loop can hand on a slot before its
  event is there.
- `QuietStart = FALSE`: a call under way during the reset brings back events that
  were cleared.
- `Patience = "nothing"`: a `nativeStop()` during startup returns at once and the
  compositor comes up afterwards.
- `Overlap = TRUE` in `Surface`: the cached frame's memory does not follow its
  stride (`CacheHolds`).
- A benchmark client that is resized after its buffer was made reads back more
  than the buffer holds (the exception of `ReadbackFits`), and one whose compositor
  goes before the first configure spins in its wait (that of `ClientEnds`).
- A zombie counts as running: `nativeIsVirglRunning()` says yes, and the benchmark
  toggle needs two presses.
- `Restarts = TRUE`: a compositor restarted behind an unchanged surface renders at
  the default mode. `DeviceFails = TRUE`: a size whose commit failed is not
  tried again.

## Not modelled

- The xdg-shell code of the benchmark is generated by wayland-scanner; the build
  scripts and stubs have no state at run time.
- labwc, wlroots and libwayland are submodules whose directories are empty: they
  are modelled as external where the code uses them.
- The drawing of the benchmark client (EGL, shaders, the cube, the frame counter)
  has no control worth a model; `buffer_get_dmabuf()` and `nativeSetViewport()`
  change nothing that is read.
- `server_init()` is labwc's: it is taken to return, as `compositor_main()` takes
  it, which tests no result; if it ends the process there is nothing left to say.
- The socket path, the environment and the theme that `nativeStart()` and
  `compositor_main()` set up are data that nothing later branches on.

## Plan

Every component with state of its own is modelled, and every safety property that a
run checks is proved. What is left is to weaken the conditions of the theorems
where the code allows it: which properties of `TouchInput` survive calls within a
tick, and which of `Lifecycle` survive a caller that waits for the flag only.
