------------------------------ MODULE GpuPath ------------------------------
(***************************************************************************)
(* What compositor_main() creates for drawing, and its end: the GLES2      *)
(* renderer of create_android_gles2_renderer(), each step of which can     *)
(* fail, the AHardwareBuffer allocator that goes with it, the fallback to  *)
(* pixman and shared memory, and the listener for output commits, which is *)
(* added only if there is an output and removed in any case.               *)
(*                                                                         *)
(* server_finish() and what holds on to buffers are labwc's: it destroys   *)
(* the renderer and the allocator, and wlroots drops buffers before, after *)
(* or never.  A crash ends the process, and nothing happens any more.      *)
(***************************************************************************)
EXTENDS AhbAllocator, Sequences

VARIABLES
  step,         \* how far create_android_gles2_renderer() has come
  egl,          \* what is held of EGL and wlroots' renderer
  phase,        \* where compositor_main() is
  android_renderer, android_allocator,   \* the hooks labwc reads
  commit_link,  \* output_commit_listener.link
  hadOutput     \* has a run of this process had an output?

runVars == <<step, egl, phase, android_renderer, android_allocator,
             commit_link, hadOutput>>
vars == <<ahbVars, runVars>>

Steps == <<"get_display", "initialize", "bind_api", "choose_config",
           "create_context", "make_current", "wrap", "create_renderer">>

TypeOK ==
  /\ AhbTypeOK
  /\ step \in 1 .. Len(Steps)
  /\ egl \subseteq {"display", "context", "wlr_egl", "renderer"}
  /\ phase \in {"stopped", "egl", "gpu", "fallback", "ready", "serving",
                "finishing"}
  /\ android_renderer \in {"NULL", "gles2"}
  /\ android_allocator \in {"NULL", "ahb", "shm"}
  /\ commit_link \in {"zero", "added", "self"}
  /\ hadOutput \in BOOLEAN

RunInit ==
  /\ step = 1
  /\ egl = {}
  /\ phase = "stopped"
  /\ android_renderer = "NULL" /\ android_allocator = "NULL"
  /\ commit_link = "zero"       \* static storage
  /\ hadOutput = FALSE

Init == AhbInit /\ RunInit

(* What a step acquires when it succeeds. *)
Acquired ==
  [get_display |-> {}, initialize |-> {"display"}, bind_api |-> {},
   choose_config |-> {}, create_context |-> {"context"}, make_current |-> {},
   wrap |-> {"wlr_egl"}, create_renderer |-> {"renderer"}]

(* What is released when a step fails; wlr_egl_destroy() releases the      *)
(* display and the context it was created with.                            *)
Released ==
  [get_display |-> {}, initialize |-> {}, bind_api |-> {"display"},
   choose_config |-> {"display"}, create_context |-> {"display"},
   make_current |-> {"display", "context"}, wrap |-> {"display", "context"},
   create_renderer |-> {"display", "context", "wlr_egl"}]

Everything == UNION {Acquired[s] : s \in DOMAIN Acquired}

-----------------------------------------------------------------------------
(* Faulty variants of the definitions below, to see that the properties    *)
(* notice the mistakes they are about.                                     *)

FailsHere ==             \* a step that fails only returns NULL
  /\ phase = "egl"
  /\ phase' = "fallback"
  /\ step' = 1
  /\ android_renderer' = "NULL"
  /\ UNCHANGED <<ahbVars, egl, android_allocator, commit_link, hadOutput>>

RemoveNoInit ==          \* no wl_list_init() after wl_list_remove()
  /\ MayRun
  /\ phase = "serving"
  /\ IF commit_link = "zero"
     THEN crash' = "listener" /\ UNCHANGED <<phase, commit_link>>
     ELSE crash' = crash /\ phase' = "finishing" /\ commit_link' = "zero"
  /\ UNCHANGED <<allocator, links, buffers, handles, access, loop, outlived,
                 step, egl, android_renderer, android_allocator, hadOutput>>

-----------------------------------------------------------------------------
(* create_android_gles2_renderer() *)

Start ==
  /\ MayRun
  /\ phase = "stopped"
  /\ phase' = "egl"
  /\ UNCHANGED <<ahbVars, step, egl, android_renderer, android_allocator,
                 commit_link, hadOutput>>

Succeeds ==
  /\ phase = "egl"
  /\ egl' = egl \cup Acquired[Steps[step]]
  /\ IF step < Len(Steps)
     THEN step' = step + 1 /\ UNCHANGED <<phase, android_renderer>>
     ELSE step' = 1 /\ phase' = "gpu" /\ android_renderer' = "gles2"
  /\ UNCHANGED <<ahbVars, android_allocator, commit_link, hadOutput>>

Fails ==
  /\ phase = "egl"
  /\ egl' = egl \ Released[Steps[step]]
  /\ phase' = "fallback"
  /\ step' = 1
  /\ android_renderer' = "NULL"
  /\ UNCHANGED <<ahbVars, android_allocator, commit_link, hadOutput>>

-----------------------------------------------------------------------------
(* compositor_main(): the pair of renderer and allocator *)

AllocatorCreated ==
  /\ phase = "gpu"
  /\ wlr_ahb_allocator_create
  /\ android_allocator' = "ahb"
  /\ phase' = "ready"
  /\ UNCHANGED <<step, egl, android_renderer, commit_link, hadOutput>>

(* calloc() fails: wlr_renderer_destroy() releases all the renderer holds. *)
AllocatorFails ==
  /\ phase = "gpu"
  /\ egl' = {}
  /\ android_renderer' = "NULL"
  /\ android_allocator' = "NULL"
  /\ phase' = "fallback"
  /\ UNCHANGED <<ahbVars, step, commit_link, hadOutput>>

Fallback ==
  /\ phase = "fallback"
  /\ android_allocator' \in {"shm", "NULL"}
  /\ phase' = "ready"
  /\ UNCHANGED <<ahbVars, step, egl, android_renderer, commit_link, hadOutput>>

-----------------------------------------------------------------------------
(* compositor_main(): the event loop and the end *)

(* server_init(), server_start(), and the listener if there is an output. *)
Serve ==
  /\ phase = "ready"
  /\ phase' = "serving"
  /\ \E output \in BOOLEAN :
       /\ commit_link' = IF output THEN "added" ELSE commit_link
       /\ hadOutput' = (hadOutput \/ output)
  /\ UNCHANGED <<ahbVars, step, egl, android_renderer, android_allocator>>

(* wlroots asks for buffers; on_output_commit() reads one for the blit. *)
UseBuffers ==
  /\ phase = "serving"
  /\ \/ \E b \in Buffers, f \in Formats : create_buffer(b, f)
     \/ \E b \in Buffers : commit_link = "added" /\ buffer_begin_data_ptr_access(b)
     \/ buffer_end_data_ptr_access
  /\ UNCHANGED runVars

(* While wlroots runs, and in the next run too. *)
DropBuffer ==
  /\ phase \in {"serving", "finishing"}
  /\ \E b \in Buffers : buffer_destroy(b)
  /\ UNCHANGED runVars

(* wl_list_remove() of the listener and wl_list_init(). *)
RemoveListener ==
  /\ MayRun
  /\ phase = "serving"
  /\ IF commit_link = "zero"
     THEN crash' = "listener" /\ UNCHANGED <<phase, commit_link>>
     ELSE crash' = crash /\ phase' = "finishing" /\ commit_link' = "self"
  /\ UNCHANGED <<allocator, links, buffers, handles, access, loop, outlived,
                 step, egl, android_renderer, android_allocator, hadOutput>>

(* server_finish(): the allocator, then the renderer.  The hooks keep      *)
(* their addresses.                                                        *)
FinishAllocator ==
  /\ phase = "finishing"
  /\ allocator_destroy
  /\ UNCHANGED runVars

Finish ==
  /\ MayRun
  /\ phase = "finishing"
  /\ ~allocator
  /\ egl' = {}
  /\ phase' = "stopped"
  /\ UNCHANGED <<ahbVars, step, android_renderer, android_allocator,
                 commit_link, hadOutput>>

Next ==
  /\ crash = "no"
  /\ \/ Start \/ Succeeds \/ Fails
     \/ AllocatorCreated \/ AllocatorFails \/ Fallback
     \/ Serve \/ UseBuffers \/ DropBuffer
     \/ RemoveListener \/ FinishAllocator \/ Finish

Spec == Init /\ [][Next]_vars

-----------------------------------------------------------------------------
(* Lines 74 and 620: when labwc is initialized, the hooks hold a renderer  *)
(* and the allocator made for it, or no renderer and none of what the      *)
(* attempts acquired: no display, no context, no allocator, and nothing of *)
(* the run before.                                                         *)
FallbackIsClean ==
  phase = "ready" =>
    \/ /\ android_renderer = "gles2" /\ android_allocator = "ahb"
       /\ allocator /\ egl = Everything
    \/ /\ android_renderer = "NULL" /\ android_allocator # "ahb"
       /\ ~allocator /\ egl = {}

(* The only ways to read through a NULL link: a buffer that outlives its   *)
(* allocator is destroyed, which takes it off a list it is no longer on;   *)
(* or the process has never had an output and its first run ends.          *)
CrashOnlyWhen ==
  [][crash' # crash => \/ \E b \in outlived : buffer_destroy(b)
                       \/ RemoveListener /\ ~hadOutput]_vars
=============================================================================
