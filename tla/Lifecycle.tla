------------------------------ MODULE Lifecycle ------------------------------
(***************************************************************************)
(* Starting and stopping the compositor: nativeStart(), nativeStop() and   *)
(* nativeIsRunning() on the callers' threads, compositor_main() on the     *)
(* threads that nativeStart() creates.  They share the flag                *)
(* compositor_running, the handle compositor_thread and the global server, *)
(* whose display server_init() creates and server_finish() destroys.       *)
(*                                                                         *)
(* compositor_running is set only when the long startup is over, and       *)
(* cleared only when the shutdown is.  Patience says how long callers wait *)
(* after nativeStart() before they call again: not at all, until           *)
(* nativeIsRunning() says yes, or until the event loop has been entered,   *)
(* which they have no way to find out.                                     *)
(***************************************************************************)
EXTENDS Integers, FiniteSets

CONSTANTS
  Callers,      \* the threads of the application that make JNI calls
  MaxThreads,   \* bound: compositor threads created
  Patience      \* callers wait for: "nothing", "flag" or "loop"

ASSUME LifecycleAssumption ==
  /\ MaxThreads \in Nat
  /\ Patience \in {"nothing", "flag", "loop"}

Threads == 1 .. MaxThreads
None == 0

VARIABLES
  compositor_running,
  compositor_thread,  \* the thread last created, or None
  thread,             \* thread[t]: where compositor thread t is
  joined,             \* the threads pthread_join() has returned for
  display,            \* the thread whose display server.wl_display is
  alive,              \* is that display still allocated?
  run,                \* its run flag, which ends wl_display_run()
  quit,               \* the threads whose compositor ended without being told to
  call                \* call[c]: where caller c is

shared == <<compositor_running, compositor_thread>>
serverVars == <<display, alive, run, quit>>
vars == <<shared, thread, joined, serverVars, call>>

ThreadState == {"none", "starting", "serving", "announced", "looping",
                "finishing", "finished", "exited"}
CallState == {"out", "start_terminate", "start_join", "start_create",
              "stop_terminate", "stop_join", "stopped"}

TypeOK ==
  /\ compositor_running \in {0, 1}
  /\ compositor_thread \in Threads \cup {None}
  /\ thread \in [Threads -> ThreadState]
  /\ joined \subseteq Threads
  /\ display \in Threads \cup {None}
  /\ alive \in BOOLEAN /\ run \in BOOLEAN
  /\ quit \subseteq Threads
  /\ call \in [Callers -> CallState]

Init ==
  /\ compositor_running = 0
  /\ compositor_thread = None
  /\ thread = [t \in Threads |-> "none"]
  /\ joined = {}
  /\ display = None
  /\ alive = FALSE /\ run = FALSE /\ quit = {}
  /\ call = [c \in Callers |-> "out"]

Goto(c, place) == call' = [call EXCEPT ![c] = place]
Becomes(t, state) == thread' = [thread EXCEPT ![t] = state]

Waited ==
  \A t \in Threads :
    /\ Patience # "nothing" => thread[t] \notin {"starting", "serving"}
    /\ Patience = "loop" => thread[t] # "announced"

MayCall(c) == call[c] = "out" /\ Waited

-----------------------------------------------------------------------------
(* Faulty variants of the actions below, to see that the properties notice *)
(* the mistakes they are about.                                            *)

StartUntested(c) ==      \* the previous instance is left alone
  /\ MayCall(c)
  /\ thread[MaxThreads] = "none"
  /\ Goto(c, "start_create")
  /\ UNCHANGED <<shared, thread, joined, serverVars>>

StopUntested(c) ==       \* no test of compositor_running
  /\ MayCall(c)
  /\ compositor_thread # None
  /\ Goto(c, "stop_terminate")
  /\ UNCHANGED <<shared, thread, joined, serverVars>>

TerminateNoJoin(c) ==    \* nativeStop() does not wait for the thread
  /\ call[c] \in {"start_terminate", "stop_terminate"}
  /\ run' = FALSE
  /\ Goto(c, IF call[c] = "start_terminate" THEN "start_join" ELSE "stopped")
  /\ UNCHANGED <<shared, thread, joined, display, alive, quit>>

JoinOnly(c) ==           \* the display is not terminated before the join
  /\ call[c] \in {"start_terminate", "stop_terminate"}
  /\ Goto(c, IF call[c] = "start_terminate" THEN "start_join" ELSE "stop_join")
  /\ UNCHANGED <<shared, thread, joined, serverVars>>

JoinDecrements(c) ==     \* the flag as a count of instances
  /\ call[c] \in {"start_join", "stop_join"}
  /\ thread[compositor_thread] = "exited"
  /\ joined' = joined \cup {compositor_thread}
  /\ compositor_running' = compositor_running - 1
  /\ Goto(c, IF call[c] = "start_join" THEN "start_create" ELSE "stopped")
  /\ UNCHANGED <<compositor_thread, thread, serverVars>>

ReturnRunning(t) ==      \* the thread leaves the flag to nativeStart()
  /\ thread[t] = "finished"
  /\ Becomes(t, "exited")
  /\ UNCHANGED <<shared, joined, serverVars, call>>

-----------------------------------------------------------------------------
(* Callers. *)

(* nativeStart(): if (compositor_running)   The bound on threads is here.  *)
StartCall(c) ==
  /\ MayCall(c)
  /\ thread[MaxThreads] = "none"
  /\ Goto(c, IF compositor_running = 1 THEN "start_terminate" ELSE "start_create")
  /\ UNCHANGED <<shared, thread, joined, serverVars>>

(* nativeStop(): if (!compositor_running) return; *)
StopCall(c) ==
  /\ MayCall(c)
  /\ Goto(c, IF compositor_running = 1 THEN "stop_terminate" ELSE "stopped")
  /\ UNCHANGED <<shared, thread, joined, serverVars>>

(* wl_display_terminate(server.wl_display): the run flag is cleared. *)
Terminate(c) ==
  /\ call[c] \in {"start_terminate", "stop_terminate"}
  /\ run' = FALSE
  /\ Goto(c, IF call[c] = "start_terminate" THEN "start_join" ELSE "stop_join")
  /\ UNCHANGED <<shared, thread, joined, display, alive, quit>>

(* pthread_join(compositor_thread, NULL); nativeStart() then clears the    *)
(* flag once more.                                                         *)
Join(c) ==
  /\ call[c] \in {"start_join", "stop_join"}
  /\ thread[compositor_thread] = "exited"
  /\ joined' = joined \cup {compositor_thread}
  /\ \/ /\ call[c] = "start_join"
        /\ compositor_running' = 0
        /\ Goto(c, "start_create")
     \/ /\ call[c] = "stop_join"
        /\ UNCHANGED compositor_running
        /\ Goto(c, "stopped")
  /\ UNCHANGED <<compositor_thread, thread, serverVars>>

(* The environment is set, stale sockets are removed, and                  *)
(* pthread_create(&compositor_thread, NULL, compositor_main, NULL).  If it *)
(* fails nobody notices, and the handle is that of the thread before.      *)
Create(c) ==
  /\ call[c] = "start_create"
  /\ \/ \E t \in Threads :
          /\ thread[t] = "none"
          /\ \A u \in 1 .. t - 1 : thread[u] # "none"
          /\ compositor_thread' = t
          /\ Becomes(t, "starting")
     \/ UNCHANGED <<compositor_thread, thread>>
  /\ Goto(c, "out")
  /\ UNCHANGED <<compositor_running, joined, serverVars>>

(* nativeStop() returns. *)
StopReturn(c) ==
  /\ call[c] = "stopped"
  /\ Goto(c, "out")
  /\ UNCHANGED <<shared, thread, joined, serverVars>>

InCall(c) == Terminate(c) \/ Join(c) \/ Create(c) \/ StopReturn(c)

-----------------------------------------------------------------------------
(* compositor_main(). *)

(* From the reset to server_init(), which creates the display or ends the  *)
(* process, after which there is nothing to say.                           *)
ServerInit(t) ==
  /\ thread[t] = "starting"
  /\ display' = t
  /\ alive' = TRUE
  /\ run' = FALSE
  /\ Becomes(t, "serving")
  /\ UNCHANGED <<shared, joined, quit, call>>

(* From the keymap to the timer, and compositor_running = 1; *)
Announce(t) ==
  /\ thread[t] = "serving"
  /\ compositor_running' = 1
  /\ Becomes(t, "announced")
  /\ UNCHANGED <<compositor_thread, joined, serverVars, call>>

(* wl_display_run() sets the run flag ... *)
EnterLoop(t) ==
  /\ thread[t] = "announced"
  /\ run' = TRUE
  /\ Becomes(t, "looping")
  /\ UNCHANGED <<shared, joined, display, alive, quit, call>>

(* ... and returns when it finds it cleared. *)
LeaveLoop(t) ==
  /\ thread[t] = "looping"
  /\ ~run
  /\ Becomes(t, "finishing")
  /\ UNCHANGED <<shared, joined, serverVars, call>>

(* labwc's own exit terminates the display from inside the loop. *)
Exit(t) ==
  /\ thread[t] = "looping"
  /\ run' = FALSE
  /\ quit' = quit \cup {t}
  /\ UNCHANGED <<shared, thread, joined, display, alive, call>>

(* The commit listener is removed, then server_finish(). *)
ServerFinish(t) ==
  /\ thread[t] = "finishing"
  /\ alive' = FALSE
  /\ Becomes(t, "finished")
  /\ UNCHANGED <<shared, joined, display, run, quit, call>>

(* compositor_running = 0; return NULL; *)
ThreadReturn(t) ==
  /\ thread[t] = "finished"
  /\ compositor_running' = 0
  /\ Becomes(t, "exited")
  /\ UNCHANGED <<compositor_thread, joined, serverVars, call>>

CompositorMain(t) ==
  \/ ServerInit(t) \/ Announce(t) \/ EnterLoop(t) \/ LeaveLoop(t)
  \/ ServerFinish(t) \/ ThreadReturn(t)

Next ==
  \/ \E c \in Callers : StartCall(c) \/ StopCall(c) \/ InCall(c)
  \/ \E t \in Threads : CompositorMain(t) \/ Exit(t)

(* Every thread inside the code runs on.  Nobody is obliged to call. *)
Fairness ==
  /\ \A c \in Callers : WF_vars(InCall(c))
  /\ \A t \in Threads : WF_vars(CompositorMain(t))

Spec == Init /\ [][Next]_vars
FairSpec == Spec /\ Fairness

-----------------------------------------------------------------------------
(* Properties. *)

Live(t) == thread[t] \notin {"none", "exited"}

(* There is one compositor at a time: nativeStart() stops the previous     *)
(* instance before it creates the next (lines 738 to 743).                 *)
OneCompositor == Cardinality({t \in Threads : Live(t)}) <= 1

(* When nativeStop() returns, no compositor is left, neither running nor   *)
(* about to run.                                                           *)
StopStops ==
  \A c \in Callers : call[c] = "stopped" => \A t \in Threads : ~Live(t)

Ending(c) == call[c] \in {"start_terminate", "stop_terminate"}

(* nativeStart() and nativeStop() terminate the display of the thread that *)
(* they join.  A call whose test of the flag lets it go on finds that      *)
(* thread alive, and its display too but between lines 727 and 728; and    *)
(* when the call comes to terminate it, the display is still there unless  *)
(* this very compositor has ended by itself: none that was told to end, or *)
(* that ended before, is terminated again.                                 *)
TerminatesItsOwn ==
  [][\A c \in Callers :
       /\ ~Ending(c) /\ Ending(c)' =>
            /\ Live(compositor_thread)
            /\ alive \/ thread[compositor_thread] = "finished"
       /\ Terminate(c) =>
            /\ display = compositor_thread
            /\ alive \/ compositor_thread \in quit]_vars

(* What ends is a compositor, "Stopping previous compositor instance" and  *)
(* "Stopping compositor" (lines 739 and 806), so there is a display for    *)
(* wl_display_terminate().                                                 *)
TerminatesLiveDisplay == \A c \in Callers : Ending(c) => alive

(* No thread is joined twice: the second join is undefined behaviour. *)
JoinsOnce ==
  \A c \in Callers :
    call[c] \in {"start_join", "stop_join"} => compositor_thread \notin joined

(* A call to nativeStart() or nativeStop() returns. *)
CallsReturn == \A c \in Callers : call[c] # "out" ~> call[c] = "out"
=============================================================================
