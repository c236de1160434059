--------------------------- MODULE LifecycleProofs ---------------------------
(***************************************************************************)
(* What a single caller that waits for the event loop gets from Lifecycle, *)
(* for any number of compositor threads.                                   *)
(***************************************************************************)
EXTENDS Lifecycle, FiniteSetTheorems, TLAPS

(* nativeStart() and nativeStop() are not called at the same time, nor     *)
(* before the compositor that was started last is in its event loop.       *)
Environment ==
  /\ \A c, d \in Callers : c = d
  /\ Patience = "loop"

Startup == {"starting", "serving", "announced"}
Up == {"announced", "looping", "finishing", "finished"}
HasDisplay == {"serving", "announced", "looping", "finishing"}

(* The thread created last is where S says. *)
LastIn(S) == compositor_thread # None /\ thread[compositor_thread] \in S

(* Only the thread created last is live, the flag and the display follow   *)
(* it, and a joined thread has ended.                                      *)
ThreadInv ==
  /\ \A t \in Threads : Live(t) => t = compositor_thread
  /\ compositor_thread # None => thread[compositor_thread] # "none"
  /\ compositor_running = 1 <=> LastIn(Up)
  /\ alive <=> LastIn(HasDisplay)
  /\ LastIn(ThreadState \ {"none", "starting"}) => display = compositor_thread
  /\ \A t \in joined : thread[t] = "exited"

NoneLive == \A t \in Threads : ~Live(t)

(* A compositor that nobody has told to end has not ended. *)
Serves == compositor_thread \in quit \/ (LastIn({"looping"}) /\ run)

(* What caller c knows at each place.                                      *)
CallInv(c) ==
  /\ call[c] = "out" => LastIn(Startup) \/ NoneLive \/ Serves
  /\ call[c] \in {"start_terminate", "stop_terminate"} =>
       Serves /\ compositor_thread # None /\ compositor_thread \notin joined
  /\ call[c] \in {"start_join", "stop_join"} =>
       compositor_thread # None /\ compositor_thread \notin joined
  /\ call[c] \in {"start_terminate", "stop_terminate", "start_join", "stop_join"}
       => ~LastIn(Startup)
  /\ call[c] \in {"start_create", "stopped"} => NoneLive

IInv ==
  /\ TypeOK
  /\ ThreadInv
  /\ \A c \in Callers : CallInv(c)

-----------------------------------------------------------------------------
LEMMA InitEstablishes == Init => IInv
<1> SUFFICES ASSUME Init PROVE IInv
  OBVIOUS
<1> USE DEF Init
<1>1. TypeOK
  BY DEF TypeOK, Threads, None, ThreadState, CallState
<1>2. NoneLive
  BY DEF NoneLive, Live
<1>3. ThreadInv
  BY <1>2 DEF ThreadInv, NoneLive, LastIn
<1>4. ASSUME NEW c \in Callers PROVE CallInv(c)
  BY <1>2, <1>4 DEF CallInv
<1> QED BY <1>1, <1>3, <1>4 DEF IInv

(* Types, for any number of callers and any patience.  Before the first     *)
(* thread is created there is nothing to terminate or to join.              *)
TypeInv ==
  /\ TypeOK
  /\ compositor_thread = None =>
       /\ compositor_running = 0
       /\ thread = [t \in Threads |-> "none"]
       /\ \A c \in Callers : call[c] \in {"out", "start_create", "stopped"}

LEMMA TypeKeeps == TypeInv /\ [Next]_vars => TypeInv'
<1> SUFFICES ASSUME TypeInv, [Next]_vars PROVE TypeInv'
  OBVIOUS
<1> USE DEF TypeInv, TypeOK, ThreadState, CallState, Goto, Becomes, shared, serverVars,
            Threads, None
<1>1. ASSUME NEW c \in Callers, StartCall(c) \/ StopCall(c) PROVE TypeInv'
  <2>1. /\ UNCHANGED <<compositor_running, compositor_thread, thread, joined,
                       display, alive, run, quit>>
        /\ \E place \in CallState : call' = [call EXCEPT ![c] = place]
        /\ compositor_thread = None => call'[c] \in {"start_create", "stopped"}
    BY <1>1 DEF StartCall, StopCall, MayCall
  <2> QED BY <2>1
<1>2. ASSUME NEW c \in Callers, InCall(c) PROVE TypeInv'
  <2>1. CASE Terminate(c)
    BY <2>1 DEF Terminate
  <2>2. CASE Join(c)
    BY <2>2 DEF Join
  <2>3. CASE Create(c)
    BY <2>3 DEF Create
  <2>4. CASE StopReturn(c)
    BY <2>4 DEF StopReturn
  <2> QED BY <1>2, <2>1, <2>2, <2>3, <2>4 DEF InCall
<1>3. ASSUME NEW t \in Threads, CompositorMain(t) PROVE TypeInv'
  BY <1>3 DEF CompositorMain, ServerInit, Announce, EnterLoop, LeaveLoop,
     ServerFinish, ThreadReturn
<1>4. ASSUME NEW t \in Threads, Exit(t) PROVE TypeInv'
  BY <1>4 DEF Exit
<1>5. CASE UNCHANGED vars
  BY <1>5 DEF vars
<1> QED BY <1>1, <1>2, <1>3, <1>4, <1>5 DEF Next

(* The steps of the only caller. *)
LEMMA CallerKeeps ==
  ASSUME Environment, IInv, NEW c \in Callers,
         StartCall(c) \/ StopCall(c) \/ InCall(c), TypeOK'
  PROVE  IInv'
<1> USE DEF IInv, TypeOK, ThreadInv, CallInv, NoneLive, Live, LastIn, Serves,
            Startup, Up, HasDisplay, Goto, Becomes, shared, serverVars, Environment,
            Threads, None, ThreadState
<1>1. CASE StartCall(c)
  BY <1>1 DEF StartCall, MayCall, Waited
<1>2. CASE StopCall(c)
  BY <1>2 DEF StopCall, MayCall, Waited
<1>3. CASE Terminate(c)
  BY <1>3 DEF Terminate
<1>4. CASE Join(c)
  BY <1>4 DEF Join
<1>5. CASE Create(c)
  BY <1>5 DEF Create
<1>6. CASE StopReturn(c)
  BY <1>6 DEF StopReturn
<1> QED BY <1>1, <1>2, <1>3, <1>4, <1>5, <1>6 DEF InCall

(* The steps of a compositor thread, which is the one created last. *)
LEMMA CompositorKeeps ==
  ASSUME Environment, IInv, NEW t \in Threads, CompositorMain(t) \/ Exit(t), TypeOK'
  PROVE  IInv'
<1> USE DEF IInv, TypeOK, ThreadInv, CallInv, NoneLive, Live, LastIn, Serves,
            Startup, Up, HasDisplay, Becomes, shared, serverVars, Threads, None
<1>1. CASE ServerInit(t)
  BY <1>1 DEF ServerInit
<1>2. CASE Announce(t)
  BY <1>2 DEF Announce
<1>3. CASE EnterLoop(t)
  BY <1>3 DEF EnterLoop
<1>4. CASE LeaveLoop(t)
  BY <1>4 DEF LeaveLoop
<1>5. CASE ServerFinish(t)
  BY <1>5 DEF ServerFinish
<1>6. CASE ThreadReturn(t)
  BY <1>6 DEF ThreadReturn
<1>7. CASE Exit(t)
  BY <1>7 DEF Exit
<1> QED BY <1>1, <1>2, <1>3, <1>4, <1>5, <1>6, <1>7 DEF CompositorMain

LEMMA NextKeeps ==
  Environment /\ TypeInv /\ IInv /\ [Next]_vars => TypeInv' /\ IInv'
<1> SUFFICES ASSUME Environment, TypeInv, IInv, [Next]_vars PROVE IInv'
  BY TypeKeeps
<1>1. TypeOK'
  BY TypeKeeps DEF TypeInv
<1>2. CASE UNCHANGED vars
  BY <1>2 DEF vars, shared, serverVars, IInv, TypeOK, ThreadInv, CallInv, NoneLive,
     Live, LastIn, Serves
<1> QED BY <1>1, <1>2, CallerKeeps, CompositorKeeps DEF Next

(* A call comes to the point of ending a compositor only from its test.    *)
LEMMA OnlyTestsBegin ==
  ASSUME TypeOK, Next, NEW c \in Callers, ~Ending(c), Ending(c)'
  PROVE  compositor_running = 1
<1> USE DEF Ending, TypeOK, Goto
<1>1. ASSUME NEW d \in Callers, StartCall(d) \/ StopCall(d) PROVE compositor_running = 1
  <2>1. ASSUME compositor_running # 1 PROVE call'[c] \in {"start_create", "stopped", call[c]}
    BY <1>1, <2>1 DEF StartCall, StopCall
  <2> QED BY <2>1
<1>2. ASSUME NEW d \in Callers, InCall(d) PROVE FALSE
  BY <1>2 DEF InCall, Terminate, Join, Create, StopReturn
<1>3. ASSUME NEW t \in Threads, CompositorMain(t) \/ Exit(t) PROVE FALSE
  BY <1>3 DEF CompositorMain, ServerInit, Announce, EnterLoop, LeaveLoop,
     ServerFinish, ThreadReturn, Exit, serverVars
<1> QED BY <1>1, <1>2, <1>3 DEF Next

-----------------------------------------------------------------------------
(* Every thread and every call is at a place of its code, whoever calls    *)
(* and however long callers wait.                                          *)
THEOREM TypeCorrect == Spec => []TypeOK
<1>1. Init => TypeInv
  BY InitEstablishes DEF IInv, TypeInv, Init
<1>2. TypeInv => TypeOK
  BY DEF TypeInv
<1> QED BY <1>1, <1>2, TypeKeeps, PTL DEF Spec

(* The inductive invariant, for one caller that waits for the event loop.  *)
THEOREM Inductive == ASSUME Environment PROVE Spec => []IInv
<1>1. Init => TypeInv
  BY InitEstablishes DEF IInv, TypeInv, Init
<1> QED BY <1>1, Environment, InitEstablishes, NextKeeps, PTL DEF Spec

(* nativeStart() never leaves two compositors, however many it has started. *)
THEOREM AtMostOne == ASSUME Environment PROVE Spec => []OneCompositor
<1>1. IInv => OneCompositor
  <2> SUFFICES ASSUME IInv PROVE OneCompositor
    OBVIOUS
  <2>1. {t \in Threads : Live(t)} \subseteq {compositor_thread}
    BY DEF IInv, ThreadInv
  <2>2. /\ IsFiniteSet({compositor_thread})
        /\ Cardinality({compositor_thread}) = 1
    BY FS_Singleton
  <2>3. /\ IsFiniteSet({t \in Threads : Live(t)})
        /\ Cardinality({t \in Threads : Live(t)}) \in Nat
        /\ Cardinality({t \in Threads : Live(t)}) <= 1
    BY <2>1, <2>2, FS_Subset, FS_CardinalityType
  <2> QED BY <2>3 DEF OneCompositor
<1> QED BY <1>1, Inductive, Environment, PTL

(* When nativeStop() returns there is no compositor, nor will there be one *)
(* before the next nativeStart().                                          *)
THEOREM StopLeavesNone == ASSUME Environment PROVE Spec => []StopStops
<1>1. IInv => StopStops
  BY DEF IInv, CallInv, NoneLive, StopStops
<1> QED BY <1>1, Inductive, Environment, PTL

(* nativeStart() and nativeStop() terminate the display of the very thread *)
(* they join.  Their test of the flag lets them go on only for a thread    *)
(* that is alive, and has a display but for two lines; and the display is  *)
(* gone when they terminate it only if this thread ended by itself.        *)
THEOREM EndsItsOwn == ASSUME Environment PROVE Spec => TerminatesItsOwn
<1>1. IInv /\ [Next]_vars =>
        [\A c \in Callers :
           /\ ~Ending(c) /\ Ending(c)' =>
                /\ Live(compositor_thread)
                /\ alive \/ thread[compositor_thread] = "finished"
           /\ Terminate(c) =>
                /\ display = compositor_thread
                /\ alive \/ compositor_thread \in quit]_vars
  <2> SUFFICES ASSUME IInv, Next, NEW c \in Callers
               PROVE  /\ ~Ending(c) /\ Ending(c)' =>
                           /\ Live(compositor_thread)
                           /\ alive \/ thread[compositor_thread] = "finished"
                      /\ Terminate(c) =>
                           /\ display = compositor_thread
                           /\ alive \/ compositor_thread \in quit
    OBVIOUS
  <2>1. ASSUME ~Ending(c), Ending(c)' PROVE LastIn(Up)
    <3>1. compositor_running = 1
      BY <2>1, OnlyTestsBegin DEF IInv
    <3> QED BY <3>1 DEF IInv, ThreadInv
  <2>2. LastIn(Up) =>
          /\ Live(compositor_thread)
          /\ alive \/ thread[compositor_thread] = "finished"
    BY DEF IInv, ThreadInv, LastIn, Up, HasDisplay, Live
  <2>3. ASSUME Ending(c) PROVE /\ display = compositor_thread
                               /\ alive \/ compositor_thread \in quit
    BY <2>3 DEF Ending, IInv, TypeOK, ThreadInv, CallInv, Serves, LastIn, HasDisplay,
       Startup, ThreadState, None
  <2> QED BY <2>1, <2>2, <2>3 DEF Terminate, Ending
<1> QED BY <1>1, Inductive, Environment, PTL DEF Spec, TerminatesItsOwn

(* pthread_join() is never called for a thread that was joined before. *)
THEOREM NoDoubleJoin == ASSUME Environment PROVE Spec => []JoinsOnce
<1>1. IInv => JoinsOnce
  BY DEF IInv, CallInv, JoinsOnce
<1> QED BY <1>1, Inductive, Environment, PTL
=============================================================================
