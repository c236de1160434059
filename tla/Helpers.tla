------------------------------ MODULE Helpers ------------------------------
(***************************************************************************)
(* The processes that jni_bridge.c starts and signals: the benchmark       *)
(* client, whose program is BenchmarkClient, and virgl_test_server, which  *)
(* is external.  A child that has ended stays a zombie: jni_bridge.c never *)
(* waits for one, and kill() finds it, but the runtime that surrounds the  *)
(* library may reap any child.  Its process id is free then; the model     *)
(* does not use it again while a variable of jni_bridge.c holds it.  The   *)
(* calls come from one thread of the application.                          *)
(***************************************************************************)
EXTENDS BenchmarkClient

CONSTANT MaxPids         \* bound: children at once, zombies included

ASSUME HelpersAssumption == MaxPids \in Nat

Pids == 1 .. MaxPids

VARIABLES
  process,      \* process[p]: told is alive and sent SIGTERM
  kind,         \* kind[p]: the program
  self,         \* the process whose state BenchmarkClient describes, or 0
  g_benchmark_pid, g_virgl_pid

procVars == <<process, kind, self, g_benchmark_pid, g_virgl_pid>>
vars == <<benchVars, procVars>>

TypeOK ==
  /\ BenchTypeOK
  /\ process \in [Pids -> {"none", "alive", "told", "zombie"}]
  /\ self \in Pids \cup {0}
  /\ kind \in [Pids -> {"none", "benchmark", "virgl"}]
  /\ g_benchmark_pid \in Pids \cup {-1} /\ g_virgl_pid \in Pids \cup {-1}

Init ==
  /\ BenchInit
  /\ process = [p \in Pids |-> "none"]
  /\ kind = [p \in Pids |-> "none"]
  /\ self = 0
  /\ g_benchmark_pid = -1 /\ g_virgl_pid = -1

(* kill(p, 0) == 0 *)
Exists(p) == process[p] \in {"alive", "told", "zombie"}

(* kill(p, SIGTERM) *)
Terminate(p) ==
  process' = IF process[p] = "alive" THEN [process EXCEPT ![p] = "told"] ELSE process

(* fork() and execl() of a program. *)
Fork(p, program) ==
  /\ process[p] = "none" /\ p \notin {g_benchmark_pid, g_virgl_pid}
  /\ process' = [process EXCEPT ![p] = "alive"]
  /\ kind' = [kind EXCEPT ![p] = program]

-----------------------------------------------------------------------------
(* Faulty variants of the definitions below, to see that the properties    *)
(* notice the mistakes they are about.                                     *)

ForgetsServer ==         \* the server is taken for gone whatever kill() says
  /\ g_virgl_pid > 0
  /\ g_virgl_pid' = -1
  /\ UNCHANGED <<benchVars, process, kind, self, g_benchmark_pid>>

-----------------------------------------------------------------------------
(* nativeLaunchBenchmark(): ends the benchmark if kill() finds it, starts  *)
(* one otherwise.  If fork() fails nothing changes.                        *)
EndBenchmark ==
  /\ g_benchmark_pid > 0 /\ Exists(g_benchmark_pid)
  /\ Terminate(g_benchmark_pid)
  /\ g_benchmark_pid' = -1
  /\ UNCHANGED <<benchVars, kind, self, g_virgl_pid>>

StartBenchmark ==
  /\ ~(g_benchmark_pid > 0 /\ Exists(g_benchmark_pid))
  /\ \E p \in Pids : Fork(p, "benchmark") /\ g_benchmark_pid' = p /\ self' = p
  /\ Exec
  /\ UNCHANGED g_virgl_pid

nativeStartVirglServer ==
  /\ g_virgl_pid <= 0
  /\ \E p \in Pids : Fork(p, "virgl") /\ g_virgl_pid' = p
  /\ UNCHANGED <<benchVars, self, g_benchmark_pid>>

nativeStopVirglServer ==
  /\ g_virgl_pid > 0
  /\ Terminate(g_virgl_pid)
  /\ g_virgl_pid' = -1
  /\ UNCHANGED <<benchVars, kind, self, g_benchmark_pid>>

(* It answers no, and a server that kill() does not find is forgotten; to  *)
(* answer yes changes nothing.                                             *)
nativeIsVirglRunning ==
  /\ g_virgl_pid > 0 /\ ~Exists(g_virgl_pid)
  /\ g_virgl_pid' = -1
  /\ UNCHANGED <<benchVars, process, kind, self, g_benchmark_pid>>

-----------------------------------------------------------------------------
(* The processes *)

(* The process ends, and with it what BenchmarkClient describes. *)
Ends(p) ==
  /\ process' = [process EXCEPT ![p] = "zombie"]
  /\ IF p = self
     THEN self' = 0 /\ Exited
     ELSE UNCHANGED <<self, benchVars>>
  /\ UNCHANGED <<kind, g_benchmark_pid, g_virgl_pid>>

(* SIGTERM ends a process wherever it is. *)
Killed(p) == process[p] = "told" /\ Ends(p)

(* One ends by itself: a server may, the client does when main() returns. *)
Exits(p) ==
  /\ process[p] = "alive"
  /\ kind[p] = "virgl" \/ cpc = "ended"
  /\ Ends(p)

Reaped(p) ==
  /\ process[p] = "zombie"
  /\ process' = [process EXCEPT ![p] = "none"]
  /\ kind' = [kind EXCEPT ![p] = "none"]
  /\ UNCHANGED <<benchVars, self, g_benchmark_pid, g_virgl_pid>>

ClientRuns == Main /\ UNCHANGED procVars
CompositorRuns == Compositor /\ UNCHANGED procVars

Next ==
  \/ EndBenchmark \/ StartBenchmark
  \/ nativeStartVirglServer \/ nativeStopVirglServer \/ nativeIsVirglRunning
  \/ \E p \in Pids : Killed(p) \/ Exits(p) \/ Reaped(p)
  \/ ClientRuns \/ CompositorRuns

(* A signal is delivered, the client runs on, and a compositor that does   *)
(* not go answers a roundtrip.  It is not obliged to configure the window  *)
(* or to close it, nor the application to call.                            *)
Fairness ==
  /\ \A p \in Pids : WF_vars(Killed(p))
  /\ \A p \in Pids : WF_vars(kind[p] = "benchmark" /\ Exits(p))
  /\ WF_vars(ClientRuns)
  /\ WF_vars(SendSync /\ UNCHANGED procVars)

Spec == Init /\ [][Next]_vars /\ Fairness

-----------------------------------------------------------------------------
(* A helper that is alive and was not told to end is the one its variable  *)
(* names: at most one of each is started, and none is forgotten that the   *)
(* application could never end.                                            *)
NoneForgotten ==
  \A p \in Pids : process[p] = "alive" =>
    p = IF kind[p] = "benchmark" THEN g_benchmark_pid ELSE g_virgl_pid

(* The window is closed or the compositor gone. *)
MustEnd == cpc # "connect" /\ ~(wire.up /\ client.running)

(* A benchmark that is told to end, whose window is closed or whose        *)
(* compositor has gone, ends.  The exception is the wait for the first     *)
(* configure (lines 622 to 624), which goes on for ever when the           *)
(* compositor goes before it: then the client has to be told.              *)
ClientEnds ==
  \A p \in Pids :
    /\ process[p] = "told" ~> process[p] # "told"
    /\ p = self /\ process[p] = "alive" /\ MustEnd
         ~> \/ p # self \/ process[p] # "alive"
            \/ cpc = "wait" /\ ~client.configured
=============================================================================
