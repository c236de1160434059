---------------------------- MODULE MCLifecycle ----------------------------
(* Lifecycle with one calling thread. *)
EXTENDS Lifecycle
CONSTANT k1
=============================================================================
