----------------------------- MODULE Interposers -----------------------------
(***************************************************************************)
(* The two programs that are put between others: xwayland_wrapper.c        *)
(* between wlroots and Xwayland, libhaven_wayvnc_shim.c between wayvnc and *)
(* libwayland-client.  They run in processes of their own and share        *)
(* nothing, so a behaviour is one of either.                               *)
(***************************************************************************)
EXTENDS XwaylandArgs, WayvncShim

VARIABLE program

vars == <<xwaylandVars, shimVars, program>>

Init == XwaylandInit /\ ShimInit /\ program \in {"xwayland", "wayvnc"}

Next ==
  /\ UNCHANGED program
  /\ \/ program = "xwayland" /\ XwaylandNext /\ UNCHANGED shimVars
     \/ program = "wayvnc" /\ ShimNext /\ UNCHANGED xwaylandVars

Spec == Init /\ [][Next]_vars
=============================================================================
