--------------------------- MODULE MCInputQueue ---------------------------
(* InputQueue with four slots, of which three can be filled, so that the   *)
(* indices wrap around with several events in flight; two kinds of event   *)
(* tell orders and duplicates apart.                                       *)
EXTENDS InputQueue
CONSTANTS Jni, e1, e2
=============================================================================
