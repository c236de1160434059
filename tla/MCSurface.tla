----------------------------- MODULE MCSurface -----------------------------
(* Surface with one portrait screen, a visible area that is all of it or,  *)
(* above a keyboard, half of it, and a zoom out and its return.            *)
EXTENDS Surface

Portrait == {<<600, 900>>}
Areas == {<<600, 900>>, <<600, 450>>}
Pinch == {500, 1000}
NoPinch == {1000}
Nothing == {}
Headless == <<1280, 720>>
Aligned == {32}
=============================================================================
