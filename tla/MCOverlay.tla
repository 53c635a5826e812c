----------------------------- MODULE MCOverlay -----------------------------
(***************************************************************************)
(* Overlay for TLC.                                                        *)
(***************************************************************************)
EXTENDS Overlay

\* The game in a window and on the whole screen, at one height.
MCShapes == {[height |-> 3, border |-> TRUE], [height |-> 3, border |-> FALSE]}
=============================================================================
