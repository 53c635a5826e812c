------------------------------ MODULE MCWorld ------------------------------
(***************************************************************************)
(* World for TLC.                                                          *)
(***************************************************************************)
EXTENDS World, TLC

\* The user switches the boxes and the radar at will.
MCChoices == [esp : BOOLEAN, radar : BOOLEAN]

Symmetry == Permutations(Others)
=============================================================================
