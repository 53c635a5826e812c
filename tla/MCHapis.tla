------------------------------ MODULE MCHapis ------------------------------
(***************************************************************************)
(* Hapis for TLC.                                                          *)
(***************************************************************************)
EXTENDS Hapis, TLC

Symmetry == Permutations(GameClients)

\* The user switches the radar on and off; or never touches the settings.
MCChoices == [esp : {FALSE}, radar : BOOLEAN]
MCNone    == [esp : {FALSE}, radar : {FALSE}]
=============================================================================
