----------------------------- MODULE MCAThread -----------------------------
(***************************************************************************)
(* AThread for TLC.                                                        *)
(***************************************************************************)
EXTENDS AThread, TLC

Symmetry == Permutations(Objects) \cup Permutations(Threads)
=============================================================================
