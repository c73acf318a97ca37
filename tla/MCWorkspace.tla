----------------------------- MODULE MCWorkspace -----------------------------
(***************************************************************************)
(* Workspace with two runs at a time and two declared files, for TLC.      *)
(***************************************************************************)
EXTENDS Workspace, TLC

CONSTANTS r1, r2, f1, f2

\* Every file is declared, so that they are alike.
Symmetry == Permutations(Runs) \cup Permutations(Files)
=============================================================================
