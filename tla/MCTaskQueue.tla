---------------------------- MODULE MCTaskQueue ----------------------------
(***************************************************************************)
(* TaskQueue with two handlers at a time and few tasks for TLC.            *)
(***************************************************************************)
EXTENDS TaskQueue, TLC

CONSTANTS u1, u2, plain, thrifty

Symmetry == Permutations(Users) \cup Permutations(Settings)
=============================================================================
