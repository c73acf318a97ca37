---------------------------- MODULE MCContainers ----------------------------
(***************************************************************************)
(* Containers with three threads of the pool, for TLC.                     *)
(***************************************************************************)
EXTENDS Containers, TLC

CONSTANTS t1, t2, t3

Symmetry == Permutations(Threads)
=============================================================================
