---------------------------- MODULE MCPersistence ----------------------------
(***************************************************************************)
(* Persistence on small trees for TLC.                                     *)
(***************************************************************************)
EXTENDS Persistence, TLC

CONSTANTS s1, s2

\* A root and its child.
Family == {<<"a">>, <<"a", "b">>}
SaveSymmetry == Permutations(Slots)
=============================================================================
