----------------------------- MODULE MCAccounts -----------------------------
(***************************************************************************)
(* Accounts with one browser and up to two checkouts for TLC.              *)
(***************************************************************************)
EXTENDS Accounts, TLC

CONSTANTS b1, c1, c2

Symmetry == Permutations(Customers)
=============================================================================
