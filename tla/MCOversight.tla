---------------------------- MODULE MCOversight ----------------------------
(***************************************************************************)
(* Oversight with one stream for TLC: a second only checks more often.     *)
(***************************************************************************)
EXTENDS Oversight

CONSTANTS o1
=============================================================================
