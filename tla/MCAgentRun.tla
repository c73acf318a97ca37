----------------------------- MODULE MCAgentRun -----------------------------
(***************************************************************************)
(* AgentRun with small limits for TLC.                                     *)
(***************************************************************************)
EXTENDS AgentRun

\* A save is due after two calls, and after one from half of the budget on.
ShortCadences == <<2, 1, 1>>
=============================================================================
