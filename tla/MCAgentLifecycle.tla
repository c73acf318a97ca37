-------------------------- MODULE MCAgentLifecycle --------------------------
(***************************************************************************)
(* AgentLifecycle on small trees for TLC.                                  *)
(***************************************************************************)
EXTENDS AgentLifecycle

CONSTANTS e1, e2

\* A root and its child.
Family == {<<"a">>, <<"a", "b">>}
\* One agent.
Alone == {<<"a">>}
=============================================================================
