---------------------------- MODULE AgentPromise ----------------------------
(***************************************************************************)
(* What models.py and README.md promise a client about an agent, without   *)
(* executors: the states it can be observed in and the moves between them. *)
(* An agent runs, rests, is suspended and resumed; killing it kills all    *)
(* that is below it; the dead return only by a restart, and at most        *)
(* MaxRestarts times.                                                      *)
(***************************************************************************)
EXTENDS Naturals, Sequences

CONSTANTS Paths, MaxRestarts
VARIABLES state, restarts

vars == <<state, restarts>>

Below(p) == {q \in Paths : Len(q) > Len(p) /\ SubSeq(q, 1, Len(p)) = p}

Init ==
    /\ state = [p \in Paths |-> "absent"]
    /\ restarts = [p \in Paths |-> 0]

\* The moves of an agent that is alive, and its birth.
Moves == {<<"absent", "spawning">>, <<"absent", "running">>, <<"spawning", "running">>,
          <<"running", "idle">>, <<"idle", "running">>,
          <<"running", "suspended">>, <<"idle", "suspended">>,
          <<"suspended", "running">>}

Move(p, s) ==
    /\ <<state[p], s>> \in Moves
    /\ state' = [state EXCEPT ![p] = s]
    /\ UNCHANGED restarts

\* The agent and every agent below it die in one step.
Kill(p) ==
    /\ state[p] # "absent"
    /\ state' = [q \in Paths |->
                    IF q \in {p} \cup Below(p) /\ state[q] # "absent"
                      THEN "dead" ELSE state[q]]
    /\ UNCHANGED restarts

\* A restart, of an agent in any state.
Revive(p) ==
    /\ state[p] # "absent"
    /\ restarts[p] < MaxRestarts
    /\ state' = [state EXCEPT ![p] = "running"]
    /\ restarts' = [restarts EXCEPT ![p] = @ + 1]

Next ==
    \E p \in Paths :
        \/ \E s \in {"spawning", "running", "idle", "suspended"} : Move(p, s)
        \/ Kill(p)
        \/ Revive(p)

Spec == Init /\ [][Next]_vars
=============================================================================
