---------------------------- MODULE TaskPromise ----------------------------
(***************************************************************************)
(* What the tasks table promises whoever reads it, without pages, handlers *)
(* and the database's delays: a task waits or is active, is active only    *)
(* once a session was spawned for it, goes back to waiting only if one of  *)
(* its sessions has ended some time, and does not return when it was       *)
(* deleted.                                                                *)
(***************************************************************************)
CONSTANTS Tasks, Sessions, None
VARIABLES
    status,    \* of each task: "new", "queued", "active" or "deleted"
    worksOn,   \* the task a session was spawned for, or None
    ended      \* the sessions that were ever terminated or lost, back again or not

vars == <<status, worksOn, ended>>

Init ==
    /\ status = [t \in Tasks |-> "new"]
    /\ worksOn = [s \in Sessions |-> None]
    /\ ended = {}

Add(t) ==
    /\ status[t] = "new"
    /\ status' = [status EXCEPT ![t] = "queued"]
    /\ UNCHANGED <<worksOn, ended>>

Hire(s, t) ==
    /\ worksOn[s] = None /\ status[t] # "new"
    /\ worksOn' = [worksOn EXCEPT ![s] = t]
    /\ UNCHANGED <<status, ended>>

Activate(t) ==
    /\ status[t] = "queued"
    /\ \E s \in Sessions : worksOn[s] = t
    /\ status' = [status EXCEPT ![t] = "active"]
    /\ UNCHANGED <<worksOn, ended>>

Requeue(t) ==
    /\ status[t] = "active"
    /\ \E s \in ended : worksOn[s] = t
    /\ status' = [status EXCEPT ![t] = "queued"]
    /\ UNCHANGED <<worksOn, ended>>

Delete(t) ==
    /\ status[t] \in {"queued", "active"}
    /\ status' = [status EXCEPT ![t] = "deleted"]
    /\ UNCHANGED <<worksOn, ended>>

\* Sessions end one by one, or all those lost in a crash at once.
End(lost) ==
    /\ \A s \in lost : worksOn[s] # None
    /\ ended' = ended \cup lost
    /\ UNCHANGED <<status, worksOn>>

Next ==
    \/ \E t \in Tasks :
          \/ Add(t) \/ Activate(t) \/ Requeue(t) \/ Delete(t)
          \/ \E s \in Sessions : Hire(s, t)
    \/ \E lost \in SUBSET Sessions : End(lost)

Spec == Init /\ [][Next]_vars
=============================================================================
