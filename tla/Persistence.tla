----------------------------- MODULE Persistence -----------------------------
(***************************************************************************)
(* How the agents of the registry reach the database and come back: the    *)
(* saves of registry.py, executor.py and api.py, each a coroutine that     *)
(* reads the agent, waits for the database and commits; the server's stop, *)
(* which saves the tree and cancels what still runs; a crash at any time;  *)
(* and the load of the rows, in any order, when it starts again.  The      *)
(* dashboard writes the rows of employees without looking at the registry. *)
(*                                                                         *)
(* An agent's executors are one here (AgentLifecycle tells them apart), at *)
(* work (busy) until the last of them and the last tool that one called in *)
(* a thread has ended; goals, health, counters and artifacts are left out. *)
(***************************************************************************)
EXTENDS Naturals, Sequences, FiniteSets

CONSTANTS
    Paths,    \* where agents may be spawned: sequences of ids
    Staff,    \* ids of employees: rows the dashboard makes
    Slots,    \* saves in flight at a time (a bound of the model)
    None

ASSUME PathsAssumption ==
    /\ <<>> \notin Paths
    /\ \A p \in Paths : Len(p) > 1 => SubSeq(p, 1, Len(p) - 1) \in Paths
    /\ None \notin Paths

VARIABLES
    mode,      \* of the server
    nodes,     \* AgentRegistry._roots and below: the agent at each place
    rows,      \* the table agents, by its primary key: the agent's id
    saves,     \* the saves in flight
    walk,      \* _save_tree: the places still to be saved
    loading,   \* lifespan: the ids of the rows still to be restored
    clean      \* history: the tree when the server last began a quiet stop

vars == <<mode, nodes, rows, saves, walk, loading, clean>>

Modes == {"up", "stopping", "cancelling", "down", "loading"}
Serving == {"up", "stopping", "cancelling"}
States == {"running", "idle", "suspended", "dead"}

Id(p) == p[Len(p)]
Parent(p) == SubSeq(p, 1, Len(p) - 1)
Ids == {Id(p) : p \in Paths} \cup Staff

\* An agent's path is made of its parent's and its id; its place in the tree is
\* another one when it was restored before its parent: then it is a root.
Homes == Paths \cup {<<i>> : i \in Staff}
Places == Homes \cup {<<i>> : i \in Ids}

Rows == [home : Homes, state : States]
Nodes == [home : Homes, state : States, busy : BOOLEAN]
\* A save waits for its turn to read the agent at a place, or for its commit.
Saves == [at : Places, row : {None}, last : {FALSE}]
            \cup [at : {None}, row : Rows, last : BOOLEAN]

ASSUME NoneAssumption == None \notin Rows /\ None \notin Nodes /\ None \notin Saves

Present(l) == nodes[l] # None
Live(n) == n # None /\ n.state # "dead"
Below(l) == {k \in Places : Len(k) > Len(l) /\ SubSeq(k, 1, Len(l)) = l}

TypeOK ==
    /\ mode \in Modes
    /\ nodes \in [Places -> Nodes \cup {None}]
    /\ rows \in [Ids -> Rows \cup {None}]
    /\ saves \in [Slots -> Saves \cup {None}]
    /\ walk \subseteq Places
    /\ loading \subseteq Ids
    /\ clean \in [Places -> Nodes \cup {None}]

Empty == [l \in Places |-> None]

Init ==
    /\ mode = "up"
    /\ nodes = Empty
    /\ rows = [i \in Ids |-> None]
    /\ saves = [s \in Slots |-> None]
    /\ walk = {} /\ loading = {}
    /\ clean = Empty

-----------------------------------------------------------------------------
\* Saves.

Row(n) == [home |-> n.home, state |-> n.state]

\* save_agent(): the values are read in its first step, without an await.
Send(s, n, last) ==
    /\ saves[s] = None
    /\ saves' = [saves EXCEPT ![s] = [at |-> None, row |-> Row(n), last |-> last]]

\* spawn() makes a task of it, which reads the agent when it is its turn.
ReadAgent(s) ==
    /\ mode \in {"up", "stopping"}
    /\ saves[s] # None /\ saves[s].row = None
    /\ saves' = [saves EXCEPT ![s].at = None, ![s].row = Row(nodes[saves[s].at])]
    /\ UNCHANGED <<mode, nodes, rows, walk, loading, clean>>

\* Every save has a connection of its own: they commit in any order.
Commit(s) ==
    /\ saves[s] # None /\ saves[s].row # None
    /\ rows' = [rows EXCEPT ![Id(saves[s].row.home)] = saves[s].row]
    /\ saves' = [saves EXCEPT ![s] = None]
    /\ UNCHANGED <<mode, nodes, walk, loading, clean>>

\* The database fails, or the task is cancelled when the server exits.  In
\* _save_tree the exception ends the server's orderly stop.
SaveFails(s) ==
    /\ saves[s] # None
    /\ saves' = [saves EXCEPT ![s] = None]
    /\ IF saves[s].last
         THEN mode' = "cancelling" /\ walk' = {} /\ clean' = Empty
         ELSE UNCHANGED <<mode, walk, clean>>
    /\ UNCHANGED <<nodes, rows, loading>>

-----------------------------------------------------------------------------
\* Agents.

HomeAt(l) == IF Len(l) = 1 THEN l ELSE Append(nodes[Parent(l)].home, Id(l))

\* A request spawns anywhere while the server is up; the tool of a busy agent
\* under it, also while the server stops.  That may change a dict _save_tree is
\* iterating over, which ends its walk (RuntimeError); or the new agent is part
\* of the walk, or not.
Spawn(l, s) ==
    /\ l \in Paths /\ ~Present(l)
    /\ Len(l) > 1 => Present(Parent(l))
    /\ HomeAt(l) \in Paths
    /\ IF mode = "up" THEN UNCHANGED <<walk, clean>>
         ELSE /\ mode = "stopping" /\ Len(l) > 1 /\ nodes[Parent(l)].busy
              /\ walk' \in {walk, walk \cup {l}, {}}
              /\ clean' = Empty
    /\ saves[s] = None
    /\ nodes' = [nodes EXCEPT ![l] =
                    [home |-> HomeAt(l), state |-> "running", busy |-> TRUE]]
    /\ saves' = [saves EXCEPT ![s] = [at |-> l, row |-> None, last |-> FALSE]]
    /\ UNCHANGED <<mode, rows, loading>>

\* Operations of the registry that change a state and save nothing.
Becomes(l, from, to, busy) ==
    /\ Present(l) /\ nodes[l].state \in from
    /\ nodes' = [nodes EXCEPT ![l].state = to, ![l].busy = @ \/ busy]
    /\ UNCHANGED <<mode, rows, saves, walk, loading, clean>>

Suspend(l) == mode = "up" /\ Becomes(l, {"running", "idle"}, "suspended", FALSE)
Resume(l) == mode = "up" /\ Becomes(l, {"suspended"}, "running", TRUE)
Restart(l) == mode = "up" /\ Becomes(l, States, "running", TRUE)
Trigger(l) == mode = "up" /\ Becomes(l, {"idle"}, "running", TRUE)

\* The tool message_agent of a busy agent wakes others also while the server stops.
SendMessage(l) ==
    /\ mode = "up" \/ (mode \in Serving /\ \E k \in Places : Present(k) /\ nodes[k].busy)
    /\ Becomes(l, {"idle"}, "running", FALSE)

Terminate(l) ==
    /\ mode = "up"
    /\ Present(l)
    /\ LET dying == {k \in {l} \cup Below(l) : Present(k)}
       IN  nodes' = [k \in Places |->
                        IF k \in dying THEN [nodes[k] EXCEPT !.state = "dead"]
                        ELSE nodes[k]]
    /\ UNCHANGED <<mode, rows, saves, walk, loading, clean>>

\* The automatic checkpoint of a run.
SaveInRun(l, s) ==
    /\ mode \in {"up", "stopping"}
    /\ Present(l) /\ nodes[l].busy
    /\ Send(s, nodes[l], FALSE)
    /\ UNCHANGED <<mode, nodes, rows, walk, loading, clean>>

\* The executor's task ends with a save; a cancelled one is idle, not failed.
RunEnds(l, to, s) ==
    /\ mode \in Serving
    /\ Present(l) /\ nodes[l].busy
    /\ mode = "cancelling" => to = "idle"
    /\ LET n == [nodes[l] EXCEPT !.state = IF @ = "running" THEN to ELSE @,
                                 !.busy = FALSE]
       IN  nodes' = [nodes EXCEPT ![l] = n] /\ Send(s, n, FALSE)
    /\ UNCHANGED <<mode, rows, walk, loading, clean>>

\* Cancelled before its first step, or on its way to IDLE; or the end of a tool
\* that had outlived its executor, whose last save is a SaveInRun then: no save.
RunDropped(l) ==
    /\ mode \in Serving
    /\ Present(l) /\ nodes[l].busy
    /\ nodes' = [nodes EXCEPT ![l].busy = FALSE]
    /\ UNCHANGED <<mode, rows, saves, walk, loading, clean>>

-----------------------------------------------------------------------------
\* The dashboard's employees: rows, whether or not the registry has them.

\* A hired employee's id is a new one.
Hire(i) ==
    /\ mode = "up"
    /\ i \in Staff /\ rows[i] = None
    /\ \A l \in Places : Present(l) => Id(nodes[l].home) # i
    /\ \A s \in Slots : saves[s] = None
    /\ rows' = [rows EXCEPT ![i] = [home |-> <<i>>, state |-> "idle"]]
    /\ UNCHANGED <<mode, nodes, saves, walk, loading, clean>>

\* (the status of an archived employee taken as it is)
StateMapWithoutDead ==
    [active |-> "running", waiting_for_input |-> "idle", suspended |-> "suspended",
     archived |-> "archived"]

StateMap ==
    [active |-> "running", waiting_for_input |-> "idle", suspended |-> "suspended",
     archived |-> "dead"]

\* The buttons Suspend, Reactivate and Archive of a page that is up to date.
SetStatus(i, status) ==
    /\ mode = "up"
    /\ i \in Staff /\ rows[i] # None
    /\ \/ rows[i].state = StateMap.active /\ status = "suspended"
       \/ rows[i].state = StateMap.suspended /\ status = "active"
       \/ status = "archived"
    /\ rows' = [rows EXCEPT ![i].state = StateMap[status]]
    /\ UNCHANGED <<mode, nodes, saves, walk, loading, clean>>

-----------------------------------------------------------------------------
\* The server stops and starts.

\* No two agents in memory share an id, and with it a row.
OneRowEach(t) ==
    \A k, l \in Places :
        t[k] # None /\ t[l] # None /\ Id(t[k].home) = Id(t[l].home) => k = l

\* The server takes no more requests; agents go on running.
BeginStop ==
    /\ mode = "up"
    /\ mode' = "stopping"
    /\ walk' = {l \in Places : Present(l)}
    /\ clean' = IF OneRowEach(nodes) /\ \A s \in Slots : saves[s] = None
                  THEN nodes ELSE Empty
    /\ UNCHANGED <<nodes, rows, saves, loading>>

Walking == \E s \in Slots : saves[s] # None /\ saves[s].last

\* (a walk over the roots only)
SaveRoot(l, s) ==
    /\ mode = "stopping" /\ ~Walking
    /\ l \in walk
    /\ walk' = walk \ ({l} \cup Below(l))
    /\ Send(s, nodes[l], TRUE)
    /\ UNCHANGED <<mode, nodes, rows, loading, clean>>

\* _save_tree: one agent after the other, a parent before its children.
SaveNode(l, s) ==
    /\ mode = "stopping" /\ ~Walking
    /\ l \in walk /\ \A k \in walk : l \notin Below(k)
    /\ walk' = walk \ {l}
    /\ Send(s, nodes[l], TRUE)
    /\ UNCHANGED <<mode, nodes, rows, loading, clean>>

\* lifespan is over.  On SIGINT the event loop cancels what still runs and waits
\* for it; on SIGTERM uvicorn raises the signal again and the process is gone.
CancelTasks ==
    /\ mode = "stopping" /\ walk = {} /\ ~Walking
    /\ mode' = "cancelling"
    /\ UNCHANGED <<nodes, rows, saves, walk, loading, clean>>

Exit ==
    /\ mode = "cancelling"
    /\ mode' = "down" /\ nodes' = Empty
    /\ saves' = [s \in Slots |-> None]
    /\ UNCHANGED <<rows, walk, loading, clean>>

Crash ==
    /\ mode # "down"
    /\ mode' = "down" /\ nodes' = Empty
    /\ saves' = [s \in Slots |-> None]
    /\ walk' = {} /\ loading' = {} /\ clean' = Empty
    /\ UNCHANGED rows

\* load_agents() leaves out the dead.
Start ==
    /\ mode = "down"
    /\ mode' = "loading"
    /\ loading' = {i \in Ids : Live(rows[i])}
    /\ UNCHANGED <<nodes, rows, saves, walk, clean>>

\* (a row whose parent is not there yet is skipped)
RestoreInTree(i) ==
    LET r == rows[i]
        l == r.home
    IN  /\ mode = "loading" /\ i \in loading
        /\ loading' = loading \ {i}
        /\ nodes' = IF Len(r.home) = 1 \/ Present(Parent(r.home))
                      THEN [nodes EXCEPT ![l] = [home |-> r.home, state |-> r.state,
                                                 busy |-> FALSE]]
                      ELSE nodes
        /\ UNCHANGED <<mode, rows, saves, walk, clean>>

\* The rows come in any order.  A row whose parent is not there yet becomes a
\* root, for good.  No agent gets an executor.
Restore(i) ==
    LET r == rows[i]
        l == IF Len(r.home) = 1 \/ Present(Parent(r.home)) THEN r.home ELSE <<i>>
    IN  /\ mode = "loading" /\ i \in loading
        /\ loading' = loading \ {i}
        /\ nodes' = [nodes EXCEPT ![l] = [home |-> r.home, state |-> r.state, busy |-> FALSE]]
        /\ UNCHANGED <<mode, rows, saves, walk, clean>>

Open ==
    /\ mode = "loading" /\ loading = {}
    /\ mode' = "up" /\ clean' = Empty
    /\ UNCHANGED <<nodes, rows, saves, walk, loading>>

-----------------------------------------------------------------------------
\* The specification.

Operation(l) ==
    \/ Suspend(l) \/ Resume(l) \/ Restart(l) \/ Trigger(l) \/ SendMessage(l)
    \/ Terminate(l) \/ RunDropped(l)
    \/ \E s \in Slots :
          \/ Spawn(l, s) \/ SaveInRun(l, s) \/ SaveNode(l, s)
          \/ \E to \in {"idle", "suspended"} : RunEnds(l, to, s)

Server == BeginStop \/ CancelTasks \/ Exit \/ Crash \/ Start \/ Open

Next ==
    \/ \E l \in Places : Operation(l)
    \/ \E s \in Slots : ReadAgent(s) \/ Commit(s) \/ SaveFails(s)
    \/ \E i \in Ids : Hire(i) \/ Restore(i) \/ \E t \in DOMAIN StateMap : SetStatus(i, t)
    \/ Server

Spec == Init /\ [][Next]_vars

-----------------------------------------------------------------------------
\* Properties.

Loaded == mode = "loading" /\ loading = {}

\* An agent at rest stays as it is while the server stops, unless it is idle and
\* an agent at work has a message for it.
KeepsState(l, to) ==
    \/ to = clean[l].state
    \/ /\ clean[l].state = "idle" /\ to = "running"
       /\ \E k \in Places : clean[k] # None /\ clean[k].busy

\* An orderly stop with no save under way, of agents with different ids, loses
\* nothing: after the next start every agent is there that was alive, in its
\* state if it was at rest (or woken up), and none that was dead, also if neither
\* had ever been saved.
StopKeepsTree ==
    Loaded =>
        \A l \in Places :
            clean[l] # None =>
                LET back == {k \in Places : Present(k) /\ nodes[k].home = clean[l].home}
                IN  IF clean[l].state = "dead" THEN back = {}
                    ELSE \E k \in back : ~clean[l].busy => KeepsState(l, nodes[k].state)

\* Whatever stops, crashes and saves overtaking each other have left in the
\* table, in whatever order the rows come: every agent that is not dead there is
\* back after the start, with its path and state, and only once.
LiveRowsReturn ==
    Loaded =>
        \A i \in Ids : Live(rows[i]) =>
            \E l \in Places :
                /\ Present(l) /\ Row(nodes[l]) = rows[i]
                /\ \A k \in Places : Present(k) /\ Id(nodes[k].home) = i => k = l
=============================================================================
