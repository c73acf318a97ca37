----------------------------- MODULE Workspace -----------------------------
(***************************************************************************)
(* The artifacts of an agent, which are in memory (models.py) and in a     *)
(* table (db.py): seeded when a run begins, published by a tool            *)
(* (workspace_tools.py), settled before the agent goes idle (executor.py), *)
(* and saved one after the other when the server stops (api.py).           *)
(*                                                                         *)
(* The agent may have several runs at a time, for restart() leaves the one *)
(* it finds alone and suspend() cancels only the last that was started     *)
(* (registry.py).  A query is a step of its own, and may fail.  Files are  *)
(* written and removed all the time, by this agent, by others and by       *)
(* commands: whether one is there is open each time it is looked for.      *)
(* What a run does else is in AgentRun, what an agent's state allows in    *)
(* AgentLifecycle, where its commands run in Containers.                   *)
(***************************************************************************)
EXTENDS Naturals, FiniteSets

CONSTANTS
    Files,      \* the paths of its workspace
    Declared,   \* those of the spec's expected_artifacts
    MaxRecord,  \* artifacts ever recorded (a bound of the model)
    Runs,       \* runs of the agent at a time (a bound of the model)
    MaxFiled,   \* saves of its row under way (a bound of the model)
    None

ASSUME FilesAssumption == Declared \subseteq Files
ASSUME BoundAssumption == MaxRecord \in Nat /\ MaxFiled \in Nat

Ids == 1..MaxRecord

VARIABLES
    server,     \* what the server does
    state,      \* AgentNode.state
    current,    \* the run whose executor the registry keeps
    late,       \* a tool of a cancelled run is still to publish
    phase,      \* where each run is
    todo,       \* the paths it has still to seed
    saving,     \* the artifact whose save it awaits
    row,        \* the agent's state in the table agents
    filed,      \* the states that saves under way will write there
    artifacts,  \* AgentNode.artifacts
    table,      \* the table artifacts
    made,       \* how many artifacts were ever recorded
    storing,    \* the artifact whose save the server's stop awaits
    walk,       \* those the stop has still to save
    whole,      \* history: no seeding was cut short
    early,      \* history: a run was started before another had seeded
    calm,       \* history: no query failed, nothing was lost
    settled     \* history: the stop began at rest, and no artifact changed since

agent == <<state, current, late>>
run == <<phase, todo, saving>>
rows == <<row, filed>>
records == <<artifacts, table, made>>
stop == <<server, storing, walk, settled>>
history == <<whole, early, calm>>
vars == <<agent, run, rows, records, stop, history>>

Statuses == {"expected", "published", "missing"}
Records == [file : Files, status : Statuses]
Saves == [id : Ids, record : Records]

\* "running" is every state of an agent at work; "suspended" stands for DEAD too,
\* and "gone" is an agent that is not in memory.
States == {"running", "idle", "suspended", "gone"}

\* A run that is "spawned" has not begun, "cancelled" one has still to be told.
Phases == {"none", "spawned", "seeding", "working", "checking", "cancelled"}

ASSUME NoneAssumption == None \notin Records \cup Saves \cup States /\ None \notin Runs

TypeOK ==
    /\ server \in {"up", "stopping", "stopped", "down"}
    /\ state \in States /\ current \in Runs \cup {None} /\ late \in BOOLEAN
    /\ phase \in [Runs -> Phases] /\ todo \in [Runs -> SUBSET Declared]
    /\ saving \in [Runs -> Saves \cup {None}]
    /\ row \in (States \ {"gone"}) \cup {None} /\ filed \subseteq States \ {"gone"}
    /\ artifacts \in [Ids -> Records \cup {None}]
    /\ table \in [Ids -> Records \cup {None}]
    /\ made \in 0..MaxRecord
    /\ storing \in Saves \cup {None} /\ walk \subseteq Ids
    /\ whole \in BOOLEAN /\ early \in BOOLEAN /\ calm \in BOOLEAN /\ settled \in BOOLEAN

Nothing == [i \in Ids |-> None]
NoRun == [r \in Runs |-> "none"]
NoTodo == [r \in Runs |-> {}]
NoSaving == [r \in Runs |-> None]

\* The agent was just spawned: its run has not begun, its row is not saved.
Init ==
    /\ server = "up" /\ state = "running" /\ late = FALSE
    /\ current \in Runs
    /\ phase = [NoRun EXCEPT ![current] = "spawned"]
    /\ todo = NoTodo /\ saving = NoSaving
    /\ row = None /\ filed = {}
    /\ artifacts = Nothing /\ table = Nothing /\ made = 0
    /\ storing = None /\ walk = {}
    /\ whole = TRUE /\ early = FALSE /\ calm = TRUE /\ settled = FALSE

Recorded == {i \in Ids : artifacts[i] # None}
\* (who was published may be looked at again)
NotMissing == {i \in Recorded : artifacts[i].status # "missing"}

Expected == {i \in Recorded : artifacts[i].status = "expected"}
Unseeded == Recorded = {} /\ Declared # {}

\* The run that seeds, or will when it begins.
Seeder(r) == phase[r] = "seeding" \/ (phase[r] = "spawned" /\ Unseeded)

Serving == server \in {"up", "stopping", "stopped"}
Open == server = "up"

-----------------------------------------------------------------------------
\* The agent's row, and its messages.

\* (an agent that is not there is saved)
SaveGone ==
    /\ Serving
    /\ filed' = filed \cup {state} /\ Cardinality(filed') <= MaxFiled
    /\ UNCHANGED <<agent, run, row, records, stop, history>>

\* Some save_agent is called: the task that spawn() makes, a run's turn or its end.
SaveAgent ==
    /\ Serving /\ state # "gone"
    /\ filed' = filed \cup {state} /\ Cardinality(filed') <= MaxFiled
    /\ UNCHANGED <<agent, run, row, records, stop, history>>

AgentSaved(s) ==
    /\ s \in filed
    /\ filed' = filed \ {s}
    /\ row' = s
    /\ UNCHANGED <<agent, run, records, stop, history>>

AgentUnsaved(s) ==
    /\ s \in filed
    /\ filed' = filed \ {s}
    /\ calm' = FALSE
    /\ UNCHANGED <<agent, run, row, records, stop, whole, early>>

\* A message or a correction wakes an idle agent, and starts no run.  Other agents
\* send messages also while the server stops.
Wake ==
    /\ Serving
    /\ state = "idle"
    /\ state' = "running"
    /\ UNCHANGED <<current, late, run, rows, records, stop, history>>

-----------------------------------------------------------------------------
\* The agent's runs.

MoveTo(r, to) == phase' = [phase EXCEPT ![r] = to]

\* Resumed, restarted, or triggered by the scheduler.
StartRun(r) ==
    /\ Open
    /\ state # "gone" /\ phase[r] = "none"
    /\ MoveTo(r, "spawned")
    /\ state' = "running" /\ current' = r
    /\ early' = (early \/ \E q \in Runs : Seeder(q))
    /\ UNCHANGED <<late, todo, saving, rows, records, stop, whole, calm>>

\* The server's stop goes over the list as it is by then.
Record(f, status) ==
    /\ made < MaxRecord
    /\ made' = made + 1
    /\ artifacts' = [artifacts EXCEPT ![made + 1] = [file |-> f, status |-> status]]
    /\ walk' = IF server = "stopping" THEN walk \cup {made + 1} ELSE walk
    /\ settled' = FALSE

\* The record is in memory before its save is awaited.
Seed(r, f, fs) ==
    /\ Record(f, "expected")
    /\ saving' = [saving EXCEPT ![r] =
                     [id |-> made + 1, record |-> [file |-> f, status |-> "expected"]]]
    /\ todo' = [todo EXCEPT ![r] = fs \ {f}]
    /\ MoveTo(r, "seeding")

\* The head of the loop over turns.
Work(r) == MoveTo(r, IF state = "suspended" THEN "none" ELSE "working")

Begin(r) ==
    /\ phase[r] = "spawned"
    /\ \/ Unseeded /\ \E f \in Declared : Seed(r, f, Declared)
       \/ ~Unseeded /\ Work(r) /\ UNCHANGED <<todo, saving, artifacts, made, walk, settled>>
    /\ UNCHANGED <<agent, rows, table, server, storing, history>>

\* (one record is enough)
SeedFirst(r) ==
    /\ phase[r] = "seeding" /\ saving[r] = None
    /\ Work(r)
    /\ UNCHANGED <<agent, todo, saving, rows, records, stop, history>>

SeedNext(r) ==
    /\ phase[r] = "seeding" /\ saving[r] = None
    /\ \/ \E f \in todo[r] : Seed(r, f, todo[r])
       \/ todo[r] = {} /\ Work(r) /\ UNCHANGED <<todo, saving, artifacts, made, walk, settled>>
    /\ UNCHANGED <<agent, rows, table, server, storing, history>>

\* save_artifact needs the agent's row.
Saved(r) ==
    /\ saving[r] # None /\ row # None
    /\ table' = [table EXCEPT ![saving[r].id] = saving[r].record]
    /\ saving' = [saving EXCEPT ![r] = None]
    /\ UNCHANGED <<agent, phase, todo, rows, artifacts, made, stop, history>>

\* A failing save, for the row is not there or for any other reason, suspends the
\* agent when it is seeding; in the check nothing catches it.
SaveFails(r) ==
    /\ saving[r] # None
    /\ saving' = [saving EXCEPT ![r] = None]
    /\ todo' = [todo EXCEPT ![r] = {}]
    /\ MoveTo(r, "none")
    /\ state' = IF phase[r] = "seeding" /\ state = "running" THEN "suspended" ELSE state
    /\ whole' = (whole /\ phase[r] # "seeding")
    /\ calm' = (calm /\ row = None)
    /\ UNCHANGED <<current, late, rows, records, stop, early>>

\* The file is there: it is the first expected artifact of that path, or a new one.
\* It is not saved.
Published(f) ==
    IF \E i \in Expected : artifacts[i].file = f
      THEN /\ \E i \in Expected :
                 /\ artifacts[i].file = f
                 /\ artifacts' = [artifacts EXCEPT ![i].status = "published"]
           /\ settled' = FALSE
           /\ UNCHANGED <<made, walk>>
      ELSE Record(f, "published")

Publish(f) ==
    /\ Serving
    /\ late \/ \E r \in Runs : phase[r] = "working"
    /\ Published(f)
    /\ late' \in {late, FALSE}
    /\ UNCHANGED <<state, current, run, rows, table, server, storing, history>>

\* The file is looked for, and the record saved as it is then.
Settle(r, i) ==
    \E status \in {"published", "missing"} :
        LET record == [artifacts[i] EXCEPT !.status = status] IN
        /\ artifacts' = [artifacts EXCEPT ![i] = record]
        /\ saving' = [saving EXCEPT ![r] = [id |-> i, record |-> record]]
        /\ MoveTo(r, "checking")
        /\ settled' = FALSE
        /\ UNCHANGED state

GoesIdle(r) ==
    /\ MoveTo(r, "none")
    /\ state' = IF state = "running" THEN "idle" ELSE state
    /\ UNCHANGED <<saving, artifacts, settled>>

\* (one artifact is enough)
SettleOne(r) ==
    \/ (Expected = {} \/ phase[r] = "checking") /\ GoesIdle(r)
    \/ \E i \in Expected : Settle(r, i)

\* _check_artifact_completeness: one after the other, with a save each.
SettleNext(r) ==
    \/ Expected = {} /\ GoesIdle(r)
    \/ \E i \in Expected : Settle(r, i)

\* The work is done, or the cancelled run is told: whoever's run it is, an agent
\* that is RUNNING is checked and goes idle.
RunEnds(r) ==
    /\ Serving
    /\ phase[r] \in {"working", "cancelled"}
    /\ IF state = "running" THEN SettleNext(r)
         ELSE MoveTo(r, "none") /\ UNCHANGED <<state, saving, artifacts, settled>>
    /\ UNCHANGED <<current, late, todo, rows, table, made, server, storing, walk, history>>

Check(r) ==
    /\ phase[r] = "checking" /\ saving[r] = None
    /\ SettleNext(r)
    /\ UNCHANGED <<current, late, todo, rows, table, made, server, storing, walk, history>>

RunFails(r) ==
    /\ Serving
    /\ phase[r] = "working"
    /\ MoveTo(r, "none")
    /\ state' = IF state = "running" THEN "suspended" ELSE state
    /\ UNCHANGED <<current, late, todo, saving, rows, records, stop, history>>

\* The registry's executor is cancelled: it never begins, is told soon, or is at its
\* end already.  The save it waits for may still be made.
Cancel(r, tool) ==
    /\ MoveTo(r, IF phase[r] \in {"seeding", "working"} THEN "cancelled" ELSE "none")
    /\ tool => phase[r] = "working"
    /\ late' = (late \/ tool)
    /\ todo' = [todo EXCEPT ![r] = {}] /\ saving' = [saving EXCEPT ![r] = None]
    /\ table' \in {table} \cup
         (IF saving[r] # None /\ row # None
            THEN {[table EXCEPT ![saving[r].id] = saving[r].record]} ELSE {})
    /\ whole' = (whole /\ phase[r] # "seeding")
    /\ calm' = (calm /\ phase[r] # "seeding")

\* Suspended or terminated.
CutShort(tool) ==
    /\ Open
    /\ state # "gone"
    /\ state' = "suspended" /\ current' = None
    /\ IF current # None
         THEN Cancel(current, tool)
         ELSE ~tool /\ UNCHANGED <<late, run, table, whole, calm>>
    /\ UNCHANGED <<rows, artifacts, made, stop, early>>

-----------------------------------------------------------------------------
\* The server.

AtRest == phase = NoRun /\ ~late /\ filed = {} /\ state # "gone"

\* _save_tree: the agent, and then every artifact.
BeginStop ==
    /\ Open
    /\ server' = "stopping"
    /\ walk' = Recorded
    /\ row' = IF state = "gone" THEN row ELSE state
    /\ settled' = AtRest
    /\ UNCHANGED <<agent, run, filed, records, storing, history>>

\* (those nobody has published)
StoreExpected(i) ==
    /\ server = "stopping" /\ storing = None
    /\ i \in walk
    /\ walk' = walk \ {i}
    /\ storing' = IF i \in Expected THEN [id |-> i, record |-> artifacts[i]] ELSE None
    /\ UNCHANGED <<agent, run, rows, records, server, settled, history>>

Store(i) ==
    /\ server = "stopping" /\ storing = None
    /\ i \in walk
    /\ walk' = walk \ {i}
    /\ storing' = [id |-> i, record |-> artifacts[i]]
    /\ UNCHANGED <<agent, run, rows, records, server, settled, history>>

Stored ==
    /\ storing # None
    /\ table' = [table EXCEPT ![storing.id] = storing.record]
    /\ storing' = None
    /\ UNCHANGED <<agent, run, rows, artifacts, made, server, walk, settled, history>>

\* A save that fails ends the orderly stop.
StopFails ==
    /\ storing # None
    /\ storing' = None
    /\ server' = "stopped" /\ walk' = {} /\ settled' = FALSE
    /\ calm' = FALSE
    /\ UNCHANGED <<agent, run, rows, records, whole, early>>

StopDone ==
    /\ server = "stopping" /\ walk = {} /\ storing = None
    /\ server' = "stopped"
    /\ UNCHANGED <<agent, run, rows, records, storing, walk, settled, history>>

\* The process is gone, after its stop or in a crash.
Exit ==
    /\ Serving
    /\ server' = "down"
    /\ state' = "gone" /\ current' = None /\ late' = FALSE
    /\ phase' = NoRun /\ todo' = NoTodo /\ saving' = NoSaving
    /\ filed' = {}
    /\ artifacts' = Nothing
    /\ storing' = None /\ walk' = {} /\ settled' = FALSE
    /\ whole' = (whole /\ \A r \in Runs : phase[r] # "seeding")
    /\ calm' = (calm /\ server = "stopped" /\ settled)
    /\ UNCHANGED <<row, table, made, early>>

\* The agent is loaded if it has a row and is not dead, with the artifacts of the
\* table, and gets no executor.
Start ==
    /\ server = "down"
    /\ server' = "up"
    /\ state' \in CASE row = None -> {"gone"}
                    [] row = "suspended" -> {"suspended", "gone"}
                    [] OTHER -> {row}
    /\ artifacts' = IF state' = "gone" THEN Nothing ELSE table
    /\ UNCHANGED <<current, late, run, rows, table, made, storing, walk, settled, history>>

-----------------------------------------------------------------------------
\* The specification.

Run(r) ==
    \/ StartRun(r) \/ Begin(r) \/ SeedNext(r) \/ Saved(r) \/ SaveFails(r)
    \/ RunEnds(r) \/ Check(r) \/ RunFails(r)

Agent ==
    \/ SaveAgent \/ Wake
    \/ \E s \in States : AgentSaved(s) \/ AgentUnsaved(s)
    \/ \E tool \in BOOLEAN : CutShort(tool)
    \/ \E f \in Files : Publish(f)

Server ==
    \/ BeginStop \/ Stored \/ StopFails \/ StopDone \/ Exit \/ Start
    \/ \E i \in Ids : Store(i)

Next == (\E r \in Runs : Run(r)) \/ Agent \/ Server

Spec == Init /\ [][Next]_vars

-----------------------------------------------------------------------------
\* Properties.

\* Unless a seeding was cut short, and once it is done: whatever stops, crashes and
\* new runs there were, an agent that works, or has worked, has an artifact for
\* every declared path.  A run that restart() puts beside one that is seeding works
\* without some of them, but the other goes on to seed them.
AllDeclared ==
    /\ whole /\ \A r \in Runs : phase[r] # "seeding"
    /\ state = "idle" \/ \E r \in Runs : phase[r] \in {"working", "checking"}
    => \A f \in Declared : \E i \in Recorded : artifacts[i].file = f

\* Unless queries failed, a stop or crash caught the agent at work, or a run was
\* started before another had seeded: no artifact of an idle agent is still
\* expected, whichever of its runs has ended, also after starts of the server.
IdleIsSettled == calm /\ ~early /\ state = "idle" => Expected = {}

\* A stop that goes through while the agent is at rest leaves in the table just
\* the artifacts the agent has, with those published since they were seeded, also
\* if it is sent messages meanwhile.
StopKeepsArtifacts == server = "stopped" /\ settled => table = artifacts

\* An artifact the table calls published is called so for good, whatever becomes
\* of its file and however many runs there are, unless a run was started before
\* another had seeded, or the agent works on while the server stops.
PublishedStays ==
    [][\A i \in Ids :
          /\ table[i] # None /\ table[i].status = "published"
          /\ ~early /\ (server # "stopping" \/ settled)
          => table'[i] = table[i]]_vars

\* executor.py: "Seed expected artifacts from spec": unless another query failed
\* or somebody suspended it, the table has an artifact for every declared path once
\* the agent is at work and no seeding goes on.  A run refutes it.
DeclaredAreStored ==
    /\ calm /\ ~early /\ \A r \in Runs : phase[r] # "seeding"
    /\ state = "idle" \/ \E r \in Runs : phase[r] \in {"working", "checking"}
    => \A f \in Declared : \E i \in Ids : table[i] # None /\ table[i].file = f
=============================================================================
