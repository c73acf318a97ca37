----------------------------- MODULE TaskQueue -----------------------------
(***************************************************************************)
(* The tasks of an employee: the handlers of the team page (team.py) over  *)
(* the tables tasks and agents (db.py) and the registry.  A handler is a   *)
(* coroutine that gives way at every query, so those of two pages, or of a *)
(* double click, run in any order; a query may fail, which ends it, and    *)
(* the server may stop or crash.                                           *)
(*                                                                         *)
(* A page goes on showing what it read when it was loaded, and may be of   *)
(* any age, older than the first state here too: a button is there if it   *)
(* may have been on some page.  There is one employee: the tasks of others *)
(* are never read or written.                                              *)
(***************************************************************************)
EXTENDS Naturals, FiniteSets

CONSTANTS
    MaxTask,      \* tasks ever added (a bound of the model)
    MaxSession,   \* sessions ever spawned (a bound of the model)
    Users,        \* handlers at work at a time (a bound of the model)
    Settings,     \* what the edit dialog may save
    None

ASSUME BoundsAssumption == MaxTask \in Nat /\ MaxSession \in Nat

Tasks == 1..MaxTask         \* by their created_at
Sessions == 1..MaxSession   \* in the order they were spawned

VARIABLES
    row,       \* the employee's row of agents: its status and settings
    node,      \* the employee as an agent of the registry: its settings, or None
    saving,    \* the settings a save of that agent has bound and not yet written, or None
    tasks,     \* the table tasks
    added,     \* how many tasks were ever added
    sessions,  \* the agents spawned for tasks
    spawned,   \* how many sessions were ever spawned
    op,        \* the handlers at work
    quiet      \* history: no two of them overlapped, nothing failed or was lost

vars == <<row, node, saving, tasks, added, sessions, spawned, op, quiet>>
employee == <<row, node, saving>>
queue == <<tasks, added>>
registry == <<sessions, spawned>>

\* Archived or not: nothing here tells the other statuses apart.
Statuses == {"kept", "archived"}
Employees == [status : Statuses, settings : Settings]
\* A row that is not there is one that was never added, or was deleted.
TaskRows ==
    [status : {"queued", "active"}, session : Sessions \cup {None}]
        \cup [status : {"new", "deleted"}, session : {None}]
\* A session is an agent that never ended ("live"), was terminated ("dead"), is
\* in no registry any more ("gone"), or lives again after it had ended.
SessionNodes == [task : Tasks, life : {"live", "dead", "gone", "again"}]

ASSUME NoneAssumption ==
    None \notin Settings /\ None \notin Nat /\ None \notin Employees /\ None \notin SessionNodes

\* Where a handler is: about to ask the database, or (spawning, stopping,
\* editing) about to use what it was answered.
Steps == {"idle", "creating", "listing", "picking", "spawning", "marking",
          "reading", "saving", "collecting", "stopping", "requeueing", "editing"}
Handlers == [at : Steps, task : Tasks \cup {None}, session : Sessions \cup {None},
             copy : Employees \cup {None}, settings : Settings \cup {None},
             left : SUBSET (Tasks \X (Sessions \cup {None}))]
Idle == [at |-> "idle", task |-> None, session |-> None, copy |-> None,
         settings |-> None, left |-> {}]

TypeOK ==
    /\ row \in Employees \cup {None}
    /\ node \in Settings \cup {None}
    /\ saving \in Settings \cup {None}
    /\ tasks \in [Tasks -> TaskRows]
    /\ added \in 0..MaxTask
    /\ sessions \in [Sessions -> SessionNodes \cup {None}]
    /\ spawned \in 0..MaxSession
    /\ op \in [Users -> Handlers]
    /\ quiet \in BOOLEAN

Init ==
    /\ row \in Employees \cup {None} /\ node = None /\ saving = None
    /\ tasks = [t \in Tasks |-> [status |-> "new", session |-> None]] /\ added = 0
    /\ sessions = [s \in Sessions |-> None] /\ spawned = 0
    /\ op = [u \in Users |-> Idle]
    /\ quiet = TRUE

InTable(t) == tasks[t].status \in {"queued", "active"}
With(status) == {t \in Tasks : tasks[t].status = status}
Resting == saving = None /\ \A u \in Users : op[u] = Idle

-----------------------------------------------------------------------------
\* Handlers.

Begin(u, handler) ==
    /\ row # None
    /\ op[u] = Idle
    /\ op' = [op EXCEPT ![u] = handler]
    /\ quiet' = (quiet /\ Resting)

At(u, step) == op[u].at = step
Goes(u, step) == op' = [op EXCEPT ![u].at = step]
Ends(u) == op' = [op EXCEPT ![u] = Idle]

\* A query fails; no handler undoes what it has done.
Fails(u) ==
    /\ op[u].at \notin {"idle", "spawning", "stopping", "editing"}
    /\ Ends(u)
    /\ quiet' = FALSE
    /\ UNCHANGED <<employee, queue, registry>>

-----------------------------------------------------------------------------
\* submit_task: adds the task, and starts the next one if none is active.

SubmitTask(u) ==
    /\ added < MaxTask
    /\ added' = added + 1
    /\ Begin(u, [Idle EXCEPT !.at = "creating", !.task = added + 1])
    /\ UNCHANGED <<employee, tasks, registry>>

CreateTask(u) ==
    /\ At(u, "creating")
    /\ tasks' = [tasks EXCEPT ![op[u].task] = [status |-> "queued", session |-> None]]
    /\ Goes(u, "listing")
    /\ UNCHANGED <<employee, added, registry, quiet>>

ListActive(u) ==
    /\ At(u, "listing")
    /\ IF With("active") = {} THEN Goes(u, "picking") ELSE Ends(u)
    /\ UNCHANGED <<employee, queue, registry, quiet>>

-----------------------------------------------------------------------------
\* _start_next_task, of a submission or the Start button: that is on a page with
\* a queued task and no active one, as there was when the first was added.

StartButton(u) ==
    /\ \E t \in Tasks : tasks[t].status # "new"
    /\ Begin(u, [Idle EXCEPT !.at = "picking"])
    /\ UNCHANGED <<employee, queue, registry>>

\* (the last of the queue)
Newest(t, ts) == t \in ts /\ \A v \in ts : v <= t

Oldest(t, ts) == t \in ts /\ \A v \in ts : t <= v

PickQueued(u) ==
    /\ At(u, "picking")
    /\ IF With("queued") = {} THEN Ends(u)
         ELSE \E t \in Tasks :
                /\ Oldest(t, With("queued"))
                /\ op' = [op EXCEPT ![u].at = "spawning", ![u].task = t]
    /\ UNCHANGED <<employee, queue, registry, quiet>>

\* spawn() does not await.
SpawnSession(u) ==
    /\ At(u, "spawning")
    /\ spawned < MaxSession
    /\ spawned' = spawned + 1
    /\ sessions' = [sessions EXCEPT ![spawned + 1] = [task |-> op[u].task, life |-> "live"]]
    /\ op' = [op EXCEPT ![u].at = "marking", ![u].session = spawned + 1]
    /\ UNCHANGED <<employee, queue, quiet>>

SpawnRefused(u) ==
    /\ At(u, "spawning")
    /\ Ends(u)
    /\ UNCHANGED <<employee, queue, registry, quiet>>

\* (an INSERT that updates what is there)
UpsertTask(t, status, session) ==
    tasks' = [tasks EXCEPT ![t] =
                 [status |-> status,
                  session |-> IF session = None THEN @.session ELSE session]]

\* update_task_status: an UPDATE of the row, if it is still there, whatever its
\* status is by now; without a session it keeps the one it has.
UpdateTask(t, status, session) ==
    tasks' = [tasks EXCEPT ![t] =
                 IF InTable(t)
                   THEN [status |-> status,
                         session |-> IF session = None THEN @.session ELSE session]
                   ELSE @]

MarkActive(u) ==
    /\ At(u, "marking")
    /\ UpdateTask(op[u].task, "active", op[u].session)
    /\ Goes(u, "reading")
    /\ UNCHANGED <<employee, added, registry, quiet>>

\* "Update last_active": the whole row is read and then written back.
ReadEmployee(u) ==
    /\ At(u, "reading")
    /\ op' = [op EXCEPT ![u].at = "saving", ![u].copy = row]
    /\ UNCHANGED <<employee, queue, registry, quiet>>

SaveEmployee(u) ==
    /\ At(u, "saving")
    /\ row' = op[u].copy
    /\ Ends(u)
    /\ UNCHANGED <<node, saving, queue, registry, quiet>>

-----------------------------------------------------------------------------
\* _stop_active_tasks, of the Stop button: that is on a page with an active task.

StopButton(u) ==
    /\ spawned > 0
    /\ Begin(u, [Idle EXCEPT !.at = "collecting"])
    /\ UNCHANGED <<employee, queue, registry>>

CollectActive(u) ==
    /\ At(u, "collecting")
    /\ op' = [op EXCEPT ![u].at = "stopping",
                        ![u].left = {<<t, tasks[t].session>> : t \in With("active")}]
    /\ UNCHANGED <<employee, queue, registry, quiet>>

FirstLeft(t, u) == Oldest(t, {pair[1] : pair \in op[u].left})

\* (the sessions are left alone)
ForgetSession(u) ==
    /\ At(u, "stopping") /\ op[u].left # {}
    /\ \E t \in Tasks :
          FirstLeft(t, u) /\ op' = [op EXCEPT ![u].at = "requeueing", ![u].task = t]
    /\ UNCHANGED <<employee, queue, registry, quiet>>

\* terminate() of a session that is gone is an error, and ignored.
Terminated(session) ==
    [session EXCEPT !.life = IF session.life = "gone" THEN "gone" ELSE "dead"]

TerminateSession(u) ==
    /\ At(u, "stopping") /\ op[u].left # {}
    /\ \E t \in Tasks :
          /\ FirstLeft(t, u)
          /\ sessions' = [s \in Sessions |->
                            IF <<t, s>> \in op[u].left
                              THEN Terminated(sessions[s]) ELSE sessions[s]]
          /\ op' = [op EXCEPT ![u].at = "requeueing", ![u].task = t]
    /\ UNCHANGED <<employee, queue, spawned, quiet>>

Requeue(u) ==
    /\ At(u, "requeueing")
    /\ UpdateTask(op[u].task, "queued", None)
    /\ op' = [op EXCEPT ![u].at = "stopping",
                        ![u].left = {pair \in @ : pair[1] # op[u].task}]
    /\ UNCHANGED <<employee, added, registry, quiet>>

AllStopped(u) ==
    /\ At(u, "stopping") /\ op[u].left = {}
    /\ Ends(u)
    /\ UNCHANGED <<employee, queue, registry, quiet>>

-----------------------------------------------------------------------------
\* The rest of the page.  Handlers of one query are one step: it is all they do.

Hire(settings) ==
    /\ row = None
    /\ row' = [status |-> "kept", settings |-> settings]
    /\ UNCHANGED <<node, saving, queue, registry, op, quiet>>

\* update_employee_status: suspends, activates or archives, by a page that may be
\* older than the last archiving.
SetStatus(status) ==
    /\ row # None
    /\ row' = [row EXCEPT !.status = status]
    /\ UNCHANGED <<node, saving, queue, registry, op, quiet>>

\* (the row is kept, and with it its session)
DeleteSoftly(t) ==
    /\ InTable(t)
    /\ tasks' = [tasks EXCEPT ![t].status = "deleted"]
    /\ UNCHANGED <<employee, added, registry, op, quiet>>

\* A task that was shown as queued.
DeleteTask(t) ==
    /\ InTable(t)
    /\ tasks' = [tasks EXCEPT ![t] = [status |-> "deleted", session |-> None]]
    /\ UNCHANGED <<employee, added, registry, op, quiet>>

\* save_changes: the row is written whole, with the status the page shows (no page
\* shows the archived), and then the agent in memory if there is one.
SaveChanges(u, settings) ==
    /\ Begin(u, [Idle EXCEPT !.at = "editing", !.settings = settings])
    /\ row' = [status |-> "kept", settings |-> settings]
    /\ UNCHANGED <<node, saving, queue, registry>>

\* (only the row is written)
KeepNode(u) ==
    /\ At(u, "editing")
    /\ Ends(u)
    /\ UNCHANGED <<employee, queue, registry, quiet>>

UpdateNode(u) ==
    /\ At(u, "editing")
    /\ node' = IF node = None THEN None ELSE op[u].settings
    /\ Ends(u)
    /\ UNCHANGED <<row, saving, queue, registry, quiet>>

-----------------------------------------------------------------------------
\* Sessions and the server.

Lives(s) == sessions[s] # None /\ sessions[s].life \in {"live", "again"}

\* Terminated by the API, an agent or another page.
SessionEnds(s) ==
    /\ Lives(s)
    /\ sessions' = [sessions EXCEPT ![s].life = "dead"]
    /\ UNCHANGED <<employee, queue, spawned, op, quiet>>

\* Restarted by the API (max_restarts is left out).  That of a session that lives
\* changes nothing here.
SessionRestarts(s) ==
    /\ sessions[s] # None /\ sessions[s].life = "dead"
    /\ sessions' = [sessions EXCEPT ![s].life = "again"]
    /\ UNCHANGED <<employee, queue, spawned, op, quiet>>

\* An executor, or the server's stop, saves the employee's agent: the row is bound
\* at the call and written when the database gets to it.  One save is under way at
\* a time (a bound of the model).
AgentSaves ==
    /\ node # None /\ saving = None
    /\ saving' = node
    /\ quiet' = (quiet /\ Resting)
    /\ UNCHANGED <<row, node, queue, registry, op>>

\* (in whatever state it was)
AgentSaved(status) ==
    /\ saving # None
    /\ row' = [status |-> status, settings |-> saving]
    /\ saving' = None
    /\ UNCHANGED <<node, queue, registry, op, quiet>>

SaveFails ==
    /\ saving # None
    /\ saving' = None
    /\ UNCHANGED <<row, node, queue, registry, op, quiet>>

\* The server stops or crashes, and the next start finds the sessions in `back`:
\* one that was never saved, or was saved as dead, is gone, and one that was
\* terminated is back if its row still says that it runs.  The employee is in the
\* registry if it is not archived.
ServerRestarts(back) ==
    /\ row # None
    /\ \A s \in back : sessions[s] # None /\ sessions[s].life # "gone"
    /\ sessions' = [s \in Sessions |->
                        IF sessions[s] = None THEN None
                        ELSE [sessions[s] EXCEPT !.life =
                                IF s \notin back THEN "gone"
                                ELSE IF sessions[s].life = "live" THEN "live" ELSE "again"]]
    /\ node' = IF row.status # "archived" THEN row.settings ELSE None
    /\ saving' = None
    /\ op' = [u \in Users |-> Idle]
    /\ quiet' = (quiet /\ Resting /\ back = {s \in Sessions : Lives(s)})
    /\ UNCHANGED <<row, queue, spawned>>

-----------------------------------------------------------------------------
\* The specification.

Submission(u) == SubmitTask(u) \/ CreateTask(u) \/ ListActive(u)

Starting(u) ==
    StartButton(u) \/ PickQueued(u) \/ SpawnSession(u) \/ SpawnRefused(u)
        \/ MarkActive(u) \/ ReadEmployee(u) \/ SaveEmployee(u)

StoppingTasks(u) ==
    StopButton(u) \/ CollectActive(u) \/ TerminateSession(u) \/ Requeue(u) \/ AllStopped(u)

Editing(u) ==
    \/ UpdateNode(u)
    \/ \E settings \in Settings : SaveChanges(u, settings)

Next ==
    \/ \E u \in Users : Submission(u) \/ Starting(u) \/ StoppingTasks(u) \/ Editing(u) \/ Fails(u)
    \/ \E settings \in Settings : Hire(settings)
    \/ \E status \in Statuses : SetStatus(status)
    \/ \E t \in Tasks : DeleteTask(t)
    \/ \E s \in Sessions : SessionEnds(s) \/ SessionRestarts(s)
    \/ AgentSaves \/ SaveFails
    \/ \E status \in Statuses : AgentSaved(status)
    \/ \E back \in SUBSET Sessions : ServerRestarts(back)

Spec == Init /\ [][Next]_vars

-----------------------------------------------------------------------------
\* Properties.

NeverEnded(s) == sessions[s] # None /\ sessions[s].life = "live"
AboutToBeNamed(s) == \E u \in Users : At(u, "marking") /\ op[u].session = s

\* As long as no two handlers overlapped, no query failed and the server lost
\* nothing: a session that was spawned for a task and has not ended since is the
\* one the table names for it, so that Stop finds it, unless it is about to be
\* written there or somebody deleted the task.  (One that was restarted after it
\* had ended works for a task that may wait or have another session.)
NoStrayWork ==
    quiet => \A s \in Sessions : NeverEnded(s) /\ InTable(sessions[s].task) =>
        LET t == sessions[s].task
        IN  \/ tasks[t].status = "active" /\ tasks[t].session = s
            \/ AboutToBeNamed(s)

\* Under the condition of NoStrayWork tasks are begun in the order they were added:
\* when one becomes active, those added before it are active or deleted.
BegunInOrder ==
    [][\A t \in Tasks : quiet /\ t \notin With("active") /\ t \in With("active")' =>
          \A v \in 1..(t - 1) : v \notin With("queued")]_vars

\* Under the same condition the two copies of an employee agree once its page is
\* and the agent's saves are done: what the next start would load is what the agent
\* in memory works with.
SettingsAgree ==
    quiet /\ node # None /\ Resting => row.settings = node

\* Whatever overlaps, fails or is out of date, a reader of the table sees what
\* TaskPromise allows: no task is active that no session was spawned for, none is
\* back in the queue if none of its sessions ever ended, none that was deleted is
\* back.
Promise == INSTANCE TaskPromise WITH
    status <- [t \in Tasks |-> tasks[t].status],
    worksOn <- [s \in Sessions |-> IF sessions[s] = None THEN None ELSE sessions[s].task],
    ended <- {s \in Sessions : sessions[s] # None /\ sessions[s].life # "live"}
KeepsTaskPromise == Promise!Spec
=============================================================================
