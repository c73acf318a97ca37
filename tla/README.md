# Auton, specified

TLA+ specifications of [Auton](../src/README.md), a runtime for long-running
LLM agents (Python, asyncio, FastAPI, PostgreSQL), with TLC runs on small
instances and TLAPS proofs for all instances. Every definition was translated
from the code under `src/`; `PROJECT.json` maps each to its lines.

Contents: [inventory](#1-the-system), [modules](#2-the-modules),
[runs](#3-the-runs), [proofs](#4-the-proofs), [findings](#5-where-code-and-text-disagree),
[not modelled](#6-what-is-not-modelled), [plan](#7-plan).

## 1. The system

One process serves an HTTP API and a dashboard. Agents form trees; each agent
that works has an *executor*, an asyncio task that calls the model turn after
turn. Everything shares one event loop, so code between two `await`s is atomic,
with one exception: synchronous tools run in pool threads.

| component (source) | state it keeps | operations | what is hard |
|---|---|---|---|
| agent tree (`registry.py`, `models.py`) | `_roots` and children, each agent's state, restart count, checkpoints, messages; `_executors` by path | spawn, terminate, suspend, resume, correct, send_message, checkpoint, fork, restart, restore | operations arrive while tasks are at any `await`; cancellation is a request and takes effect later |
| executor (`executor.py`) | its task, turn, idle reason | start, stop, `_run_safe`, `run` | the `finally` block acts on a node others changed meanwhile |
| LLM tool loop (`llm.py`) | conversation, usage, stop request, write gate, breakers' counters | `chat`, `_call_api` | six ways out of a loop, flags set in one place and cleared in another |
| budget planner (`budget.py`) | spent, recent costs, reservations, finalizing | record, reserve, release, should_finalize, hard_stop | thresholds are tested after the call is paid for |
| scheduler (`scheduler.py`) | next due time per agent | `_check_schedules` every 60 s | starts executors from outside the registry |
| coordination tools (`tools/coordination.py`) | none | spawn_child, message_agent, readers | run in pool threads |
| workspace and artifact tools (`tools/workspace_tools.py`, `workspace.py`) | files, artifacts of each agent | write, run a command, publish, pass | records in memory and rows in a table part ways |
| containers (`containers.py`) | `_ready` users | ensure, exec | check, await, act, in several threads |
| persistence (`db.py`) | tables agents, checkpoints, artifacts, tasks, candidates | saves, loads, row updates | saves are unordered tasks; crash between a change and its save |
| HTTP API (`api.py`) | event queues and history, templates | handlers, lifespan, streams | start, orderly stop; slow observers |
| oversight, drift (`oversight.py`, `drift.py`) | health figures | observe, score, suspend | figures that outlive the suspension they caused |
| team and tasks (`dashboard/pages/team.py`) | employees' rows, task queue, sessions | hire, submit, start, stop, status, edit | handlers of several pages read, wait and write what they read |
| accounts (`dashboard/api/auth.py`, `sessions.py`, ...) | users, API keys, sessions of browsers | registration, login, webhooks, keys, deletion | reordered, late and repeated webhooks |
| dashboard pages, web tools, schemas | none of their own | rendering, fetching | (input and output) |

**Interaction.** A handler, a tool or the scheduler calls the registry, which
changes the node and starts or cancels an executor. The executor runs `chat()`
once a turn; `chat()` asks the planner before each call and runs the tools the
model asked for, which call the registry again or work on the user's files, in
the user's container. Executors, `spawn` and the stop of the server save agents;
the start of the server loads them. An observer's stream whose queue stays empty
has all agents checked, and a check may suspend them. The dashboard reads and
writes the same table of agents behind the registry's back, and spawns a session
(an agent) for every task it starts. Accounts meet the agents nowhere: the tier
and the credits of a user are shown and never asked for.

**What must hold**, by component:

- tree, executor: at most one executor acts for an agent and a stopped one has
  none; death is final; suspension is lifted only by somebody who provides an
  executor;
- loop, planner: spending is bounded whatever calls cost, the last call is paid
  for, the conversation stays well formed, work is saved on time, the reason
  given is the true one, and a run ends;
- persistence: what an orderly stop or a save has written is there after the start;
- workspace: every declared artifact is recorded, and settled when the agent
  rests, and what the table calls published stays so;
- containers: a command is sent to a container that runs;
- oversight: nobody stays suspended without a cause, and an agent that is at
  fault does not go on for good before an observer's eyes;
- team: a task is active only once a session was spawned for it and waits again
  only once one has ended; no session works out of reach of Stop; tasks are begun
  in their order; an employee's row and its agent agree;
- accounts: no tier of another customer's subscription or of none, in the end the
  tier of the subscription, no key without its user.

`PROJECT.json` lists the hazards of this code, each at its line, with the
properties that would catch it.

## 2. The modules

```
AgentPromise <---implements--- AgentLifecycle <--- AgentLifecycleProofs
                                     |  "turn" seen from inside
                                     v
BudgetPlanner <---extends------- AgentRun <------- AgentRunProofs
                                     |  what a run does to files and artifacts
                                     v
                               Workspace <-------- WorkspaceProofs
                                     :  where its commands run
                               Containers <------- ContainersProofs
                               Persistence <------ PersistenceProofs
AgentPromise <---moves as----- Oversight <-------- OversightProofs
TaskPromise <----implements--- TaskQueue <-------- TaskQueueProofs
                               Accounts <--------- AccountsProofs
```

Where two modules speak of the same thing, one tells it apart and the other
keeps as much of it as its properties need, as a choice: the executors of
`AgentLifecycle` are `busy` in `Persistence`, `works` and `stray` in
`Oversight` and the `phase` of each run in `Workspace`.

### AgentLifecycle (registry, executors' tasks, scheduler)

A step is what runs between two awaits, or between two moments at which a pool
thread can be overtaken. `state` and `restarts` are fields of `AgentNode`; `current` is `_executors`; `owner`, `pc` and `cancelled` describe each
executor: `spawning` and `launching` (its thread is inside `spawn`), `posted`
(start queued from a thread), `created`, `turn` (inside `run()`), `closing` (in
`_check_artifact_completeness`), `saving` (in the last `save_agent`), `done`. The
states CORRECTING and TERMINATING, and SPAWNING of a spawn from the API, are
entered and left within one synchronous call and are never seen; a child spawned
by the tool `spawn_child` is seen SPAWNING, because that call runs in a pool thread
beside the event loop (`SpawnFromTool`, `GoesRunning`, `EntersMap`, `LoopStarts`).
One action per registry operation (`Terminate`, `Suspend`, ...; `fork` is a `Spawn`), with the details
that matter: `terminate` stops only the executor of its argument, `restart` stops
none, `suspend` stops the executor before the transition may be refused,
`send_message` and `correct` make RUNNING agents without executors. Executors that
ended stay in the code's map; here their objects are reused, which `stop()` cannot
tell apart.

The code does come to two executors of one agent, in three ways: a restart, a
resume before the task that was just cancelled has seen its CancelledError, and a
stop between the steps of the thread that spawns the agent, which finds nothing to
cancel. All three are in the model. The history `overtaken` is the set of the
agents this happened to: `SoleExecutor` and `RestMeansNoWork` leave those out, the
other properties do not.

### AgentPromise

What a client can rely on: each agent's state moves along the table
`_TRANSITIONS` (`models.py`), the dead stay dead but for a counted restart, a
terminate takes the whole subtree in one step. `AgentLifecycle` implements it
(`KeepsPromise`), and the steps of `Oversight`, which begins with an agent just
spawned, are steps of it as well (`MovesAsPromised`): what the one leaves out of
an agent and the other tells apart comes to the same.

### BudgetPlanner and AgentRun (planner, tool loop, turns)

One `run()` of an agent with a token budget, from inside: the turns of
`executor.py`, `chat()` with its circuit breakers, write gate, continuations,
empty answers and finalization, and the planner. The model may answer anything
at each call: text, nothing, up to `MaxBatch` tool calls of five kinds, readable
or not, an object or not, failing or not, at any cost in `CallCosts`; a call may
fail for good.
`pc` says where `run()` is suspended, `chat` holds the locals of `chat()`,
`stop`, `gate`, `unsaved` are fields of `LLMClient`, and of the conversation only
the number of unanswered tool calls is kept. The running time may be found used up
whenever it is looked at, which is at the end of a turn and after each call
(`CheckBudget`): chat() may be stopped then at any spending, with nothing
finalized (`overtime`). Percentages are the code's (95 %, 115 %, 10 %
reserve, estimates of 150 % and 120 %), in integers.

### Persistence (saves, stop, crash, start)

`nodes` is the tree in memory, an agent at each place with its logical path
(`home`); `rows` is the table `agents` by primary key; `saves` are the saves in
flight, which read the agent at one moment and commit at another, in any order.
`lifespan` is the cycle of `mode`: up, stopping (`_save_tree` walks the tree
while agents go on running and may even spawn), cancelling, down, loading (rows
in any order). `Crash` may happen at any time. While the stop saves the tree,
agents at work go on, and their messages wake idle ones (`SendMessage`). Operations that change a state
and save nothing (`Suspend`, `Terminate`, ...) are there to be lost. `Hire` and
`SetStatus` are the dashboard's writes to the same table. The executors of an
agent are reduced to `busy`; `AgentLifecycle` tells them apart.

### Workspace (artifacts)

The artifacts of one agent: `artifacts` are the records in memory, `table` their
rows. The agent may have several runs at a time, because `restart()` leaves the one
it finds alone: each has its `phase`, the declared paths it has still to seed
(`todo`) and the save it awaits (`saving`); `current` is the one the registry could
cancel. A run that finds no artifacts seeds the declared ones, one save after the
other (`Begin`, `SeedNext`, `Saved`); one that finds any seeds none. The tool
`publish_artifact` works on the record alone (`Publish`), also when its run was
cancelled meanwhile (`late`); before the agent goes idle `RunEnds` and `Check`
settle what is still expected; the stop of the server stores what the agent has,
one by one, while runs go on. A save of an artifact whose agent has no row fails,
as the database has a foreign key: `row` is the agent's row, `filed` its saves under
way. Whether a file is there is open each time it is looked for.

Four histories say in which past a property holds: `whole` (no seeding was cut
short), `early` (a run was started before another had seeded), `calm` (no query
failed and nothing was lost), `settled` (the stop began at rest).

### Containers

The user's container: `box` is what podman has, `ready` whether the manager takes
it for ready, `commands` where each thread of the pool is in `exec_command`:
looking for the container, starting it, making it, starting what it made, or
sending its command there. Each call of podman is a step and may fail, and somebody
else may stop or remove the container (`BoxGoes`); `untouched` tells that neither
happened since the server began.

### Oversight (checks, figures, streams)

The figures a check looks at (`spent`, `late`, `drifting`, `lost`, `loops`) are
written by executors, among them one that a restart has lost (`stray`), and
reset by some operations and not by others. `Heartbeat` is the timeout of an
observer's empty queue, `CheckAll` somebody's request; both make `CheckNode`,
`_check_node` as a whole: the causes in their order and the suspension.
`observers` are the bounded queues: an event is dropped when there is no room
(`Publish`), and a queue whose client went before its generator began stays
listed for good (`leaked`).

### TaskQueue and TaskPromise (team page)

Each handler of the team page is a coroutine that gives way at every query. `op`
holds, by the handler at work, where it is and the locals it has across an await:
the task picked, the session spawned, the copy of the employee's row, the list of
active tasks still to be stopped. Between any two of its steps other handlers may
run, sessions end, the employee's agent save itself, or the server restart. A save
of the agent has its settings bound when it is called (`saving`) and writes them
later. A session is `live`, `dead`, `gone` from the registry, or lives `again`:
`restart()` brings back one that was terminated, and so does a crash, because
`terminate()` saves nothing. Of an employee's status only "archived" is told apart.
A page shows what it read when it was loaded, so that a button may be pressed that
no longer fits the table. `TaskPromise` is what is left for a reader of the
table, whatever overlaps, fails or is out of date; `TaskQueue` implements it
(`KeepsTaskPromise`); its `ended` are the sessions that ended some time, back or not.
More holds as long as handlers do not overlap, no query fails and nothing is lost:
`quiet` is the history of that.

### Accounts

A person's row of `users`, keys, sessions of browsers, and what Keycloak and
Stripe have of the person, as far as the code uses it. Handlers do not give way,
but a registration does, between Keycloak's account and its own row. `events` is
what Stripe still has to deliver: any one may be next, and may stay there to be
delivered again. `subs[c].had` is every price the subscription of
customer `c` ever had, paid for or not: the webhook of an update asks only whether
the subscription was canceled.
`regular` tells that the person used one checkout, the account stayed and the
events of the subscription came in their order.

MC modules give trees, small limits and symmetry sets; `*Proofs` modules hold
the proofs. Definitions in parentheses comments (`\* (a restart that ...)`) are
faulty variants of the definition that follows; `PROJECT.json` lists them under
"mutants", and each makes TLC refute the property it is listed with.

## 3. The runs

| run | instance | states | shows |
|---|---|---|---|
| Lifecycle | a root and its child; 2 executors; 1 restart, depth 2, 1 child | 40,668 | `TypeOK`, `SoleExecutor`, `RestMeansNoWork`, `DeathIsFinal`, `SuspensionHolds`, `KeepsPromise` (refinement), `StoppedWindsDown`, `StoppedAgentGoesQuiet` (liveness) |
| LifecycleWake | one agent | refuted | `WokenAgentIsRun` |
| LifecycleRestart | a, a/b | refuted | `RestartReplaces` |
| RunBudget | budget 38; calls of 0, 9 or 44; 2 turns, 2 iterations, 1 continuation, batches of 2, breakers at 2 | 1,483,111 | `TypeOK`, `OvershootBounded`, `FinalizeFunded`, `EveryCallAnswered`, `SaveDue`, `ReasonTold`, `RunTerminates` (liveness), `RunProgresses` |
| RunFinish | budget 100, calls of 10 | refuted | `FinishCompletes` |
| PersistStop | a (an employee perhaps), a/b; 2 saves in flight; symmetry of saves | 3,217,581 | `TypeOK`, `StopKeepsTree`, `LiveRowsReturn` |
| TaskQueues | 2 handlers at work, 2 tasks, 2 sessions, 2 settings; symmetry of handlers and settings | 2,189,153 | `TypeOK`, `NoStrayWork`, `SettingsAgree`, `BegunInOrder`, `KeepsTaskPromise` (refinement) |
| AccountTiers | 1 browser, 2 customers, 1 key, 3 events; symmetry of customers | 252,281 | `TypeOK`, `TierIsOwn`, `TierFollows`, `KeysHaveUser` |
| WorkspaceTools | 2 runs at a time, 2 declared files, 2 artifacts, 1 save of the row under way; symmetry of runs and files | 2,958,710 | `TypeOK`, `AllDeclared`, `IdleIsSettled`, `StopKeepsArtifacts`, `PublishedStays` |
| ArtifactSeed | 2 declared files, 2 artifacts | refuted | `DeclaredAreStored` |
| ContainerThreads | 3 threads of the pool | 260 | `TypeOK`, `ReadyBoxRuns` |
| OversightChecks | 1 observer, capacity 2, 1 restart | 164,800 | `TypeOK`, `SuspendedForCause`, `WatchedIsStopped` (liveness), `MovesAsPromised` |

**Why the bounds are enough.** Trees: the code distinguishes an agent, its parent
and its descendants, and no operation on an agent looks at its siblings but to
count them. Two executors are the least number that can exclude each other or be
replaced; a third only waits. A second root beside the two agents (1,061,886 states)
was checked once for the safety properties, without error; its liveness takes too
long to keep. One restart separates "never" from "once" and reaches `max_restarts`. In `RunBudget` the costs straddle the thresholds: 0
never advances the budget (the case liveness depends on), 9 stays honest through
the estimate, 44 jumps from below the budget over 115 % in one call; limits of 2
are the least where "the last one" and "one before" differ, for turns,
iterations, batches and breakers. Two saves in flight are the least that
overtake each other, and a root with a child the least tree with an order of
rows and a walk. Two handlers are the least that overlap, two tasks the least
with an order and a list to stop, two sessions the least of which one can be
lost; two settings tell an edit from none. Two customers are the least of which
one can replace the other, and three events let an old one come after two newer
ones; a second browser adds a second session, which a logout and a login of one
browser bring about as well. Two runs are the least of which one seeds while another works,
and two declared files the least that can be seeded in part. Of three threads one
makes the container, one finds it half made and one finds it ready. A queue of two is the least where "full" and "not
empty" differ; two observers of capacity one (1,408,064 states) were checked
once as well. What is also proved, is proved for every value.

`RunBudget` and `RunFinish` turn off deadlock checking, because a run is meant to
end; everywhere else a state without a successor is an error.

**Fairness.** `AgentLifecycle!Fairness` is weak fairness, per executor, of the
steps asyncio takes by itself: a posted start runs, a created task begins or is
dropped, a cancellation is dropped, a cancellation is delivered, the thread that spawns a child goes on
(`GoesRunning`, `EntersMap`), saves end, and an executor whose turn is over gives
up if its agent was stopped (a model call has a timeout, so a turn ends). Nothing is assumed of clients, of the scheduler or of how long an agent
nobody stops goes on. `AgentRun!FairSpec` is weak fairness of the next step: a
call to the model or a tool ends with an answer, an error or a timeout, and the
code after it runs. `Oversight!Fairness` is weak fairness of each observer's
`Heartbeat`: `asyncio.wait_for` gives up when its queue has stayed empty for 30
seconds. That a client reads what it is sent is not assumed: `WatchedIsStopped`
speaks of observers that have nothing left to read.

## 4. The proofs

All are checked by TLAPS for every value of the constants, under the named
assumptions on them: `Paths` is closed under parents and `None` is none of them;
limits are naturals, `Cadences` do not grow; costs are naturals up to `MaxCost`;
the budget is positive; queues have room for an event; what is declared is among
the files, and bounds of the models are naturals; `None` is no member of the sets
it stands beside (an agent, a row, a save, a record). TLC evaluates each of them
in a run. Every theorem has for its only hypothesis the specification it speaks of.

**AgentLifecycleProofs.** `SoleExecutor` and `RestMeansNoWork` are not
inductive: an executor that was cancelled, or that is past its turn and in its
`finally` block, does not count as working but can still write the agent's
state. The invariant `IInv` adds `Bookkeeping` (an executor is free exactly when
it has no owner; the map is right about owners) and, for agents that were not
overtaken, `Exclusion`: whoever may still *act* on the state is the one in the map
and its agent runs or died above it; a cancellation under way belongs to an agent
that was suspended or terminated; and an executor whose thread has not put it into
the map is the agent's only one. Proved: `Invariance`, `TypeCorrect`,
`ExecutorsExclude`, `RestIsQuiet`, and for every agent, overtaken or not,
`Refinement` (each step is one of `AgentPromise` or changes no state), `DeathFinal`,
`SuspensionHeld` and `WindDown`: while an agent stays suspended or dead no executor
begins to work for it, and those it has only move towards their end, which is what
`StoppedAgentGoesQuiet` rests on besides fairness. The proofs follow the actions;
four lemmas say what starting, stopping, ending and leaving an executor preserve.

**AgentRunProofs.** The invariant `RunInv` says by the place of the run what is
known: `Spending` (below 95 % at the head of a turn, below 115 % inside `chat`),
`Uncounted`, `Stops` (who may have requested a stop that is still set), `Funds`
(the reserve is there as long as calls were honest), `Answers`, `Saves`. Each is
needed because flags set in one place are read in another: without `Stops`, for
instance, `ReasonTold` cannot tell a stop by the planner from one by `finish()` or
by the clock. Proved: `Invariance`, `RunTypeCorrect`, `BoundedOvershoot`, `FinalCallFunded`,
`CallsAnswered`, `GateCloses`, `ReasonIsTrue`; with them the bounds of the run
are no limits any more. The lemmas about the planner (`MaxOfRecent`,
`CallIsFunded`, `RecordKeeps`) carry the arithmetic.

That a run ends is a liveness property, but what it rests on is not: `Left` is
what a run has left, turns before the stage of the turn before continuations
before iterations before tool calls, and `RunProgresses` says that each step
makes this tuple of naturals smaller in lexicographic order, which is
well-founded. `RunIsFinite` proves it for every limit, with `Counting` (the
iteration under way is one of those that were left) as the invariant that keeps
the numbers natural. So no sequence of answers, errors, empty messages,
continuations and free calls makes a run infinite; that a step is taken at all is
the fairness of section 3.

**TaskQueueProofs.** What a handler knows after it gave way is what it read and
nobody can have undone. `Sound` says that by the place of the handler: the task
it holds was added, the session it names was spawned for that task, one of the
sessions of a task it puts back has ended some time. It stays true because nothing
told is ever taken back (`Grows`: tasks stay added, sessions keep their task, and
that one has ended stays told even if it lives again), so a step of one handler
never disturbs another (`HandlerKeeps`). From that follow `Invariance`,
`TypeCorrect` and, with any number of handlers and whatever fails or is restarted,
`Refinement`. Under `quiet` a second invariant, `Calm`, says that what was read is
also still *so* (`Fresh`): the head of the queue is still its head, each pair on
Stop's list is still in the table, the copy of the row is the row, and a save under
way has the agent's settings (`Pending`). Of sessions it speaks of those that never
ended (`NeverEnded`), because one that was restarted works for whatever the table
says. Proved from it: `CalmInvariance`, `NoneStrays`, `CopiesAgree`, `OrderIsKept`.

**AccountsProofs.** `TierIsOwn` needs that everything Stripe has told or will tell
is a price that the subscription had at some time (`Chosen`); then every handler
leaves a user whose tier is one of its own customer's prices (`TierHad`), whatever
order events come in. That a price was paid for is not said and does not hold.
`TierFollows` speaks of the end of a history, when all events have come. Its
invariant speaks of the middle: events are numbered, and in a regular history the
newest change of the one subscription is still to come, or shown in the row, or
something newer was delivered before it. Proved: `Invariance`, `TypeCorrect`,
`NothingForeign`, `NoKeyIsLeft`, `TierIsTold`.

**OversightProofs.** `SuspendedForCause` fails to be inductive where an executor
at work could write other figures: `NobodyWorks` says that the one the registry
knows of was stopped with the agent; those it has lost are excluded by `checked`.
Proved: `Invariance`, `TypeCorrect`, `CauseRemains`, and `PromiseKept`: each step
is a move, a killing or a counted revival of `AgentPromise`, or changes no state.

**WorkspaceProofs.** Memory and table are two copies of the artifacts that part
ways and meet again, with any number of runs at work on the first. What never
happens is that the table, or a save on its way to it, is *ahead* of memory
(`Copies`: `Behind`). `Order` says that nobody works, ends or publishes before the
first artifact is seeded, and `Alone` that, unless a run was started too early
(`early`), a run that seeds is the only one and what it saves is what memory has;
`Down` and `Places` say what is left of a server that is down and who may wait for a
save. That is `IInv`. On it rest, each with an invariant of its own: `AllDeclared`
with `Seeds` (unless a seeding was cut short, nothing has happened yet, `Fresh`, or
each declared path has a row, `Covered`, or runs are seeding, and then for each of
them a declared path is still to be seeded, being saved, or in the table); and `IdleIsSettled`,
`StopKeepsArtifacts` and `PublishedStays` with `Orderly` (during the stop an artifact
is still to be walked to, being stored, or in the table as it is) and `Quiet` (an
agent that settled, calm and with no early run, expects nothing, in memory or in the
table). Proved: `Invariance`, `TypeCorrect`, `SeedInvariance`, `DeclaredAreThere`,
`StopInvariance`, `IdleAreSettled`, `StopIsWhole`, `PublishedForGood`.

**ContainersProofs.** `ReadyBoxRuns` is inductive with `Down`: each thread that sends
its command, or has the container taken for ready, has seen it run or has made it
run, and while it is `untouched` no other thread's step stops it. Proved, for any
number of threads: `Invariance`, `TypeCorrect`, `BoxRuns`.

**PersistenceProofs.** `LiveRowsReturn` speaks of the end of a load. `Restored`
speaks of its middle: each place that is taken holds the agent of a row that had
its turn, and the place's last id is the row's, whether the agent was put under
its parent or made a root. So two rows never come to one place, and no row comes
twice; that nothing else writes to the table meanwhile needs `Flight` (a server
that is down or loads has no save in flight). `StopKeepsTree` speaks of two moments
far apart. `Stopped` carries it from one to the other: while the server stops,
every agent is at its path, dead if it was and, if it was at rest, unchanged or
woken by a message of one that was at work; each
save in flight is *true* of an agent (`Faithful`: at rest it says the state, at
work at least whether it is dead); and each agent is still to be walked to, is in
the walk's save, or has a true row. Saves of a busy agent may overtake the walk's
and be overtaken, because both are true; that a third row is never touched is
because ids are unique in a tree that is promised anything (`OneRowEach`). Proved:
`Invariance`, `TypeCorrect`, `LoadInvariance`, `LiveAreBack`, `StopInvariance`,
`StopIsWhole`.

**Only model-checked.** The liveness properties `StoppedAgentGoesQuiet`,
`RunTerminates` and `WatchedIsStopped`: fairness and ENABLED are out of the
prover's reach. Every other property of a passing run is a theorem. That a
lexicographic order on naturals is well-founded is not proved either: induction
over data is out of reach too.

## 5. Where code and text disagree

Each is shown by a run that TLC refutes; details and quotations are in
`PROJECT.json`.

- A message to an idle agent makes it RUNNING but starts no executor
  (`registry.py:250`): it is never processed (`LifecycleWake`).
- `restart()` leaves the executor it replaces at work, out of reach
  (`registry.py:265`; `LifecycleRestart`).
- `finish()` ends a turn, not the run: `chat()` clears its request
  (`llm.py:434`), and the agent ends as TURNS_EXHAUSTED (`RunFinish`). COMPLETED is
  told instead of agents that the planner finalized for want of budget and that stay
  below 95 % (`llm.py:267`), though `models.py:58` says "agent called finish()":
  `ReasonTold` says so, and is proved.
- The declared artifacts are seeded while the agent's own row is still being
  saved: the save of the first may fail, the run ends as an error, and no later
  run stores it (`executor.py:430`; `ArtifactSeed`).

Met while modelling, and in the models as the code has it, without a run of
their own:

- Reservations for children may use up the reserve that is always kept for the
  final call (`budget.py:79`).
- A child loaded before its parent is a root "for now" and stays one
  (`registry.py:357`).
- An archived employee that the registry holds as an agent is written back by
  the agent's next save (`db.py:128`, `db.py:528`).
- Nothing runs the oversight periodically, though `oversight.py:14` and
  `src/README.md:167` say so: checks come from an observer's timeout and from
  requests.
- A task's session is spawned and then the task is marked (`team.py:1321`). If the
  update fails, or two handlers picked the same task, a session goes on that the
  table does not name, and Stop, "Stop all active task sessions for an agent."
  (`team.py:1337`), never finds it. This is why `NoStrayWork` is promised under
  `quiet`.
- A suspension that is lifted before the cancelled task has its CancelledError: the
  task's `finally` block finds the agent RUNNING, which its new executor has made it,
  and moves it to IDLE under that executor (`executor.py:187`). This is one of the
  three ways to be `overtaken`.
- A restart of an agent whose run is still seeding: the second run finds artifacts
  and seeds none (`executor.py:431`), works and goes idle, and the first then records
  another as expected, which nobody settles, though "agent finished without producing
  it" (`models.py:69`). This is why `IdleIsSettled` and `PublishedStays` ask for
  `~early`.
- The exit status of `podman start` is not looked at (`containers.py:69`): a container
  that does not start, or that somebody stops, stays among the users "with confirmed
  running containers" (`containers.py:39`) until the server is restarted. This is why
  `ReadyBoxRuns` asks for `untouched`.
- An upgrade whose payment failed gives the tier of the new price at once
  (`auth.py:278-282`), until the next login or event.
- Nothing ever marks a task completed, though the table, the page and `db.py:641`
  know that status.
- A published artifact is in memory only until the server stops in order.
- The row of a deleted account comes back with a session another browser still
  has (`sessions.py:109`), and a webhook for a user who has no row is answered
  with success and not sent again.
- A login by password syncs the tier with Stripe, one by Google does not. Credits
  are set and shown and never spent.

## 6. What is not modelled

- Texts: prompts, the content of messages and of files, events and logs. A
  consequence is that lost corrections (`executor.py:464`) are a listed hazard
  without a property. Of files it is not even kept whether they are there: that is
  open each time one is looked for.
- Two pool threads inside one registry call at once: the thread of `spawn_child` is
  split where others can see it, its tests and the insertion are one step.
- `remove_dead`, `stop_container` and `remove_container`, which nothing calls.
- Checkpoints, which are written and never read back; templates and candidates,
  plain reads and writes; the dialog that asks the model for candidates, whose
  state is on one page.
- In `Persistence`: health figures and artifacts; ids shared by agents under
  different parents are allowed, but promises are made for unique ids. In
  `Oversight`: how figures are computed; a figure is above its threshold or not.
- Cron arithmetic: a due time may come at any moment. In `TaskQueue`, the limit of
  restarts of a session. In `Oversight`, the reason a client gives for a suspension.
- Profile data, passwords and mails of accounts; the check of API tokens
  (`auth.py`), which knows nothing of the accounts' keys.
- Pages and web tools: input and output.

## 7. Plan

Done: every component that keeps state of its own but the API tokens is modelled,
in whole or in the parts above, and every safety property the passing runs check
is proved. Left, in
order of importance:

1. `Persistence` against `AgentPromise`, as `Oversight` is: between a start and the
   next stop its agents move along the same table. It needs the restart counter,
   which `Persistence` leaves out.
2. The mailbox: messages and corrections of an agent across turns, composed with
   `AgentRun`.
