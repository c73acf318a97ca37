--------------------------- MODULE AgentLifecycle ---------------------------
(***************************************************************************)
(* The agent tree of registry.py, the executors of executor.py that run    *)
(* the agents as asyncio tasks, and the scheduler's trigger.  Handlers and *)
(* executors share one event loop: a step here is what runs between two    *)
(* awaits.  Prompts, health figures, idle and suspend reasons, logs,       *)
(* checkpoints and the database row are abstracted away; every change of   *)
(* an agent's state, of the executor map and of a task's progress is kept. *)
(***************************************************************************)
EXTENDS Naturals, Sequences, FiniteSets

CONSTANTS
    Paths,        \* the paths agents may be spawned at: sequences of ids
    Execs,        \* executor objects alive at a time (a bound of the model)
    None,         \* no executor, no owner
    MaxChildren,  \* AgentSpec.max_children
    MaxDepth,     \* AgentSpec.max_depth
    MaxRestarts   \* AgentSpec.max_restarts

ASSUME PathsAssumption ==
    /\ <<>> \notin Paths
    /\ \A p \in Paths : Len(p) > 1 => SubSeq(p, 1, Len(p) - 1) \in Paths
ASSUME NoneAssumption == None \notin Paths \cup Execs
ASSUME LimitsAssumption ==
    MaxChildren \in Nat /\ MaxDepth \in Nat /\ MaxRestarts \in Nat

VARIABLES
    state,         \* AgentNode.state; "absent" where no agent was spawned
    restarts,      \* AgentNode.restart_count
    current,       \* AgentRegistry._executors, without executors that ended
    owner,         \* AgentExecutor.node of each executor
    pc,            \* where its task is suspended
    cancelled,     \* task.cancel() was called and is not delivered yet
    overtaken      \* history: agents with an operation that overtook an executor
                   \* of theirs (Restart, Resume, Suspend and Terminate say when)

tree == <<state, restarts, overtaken>>
tasks == <<owner, pc, cancelled>>
vars == <<tree, current, tasks>>

\* The states seen between two handlers: CORRECTING and TERMINATING are entered
\* and left inside one synchronous call on the event loop, and so is SPAWNING,
\* but for a child spawned from a pool thread.
AgentStates == {"absent", "spawning", "running", "idle", "suspended", "dead"}
\* spawning, launching, posted: a pool thread has put the agent into the tree, has
\* moved it to RUNNING, has queued start() on the loop; created: the task has not
\* run yet; turn: inside run(); closing: in _check_artifact_completeness; saving:
\* in the last save_agent.
TaskStates == {"done", "spawning", "launching", "posted", "created", "turn", "closing",
               "saving"}

Parent(p) == SubSeq(p, 1, Len(p) - 1)
Below(p) == {q \in Paths : Len(q) > Len(p) /\ SubSeq(q, 1, Len(p)) = p}
Depth(p) == Len(p) - 1
Present(p) == state[p] # "absent"
Children(p) == {q \in Below(p) : Len(q) = Len(p) + 1 /\ Present(q)}

TypeOK ==
    /\ state \in [Paths -> AgentStates]
    /\ restarts \in [Paths -> 0..MaxRestarts]
    /\ current \in [Paths -> Execs \cup {None}]
    /\ owner \in [Execs -> Paths \cup {None}]
    /\ pc \in [Execs -> TaskStates]
    /\ cancelled \in [Execs -> BOOLEAN]
    /\ overtaken \subseteq Paths

Init ==
    /\ state = [p \in Paths |-> "absent"]
    /\ restarts = [p \in Paths |-> 0]
    /\ current = [p \in Paths |-> None]
    /\ owner = [e \in Execs |-> None]
    /\ pc = [e \in Execs |-> "done"]
    /\ cancelled = [e \in Execs |-> FALSE]
    /\ overtaken = {}

-----------------------------------------------------------------------------
\* Starting and stopping executors.

\* _start_executor: a new executor takes the agent's place in the map; the
\* one that was there is neither stopped nor looked at.
StartExecutor(p, e) ==
    /\ pc[e] = "done"
    /\ current' = [current EXCEPT ![p] = e]
    /\ owner' = [owner EXCEPT ![e] = p]
    /\ pc' = [pc EXCEPT ![e] = "created"]
    /\ cancelled' = [cancelled EXCEPT ![e] = FALSE]

\* (a stop() that pops the executor and forgets to cancel it)
PopExecutorOnly(p) ==
    /\ current' = [current EXCEPT ![p] = None]
    /\ UNCHANGED tasks

\* The executors that have no task: not yet, or not any more.
Taskless == {"done", "spawning", "launching", "posted"}

\* _stop_executor: pop the executor and cancel its task, if it has one.
StopExecutor(p) ==
    /\ current' = [current EXCEPT ![p] = None]
    /\ cancelled' = [e \in Execs |->
                        \/ cancelled[e]
                        \/ e = current[p] /\ pc[e] \notin Taskless]
    /\ UNCHANGED <<owner, pc>>

\* The executors of p whose thread has yet to give the loop their start().
Launching(p) == \E e \in Execs : owner[e] = p /\ pc[e] \in {"launching", "posted"}

\* A task that ended.  It stays in the map in the code, where nothing but
\* stop() looks at it and stop() ignores it: here its object is reused.
EndTask(e) ==
    /\ pc' = [pc EXCEPT ![e] = "done"]
    /\ owner' = [owner EXCEPT ![e] = None]
    /\ cancelled' = [cancelled EXCEPT ![e] = FALSE]
    /\ current' = [p \in Paths |-> IF current[p] = e THEN None ELSE current[p]]

-----------------------------------------------------------------------------
\* The registry's operations, called by the API's handlers.

\* spawn() checks the parent's existence, its children and its depth: not
\* whether the parent is alive.
CanSpawn(p) ==
    /\ ~Present(p)
    /\ Len(p) > 1 => /\ Present(Parent(p))
                     /\ Cardinality(Children(Parent(p))) < MaxChildren
                     /\ Depth(p) < MaxDepth

\* fork() is the spawn of a sibling with the same spec, if the agent has a checkpoint.
Spawn(p, e) ==
    /\ CanSpawn(p)
    /\ state' = [state EXCEPT ![p] = "running"]
    /\ StartExecutor(p, e)
    /\ UNCHANGED <<restarts, overtaken>>

\* The spawn_child tool, called by the executor d of the parent, is spawn() in a
\* pool thread, beside whatever runs on the event loop: first the checks, and the
\* agent is in the tree.
SpawnFromTool(d, p, e) ==
    /\ pc[d] = "turn"
    /\ Len(p) > 1 /\ owner[d] = Parent(p)
    /\ CanSpawn(p)
    /\ pc[e] = "done"
    /\ state' = [state EXCEPT ![p] = "spawning"]
    /\ owner' = [owner EXCEPT ![e] = p]
    /\ pc' = [pc EXCEPT ![e] = "spawning"]
    /\ UNCHANGED <<restarts, overtaken, current, cancelled>>

\* terminate(): the descendants die with the agent, but only the agent's own
\* executor is stopped.
Terminate(p) ==
    /\ Present(p)
    /\ state' = [q \in Paths |->
                    IF q = p \/ (q \in Below(p) /\ Present(q)) THEN "dead" ELSE state[q]]
    /\ StopExecutor(p)
    /\ overtaken' = IF Launching(p) THEN overtaken \cup {p} ELSE overtaken
    /\ UNCHANGED restarts

\* (a suspension without the transition table)
SuspendUnchecked(p) ==
    /\ Present(p)
    /\ StopExecutor(p)
    /\ state' = [state EXCEPT ![p] = "suspended"]
    /\ overtaken' = IF Launching(p) THEN overtaken \cup {p} ELSE overtaken
    /\ UNCHANGED restarts

\* suspend() stops the executor before the transition, which is refused
\* (InvalidTransition) for an agent that is SPAWNING, suspended or dead.
Suspend(p) ==
    /\ Present(p)
    /\ StopExecutor(p)
    /\ state' = [state EXCEPT ![p] = IF @ \in {"running", "idle"} THEN "suspended" ELSE @]
    /\ overtaken' = IF Launching(p) THEN overtaken \cup {p} ELSE overtaken
    /\ UNCHANGED restarts

\* It may come before the task that suspend() cancelled has its CancelledError.
Resume(p, e) ==
    /\ state[p] = "suspended"
    /\ state' = [state EXCEPT ![p] = "running"]
    /\ StartExecutor(p, e)
    /\ overtaken' = IF \E d \in Execs : owner[d] = p /\ cancelled[d]
                      THEN overtaken \cup {p} ELSE overtaken
    /\ UNCHANGED restarts

\* correct() passes through CORRECTING and leaves the agent RUNNING; it
\* starts no executor.
Correct(p) ==
    /\ state[p] \in {"running", "idle"}
    /\ state' = [state EXCEPT ![p] = "running"]
    /\ UNCHANGED <<restarts, overtaken, current, tasks>>

\* (a message that wakes a suspended agent too)
WokenFromAny(s) == "running"

\* The state send_message() leaves an agent in: an idle one is woken up, and
\* no executor is started.
Woken(s) == IF s = "idle" THEN "running" ELSE s

SendMessage(p) ==
    /\ state[p] \notin {"absent", "dead"}
    /\ state' = [state EXCEPT ![p] = Woken(@)]
    /\ UNCHANGED <<restarts, overtaken, current, tasks>>

\* (a restart that does not count against max_restarts)
RestartUnlimited(p, e) ==
    /\ Present(p)
    /\ state' = [state EXCEPT ![p] = "running"]
    /\ restarts' = [restarts EXCEPT ![p] = @ + 1]
    /\ StartExecutor(p, e)
    /\ overtaken' = overtaken \cup {p}

\* restart() goes through TERMINATING, DEAD and SPAWNING in one call and does
\* not stop the executor it replaces.
Restart(p, e) ==
    /\ Present(p)
    /\ restarts[p] < MaxRestarts
    /\ state' = [state EXCEPT ![p] = "running"]
    /\ restarts' = [restarts EXCEPT ![p] = @ + 1]
    /\ StartExecutor(p, e)
    /\ overtaken' = overtaken \cup {p}

\* (a trigger that does not look at the agent's state)
TriggerAlive(p, e) ==
    /\ state[p] \in {"idle", "running"}
    /\ state' = [state EXCEPT ![p] = "running"]
    /\ StartExecutor(p, e)
    /\ UNCHANGED <<restarts, overtaken>>

\* (a trigger that only wakes the idle, and starts an executor for anybody)
TriggerBlind(p, e) ==
    /\ Present(p)
    /\ state' = [state EXCEPT ![p] = Woken(@)]
    /\ StartExecutor(p, e)
    /\ UNCHANGED <<restarts, overtaken>>

\* The scheduler, for an idle agent with a cron schedule that is due.
Trigger(p, e) ==
    /\ state[p] = "idle"
    /\ state' = [state EXCEPT ![p] = "running"]
    /\ StartExecutor(p, e)
    /\ UNCHANGED <<restarts, overtaken>>

-----------------------------------------------------------------------------
\* The thread of a spawn, and the executor's task.

\* transition(RUNNING) in the thread: refused, and the tool fails, if the agent was
\* terminated or restarted meanwhile; accepted if it was restarted and then stopped.
GoesRunning(e) ==
    /\ pc[e] = "spawning"
    /\ IF state[owner[e]] \in {"spawning", "idle", "suspended"}
         THEN /\ state' = [state EXCEPT ![owner[e]] = "running"]
              /\ pc' = [pc EXCEPT ![e] = "launching"]
              /\ UNCHANGED <<current, owner, cancelled>>
         ELSE /\ EndTask(e)
              /\ UNCHANGED state
    /\ UNCHANGED <<restarts, overtaken>>

\* _start_executor in the thread, whatever has become of the agent.
EntersMap(e) ==
    /\ pc[e] = "launching"
    /\ current' = [current EXCEPT ![owner[e]] = e]
    /\ pc' = [pc EXCEPT ![e] = "posted"]
    /\ UNCHANGED <<tree, owner, cancelled>>

LoopStarts(e) ==
    /\ pc[e] = "posted"
    /\ pc' = [pc EXCEPT ![e] = "created"]
    /\ UNCHANGED <<tree, current, owner, cancelled>>

\* A task cancelled before its first step never enters _run_safe.
NeverRuns(e) ==
    /\ pc[e] = "created" /\ cancelled[e]
    /\ EndTask(e)
    /\ UNCHANGED tree

\* The states in which the head of run()'s loop gives up.
Stopping == {"dead", "suspended"}

\* The finally block of _run_safe up to its first await.  An agent that is
\* not RUNNING is left as it is.
LeaveRun(e, failed) ==
    LET p == owner[e]
        live == state[p] = "running"
    IN  /\ state' = IF live /\ failed
                      THEN [state EXCEPT ![p] = "suspended"] ELSE state
        /\ pc' = [pc EXCEPT ![e] = IF live /\ ~failed THEN "closing" ELSE "saving"]
        /\ cancelled' = [cancelled EXCEPT ![e] = FALSE]
        /\ UNCHANGED <<restarts, overtaken, current, owner>>

\* The first step of the task: up to the await that seeds the expected
\* artifacts or calls the model, or out at the head of the loop.
Begin(e) ==
    /\ pc[e] = "created" /\ ~cancelled[e]
    /\ pc' = [pc EXCEPT ![e] = "turn"]
    /\ UNCHANGED <<tree, current, owner, cancelled>>

BeginStopped(e) ==
    /\ pc[e] = "created" /\ ~cancelled[e]
    /\ state[owner[e]] \in Stopping
    /\ LeaveRun(e, FALSE)

\* A turn that is followed by another changes nothing here.
\* run() returns: a budget ended, a stop was requested, the turns were used up,
\* or the loop gave up at its head.
RunEnds(e) ==
    /\ pc[e] = "turn" /\ ~cancelled[e]
    /\ LeaveRun(e, FALSE)

\* (a loop head that forgets SUSPENDED)
GivesUpIfDead(e) == RunEnds(e) /\ state[owner[e]] = "dead"

\* The head of the loop, for an agent that was stopped during the last turn.
GivesUp(e) == RunEnds(e) /\ state[owner[e]] \in Stopping

RunFails(e) ==
    /\ pc[e] = "turn" /\ ~cancelled[e]
    /\ LeaveRun(e, TRUE)

RunCancelled(e) ==
    /\ pc[e] = "turn" /\ cancelled[e]
    /\ LeaveRun(e, FALSE)

\* (an assignment of IDLE without the transition table)
BecomeIdleUnchecked(e) ==
    /\ pc[e] = "closing" /\ ~cancelled[e]
    /\ state' = [state EXCEPT ![owner[e]] = "idle"]
    /\ pc' = [pc EXCEPT ![e] = "saving"]
    /\ UNCHANGED <<restarts, overtaken, current, owner, cancelled>>

\* After the await on the artifacts, RUNNING is not checked again: the
\* transition to IDLE raises for any other state and the task ends unsaved.
BecomeIdle(e) ==
    /\ pc[e] = "closing" /\ ~cancelled[e]
    /\ IF state[owner[e]] = "running"
         THEN /\ state' = [state EXCEPT ![owner[e]] = "idle"]
              /\ pc' = [pc EXCEPT ![e] = "saving"]
              /\ UNCHANGED <<current, owner, cancelled>>
         ELSE /\ EndTask(e)
              /\ UNCHANGED state
    /\ UNCHANGED <<restarts, overtaken>>

CloseCancelled(e) ==
    /\ pc[e] = "closing" /\ cancelled[e]
    /\ EndTask(e)
    /\ UNCHANGED tree

Saved(e) ==
    /\ pc[e] = "saving"
    /\ EndTask(e)
    /\ UNCHANGED tree

-----------------------------------------------------------------------------
\* The specification.

Operation ==
    \E p \in Paths :
        \/ Terminate(p) \/ Suspend(p) \/ SendMessage(p) \/ Correct(p)
        \/ \E e \in Execs :
              \/ Spawn(p, e) \/ Resume(p, e) \/ Restart(p, e) \/ Trigger(p, e)
              \/ \E d \in Execs : SpawnFromTool(d, p, e)

TaskStep(e) ==
    \/ GoesRunning(e) \/ EntersMap(e)
    \/ LoopStarts(e) \/ NeverRuns(e) \/ Begin(e) \/ BeginStopped(e)
    \/ RunEnds(e) \/ RunFails(e) \/ RunCancelled(e)
    \/ BecomeIdle(e) \/ CloseCancelled(e) \/ Saved(e)

Next == Operation \/ \E e \in Execs : TaskStep(e)

\* The event loop runs every task that is ready, and pool threads go on; a model
\* call and a save end by an answer, an error or a timeout, and then the task
\* reaches the head of its loop.  Nothing is assumed of clients and of the
\* scheduler, and nothing of how many turns an agent takes that nobody stops.
Proceeds(e) ==
    \/ GoesRunning(e) \/ EntersMap(e)
    \/ LoopStarts(e) \/ NeverRuns(e) \/ Begin(e) \/ BeginStopped(e)
    \/ GivesUp(e) \/ RunCancelled(e)
    \/ BecomeIdle(e) \/ CloseCancelled(e) \/ Saved(e)
Fairness == \A e \in Execs : WF_vars(Proceeds(e))

Spec == Init /\ [][Next]_vars
FairSpec == Spec /\ Fairness

-----------------------------------------------------------------------------
\* Properties.

\* An executor that may still call the model for its agent.
Working(e) == pc[e] \in {"posted", "created", "turn"} /\ ~cancelled[e]

\* Whatever the order of suspend, resume, messages, corrections, triggers, spawns
\* and the tasks' own steps, no agent has two executors at work at once, and the
\* one at work is the one in the map, which stop() would find: as long as the agent
\* was not restarted, not resumed before a cancelled task had its CancelledError,
\* and not stopped between the steps of the thread that spawned it.
SoleExecutor ==
    \A e \in Execs : Working(e) /\ owner[e] \notin overtaken => current[owner[e]] = e

\* With the same exceptions, an agent that is suspended or idle has nobody at
\* work: its executor was cancelled or ended its last turn.  A terminated agent
\* may have one, when it died with its parent.
RestMeansNoWork ==
    \A e \in Execs : Working(e) /\ owner[e] \notin overtaken
                        => state[owner[e]] \in {"running", "dead"}

\* The strengthening of the two that every step preserves.  An executor that
\* may still act on the agent's state is the one in the map, its agent runs
\* (or died above it); one whose cancellation is under way belongs to an agent
\* that was suspended or terminated, so that its finally block changes nothing;
\* and one whose thread has not put it into the map yet is the agent's only one.
Acting(e) == pc[e] \in {"posted", "created", "turn", "closing"} /\ ~cancelled[e]

Bookkeeping ==
    /\ \A e \in Execs : pc[e] = "done" <=> owner[e] = None
    /\ \A e \in Execs : cancelled[e] => pc[e] \notin Taskless
    /\ \A e \in Execs : pc[e] # "done" => Present(owner[e])
    /\ \A e \in Execs : pc[e] # "done" /\ state[owner[e]] = "spawning" => pc[e] = "spawning"
    /\ \A p \in Paths : current[p] # None => owner[current[p]] = p

Exclusion ==
    \A e \in Execs : owner[e] \notin overtaken =>
        /\ Acting(e) => current[owner[e]] = e /\ state[owner[e]] \in {"running", "dead"}
        /\ cancelled[e] => state[owner[e]] \in Stopping
        /\ pc[e] = "spawning" => state[owner[e]] \in {"spawning", "dead"}
        /\ pc[e] = "launching" => state[owner[e]] \in {"running", "dead"}
        /\ pc[e] \in {"spawning", "launching"} =>
              /\ current[owner[e]] = None
              /\ \A d \in Execs \ {e} : owner[d] # owner[e]

IInv == TypeOK /\ Bookkeeping /\ Exclusion

\* Death is final but for a restart, which is counted: no late executor, no
\* message, correction or trigger revives a terminated agent.
DeathIsFinal ==
    [][\A p \in Paths : state[p] = "dead" /\ state'[p] # "dead"
                            => restarts'[p] = restarts[p] + 1]_vars

\* A suspended agent goes back to work only with an executor made for it in
\* that step, by resume() or restart(): neither a message nor an executor that
\* was being cancelled moves it.  Nor does the thread that spawned it, unless the
\* agent was restarted while that was under way.
SuspensionHolds ==
    [][\A p \in Paths : state[p] = "suspended" /\ state'[p] # "suspended"
          => \/ state'[p] = "dead"
             \/ /\ state'[p] = "running"
                /\ \E e \in Execs : pc[e] = "done" /\ pc'[e] = "created"
                                     /\ current'[p] = e
             \/ /\ p \in overtaken
                /\ \E e \in Execs : owner[e] = p /\ pc[e] = "spawning"
                                     /\ pc'[e] = "launching"]_vars

\* Every executor of a suspended or terminated agent stops calling the model,
\* cancelled or not, unless the agent is put back to work first: also those
\* the registry lost track of.
StoppedAgentGoesQuiet ==
    \A p \in Paths :
        state[p] \in Stopping
            ~> \/ state[p] \notin Stopping
               \/ \A e \in Execs : owner[e] = p => pc[e] \in {"closing", "saving"}

\* How far a task still has to go.
Ahead == [spawning |-> 7, launching |-> 6, posted |-> 5, created |-> 4, turn |-> 3,
          closing |-> 2, saving |-> 1, done |-> 0]

\* Nobody begins to work for an agent that stays suspended or dead, and who still
\* works for it goes one way, to the end: also the executors the registry lost
\* track of, and one a thread is starting.
StoppedWindsDown ==
    [][\A p \in Paths : state[p] \in Stopping /\ state'[p] \in Stopping =>
          \A e \in Execs :
             /\ owner'[e] = p => owner[e] = p
             /\ owner[e] = p /\ pc'[e] # pc[e] => Ahead[pc'[e]] < Ahead[pc[e]]]_vars

\* The executors, their races and the scheduler are invisible to a client:
\* what it sees of an agent's state and restarts is what AgentPromise allows.
Promise == INSTANCE AgentPromise WITH state <- state, restarts <- restarts
KeepsPromise == Promise!Spec

\* Statements the code does not keep; a run refutes each.
\* coordination.py: "If the target agent is idle, this will wake it up to
\* process the message": an agent does not stay RUNNING with no executor.
WokenAgentIsRun ==
    \A p \in Paths :
        state[p] = "running" ~> (state[p] # "running" \/ \E e \in Execs : owner[e] = p)

\* registry.py, restart(): "Terminate and re-spawn in place": no executor of
\* before the restart works on beside the new one.
RestartReplaces ==
    \A e \in Execs : Working(e) => current[owner[e]] = e

=============================================================================
