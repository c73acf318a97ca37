----------------------------- MODULE Oversight -----------------------------
(***************************************************************************)
(* The oversight of an agent (oversight.py) and the streams of events that *)
(* bring it about (api.py).  Nothing runs the checks periodically: one is  *)
(* made when an observer's queue has stayed empty for 30 seconds, and when *)
(* somebody asks for it.  A check looks at figures that the agent's        *)
(* executors write (executor.py, drift.py) and may suspend the agent,      *)
(* while requests, pages of the dashboard, tools of other agents and the   *)
(* scheduler suspend, resume, restart and wake it.                         *)
(*                                                                         *)
(* What an executor does else is in AgentRun, who may run in               *)
(* AgentLifecycle.                                                         *)
(***************************************************************************)
EXTENDS Naturals

CONSTANTS
    Observers,   \* the streams that may be opened, each once
    Capacity,    \* of an observer's queue
    MaxRestarts  \* AgentSpec.max_restarts

ASSUME BoundsAssumption == Capacity \in Nat \ {0} /\ MaxRestarts \in Nat

VARIABLES
    state,      \* AgentNode.state between two operations
    reason,     \* AgentNode.suspend_reason
    works,      \* the executor the registry knows of is at work
    stray,      \* one it lost when the agent was restarted is
    restarts,   \* AgentNode.restart_count
    spent,      \* health.tokens_total has reached max_tokens
    late,       \* the agent was started max_runtime_seconds ago
    drifting,   \* health.drift is above the threshold
    lost,       \* health.coherence is below 0.3
    loops,      \* health.loops_detected; more than three counts as three
    repeats,    \* the end of the log is a pattern that is there three times
    observers,  \* _observers and the generators that read the queues
    checked     \* history: a check suspended it, and no lost executor wrote since

agent == <<state, reason, works, stray, restarts>>
health == <<spent, late, drifting, lost, loops>>
vars == <<agent, health, repeats, observers, checked>>

States == {"running", "idle", "suspended", "dead"}
Reasons == {"none", "budget", "drift", "loop", "error", "manual"}
\* An observer is listed before its generator begins; if that never happens
\* its queue stays in the list for good.
Stages == {"off", "listed", "open", "leaked"}
\* /observe checks the agent while it is quiet, /log and /rollout do not.
Kinds == {"observe", "log"}
Streams == [stage : Stages, kind : Kinds, waiting : 0..Capacity]

TypeOK ==
    /\ state \in States /\ reason \in Reasons
    /\ works \in BOOLEAN /\ stray \in BOOLEAN
    /\ restarts \in 0..MaxRestarts
    /\ spent \in BOOLEAN /\ late \in BOOLEAN
    /\ drifting \in BOOLEAN /\ lost \in BOOLEAN
    /\ loops \in 0..3 /\ repeats \in BOOLEAN
    /\ observers \in [Observers -> Streams]
    /\ checked \in BOOLEAN

\* The agent was just spawned.
Init ==
    /\ state = "running" /\ reason = "none"
    /\ works = TRUE /\ stray = FALSE /\ restarts = 0
    /\ spent = FALSE /\ late = FALSE /\ drifting = FALSE /\ lost = FALSE
    /\ loops = 0 /\ repeats = FALSE
    /\ observers \in [Observers -> {[stage |-> "off", kind |-> k, waiting |-> 0] : k \in Kinds}]
    /\ checked = FALSE

-----------------------------------------------------------------------------
\* Events.

Listed(o) == observers[o].stage \in {"listed", "open", "leaked"}

\* (a queue without a bound)
Boundless(o) == TRUE

\* asyncio.Queue.full
Room(o) == observers[o].waiting < Capacity

\* _publish_event: who has a full queue misses the event.
Publish ==
    observers' = [o \in Observers |->
        IF Listed(o) /\ Room(o)
        THEN [observers[o] EXCEPT !.waiting = @ + 1]
        ELSE observers[o]]

\* An operation publishes an event when a request asked for it, and does not
\* when a page of the dashboard or an agent's tool did.
MayPublish == Publish \/ UNCHANGED observers

\* What the operation appends to the log ends a pattern, or does not.
Logs == repeats' \in BOOLEAN

\* An event of a child of the agent.
ChildEvent ==
    /\ Publish
    /\ UNCHANGED <<agent, health, repeats, checked>>

-----------------------------------------------------------------------------
\* The executors.

Executing == works \/ stray

\* A call of the model: tokens_total is that of the executor that calls.
ModelCall ==
    /\ Executing
    /\ spent' \in BOOLEAN
    /\ checked' = (checked /\ ~stray)
    /\ Publish
    /\ UNCHANGED <<agent, late, drifting, lost, loops, repeats>>

\* judge_drift: a judgement that fails leaves both figures as they were.
Judge ==
    /\ Executing
    /\ drifting' \in BOOLEAN /\ lost' \in BOOLEAN
    /\ checked' = (checked /\ ~stray)
    /\ Publish
    /\ UNCHANGED <<agent, spent, late, loops, repeats>>

\* The executor that ends is the one the registry knows, or a lost one, of
\* which there may be others.
ExecutorEnds ==
    \/ works /\ works' = FALSE /\ UNCHANGED stray
    \/ stray /\ stray' \in BOOLEAN /\ UNCHANGED works

\* (an executor that does not look at what has become of the agent)
RunEndsAnyway ==
    /\ ExecutorEnds
    /\ state' = "idle"
    /\ Logs /\ Publish
    /\ UNCHANGED <<reason, restarts, health, checked>>

RunEnds ==
    /\ ExecutorEnds
    /\ state' = IF state = "running" THEN "idle" ELSE state
    /\ Logs /\ Publish
    /\ UNCHANGED <<reason, restarts, health, checked>>

RunFails ==
    /\ ExecutorEnds
    /\ IF state = "running"
       THEN state' = "suspended" /\ reason' = "error" /\ checked' = FALSE
       ELSE UNCHANGED <<state, reason, checked>>
    /\ Logs /\ Publish
    /\ UNCHANGED <<restarts, health>>

\* max_runtime_seconds pass since the agent first ran (started_at stays).
RunsLate ==
    /\ late' = TRUE
    /\ UNCHANGED <<agent, spent, drifting, lost, loops, repeats, observers, checked>>

-----------------------------------------------------------------------------
\* The operations of the registry.

\* (the executor is left at work)
SuspendedAtWork(why) ==
    /\ state' = "suspended" /\ reason' = why
    /\ UNCHANGED <<works, stray, restarts>>

\* registry.suspend stops the executor it knows of, _start_executor forgets it.
Suspended(why) ==
    /\ state' = "suspended" /\ reason' = why
    /\ works' = FALSE
    /\ UNCHANGED <<stray, restarts>>

StartExecutor == works' = TRUE /\ stray' = (stray \/ works)

\* For the reason the client names.  Refused, after the executor was stopped,
\* when the agent is not running or idle.
Suspend ==
    /\ IF state \in {"running", "idle"}
       THEN /\ \E why \in Reasons \ {"none"} : Suspended(why)
            /\ checked' = FALSE
            /\ Logs /\ MayPublish
       ELSE works' = FALSE /\ UNCHANGED <<state, reason, stray, restarts, checked, repeats, observers>>
    /\ UNCHANGED health

Resume ==
    /\ state = "suspended"
    /\ state' = "running" /\ reason' = "none"
    /\ StartExecutor
    /\ checked' = FALSE
    /\ Logs /\ MayPublish
    /\ UNCHANGED <<restarts, health>>

Terminate ==
    /\ state' = "dead" /\ works' = FALSE
    /\ Logs /\ MayPublish
    /\ UNCHANGED <<reason, stray, restarts, health, checked>>

\* Of the figures only two are reset, and suspend_reason stays.
Restart ==
    /\ restarts < MaxRestarts
    /\ state' = "running" /\ restarts' = restarts + 1
    /\ loops' = 0 /\ drifting' = FALSE
    /\ StartExecutor
    /\ checked' = FALSE
    /\ Logs /\ MayPublish
    /\ UNCHANGED <<reason, spent, late, lost>>

\* A message wakes an idle agent and starts no executor.
Message ==
    /\ state # "dead"
    /\ state' = IF state = "idle" THEN "running" ELSE state
    /\ Logs /\ MayPublish
    /\ UNCHANGED <<reason, works, stray, restarts, health, checked>>

Correct ==
    /\ state \in {"running", "idle"}
    /\ state' = "running"
    /\ Logs /\ MayPublish
    /\ UNCHANGED <<reason, works, stray, restarts, health, checked>>

\* Also fork, of which only the child is told.
Checkpoint ==
    /\ Logs /\ MayPublish
    /\ UNCHANGED <<agent, health, checked>>

\* Scheduler._trigger
ScheduledRun ==
    /\ state = "idle"
    /\ state' = "running"
    /\ StartExecutor
    /\ Logs /\ Publish
    /\ UNCHANGED <<reason, restarts, health, checked>>

-----------------------------------------------------------------------------
\* The checks.

Live == state # "dead"

\* (only who works)
SuspendableAtWork == state = "running"

\* _auto_suspend
Suspendable == state \in {"running", "idle"}

LoopsMax == 3
Counted(seen) == IF seen /\ loops < LoopsMax THEN loops + 1 ELSE loops

\* Of several causes the first suspends the agent.  Drift and the budget come
\* before the log is read, which then has the suspension in it too.
Early == spent \/ late \/ drifting
CauseWith(seen) ==
    CASE spent \/ late -> "budget"
      [] ~(spent \/ late) /\ drifting -> "drift"
      [] ~Early /\ seen /\ Counted(seen) >= LoopsMax -> "loop"
      [] ~Early /\ ~(seen /\ Counted(seen) >= LoopsMax) /\ lost -> "drift"
      [] OTHER -> "none"

\* _check_node.  No observer is told.
CheckNode ==
    IF ~Live
    THEN UNCHANGED <<agent, health, repeats, checked>>
    ELSE \E seen \in (IF Suspendable /\ Early THEN BOOLEAN ELSE {repeats}) :
            /\ loops' = Counted(seen)
            /\ IF Suspendable /\ CauseWith(seen) # "none"
               THEN /\ Suspended(CauseWith(seen))
                    /\ checked' = TRUE
                    /\ IF Early THEN repeats' = seen ELSE Logs
               ELSE UNCHANGED <<agent, repeats, checked>>
            /\ UNCHANGED <<spent, late, drifting, lost>>

\* POST /oversight/check
CheckAll == CheckNode /\ UNCHANGED observers

\* The observer's queue stayed empty for 30 seconds.
Heartbeat(o) ==
    /\ observers[o].stage = "open" /\ observers[o].kind = "observe"
    /\ observers[o].waiting = 0
    /\ CheckNode
    /\ UNCHANGED observers

-----------------------------------------------------------------------------
\* The streams.

Stage(o, from, to) ==
    /\ observers[o].stage = from
    /\ observers' = [observers EXCEPT ![o].stage = to]
    /\ UNCHANGED <<agent, health, repeats, checked>>

\* GET /observe, /log or /rollout lists a queue; the generator then sends what
\* there is, or is never begun as the client has gone.
Observe(o) == Stage(o, "off", "listed")
Begin(o) == Stage(o, "listed", "open")
Abandon(o) == Stage(o, "listed", "leaked")

Deliver(o) ==
    /\ observers[o].stage = "open" /\ observers[o].waiting > 0
    /\ observers' = [observers EXCEPT ![o].waiting = @ - 1]
    /\ UNCHANGED <<agent, health, repeats, checked>>

Leave(o) ==
    /\ observers[o].stage = "open"
    /\ observers' = [observers EXCEPT ![o].stage = "off", ![o].waiting = 0]
    /\ UNCHANGED <<agent, health, repeats, checked>>

-----------------------------------------------------------------------------
\* The next-state relation and the fairness.

Executors == ModelCall \/ Judge \/ RunEnds \/ RunFails
Operations ==
    Suspend \/ Resume \/ Terminate \/ Restart \/ Message \/ Correct \/ Checkpoint
Streaming(o) ==
    Observe(o) \/ Begin(o) \/ Abandon(o) \/ Deliver(o) \/ Leave(o) \/ Heartbeat(o)

Next ==
    \/ Executors \/ Operations \/ ScheduledRun
    \/ RunsLate \/ ChildEvent \/ CheckAll
    \/ \E o \in Observers : Streaming(o)

\* asyncio.wait_for gives up when nothing came for 30 seconds.  Nothing makes
\* a client read what is sent, or anybody ask for a check.
Fairness == \A o \in Observers : WF_vars(Heartbeat(o))

Spec == Init /\ [][Next]_vars /\ Fairness

-----------------------------------------------------------------------------
\* Properties.

\* An agent that a check has suspended is so for a cause that is still there,
\* and of the kind its reason names: whatever is reset, and whoever still
\* works, nothing takes the cause away while the agent waits for an operator
\* (oversight.py:48-121, registry.py:161-173 and 256-285), but for an executor
\* that a restart has lost.
Justifies(why) ==
    CASE why = "budget" -> spent \/ late
      [] why = "drift" -> drifting \/ lost
      [] why = "loop" -> loops >= LoopsMax
      [] OTHER -> FALSE
SuspendedForCause == state = "suspended" /\ checked => Justifies(reason)

\* An agent that is over its budget, off its goal or going round in circles
\* does not stay running, or idle, for good before the eyes of an observer to
\* whom nothing more is sent (api.py:465-483): every such cause suspends it at
\* the first check, or the third, in each of these states.
Watched(o) ==
    observers[o].stage = "open" /\ observers[o].kind = "observe" /\ observers[o].waiting = 0
Faulty == spent \/ late \/ drifting \/ lost \/ repeats
WatchedIsStopped ==
    \A o \in Observers :
        <>[]Watched(o) => []<>~(Faulty /\ state \in {"running", "idle"})

\* Checks, failures, lost executors and whatever wakes an agent (oversight.py:126-132,
\* executor.py:186-199, registry.py:161-285) move it only along the table of
\* models.py:358-368, and from death only by a counted restart: what this module
\* says of an agent is what AgentPromise allows, as it is of AgentLifecycle.
Root == {<<"agent">>}
Promise == INSTANCE AgentPromise
    WITH Paths <- Root,
         state <- [p \in Root |-> state], restarts <- [p \in Root |-> restarts]
MovesAsPromised == [][Promise!Next]_<<state, restarts>>
=============================================================================
