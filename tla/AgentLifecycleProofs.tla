------------------------ MODULE AgentLifecycleProofs ------------------------
(***************************************************************************)
(* Proofs about AgentLifecycle, for every tree of paths, every number of   *)
(* executors and every limit.                                              *)
(***************************************************************************)
EXTENDS AgentLifecycle, TLAPS

USE DEF AgentStates, TaskStates, Present, Stopping

\* What Exclusion says of one executor, of an agent that was not overtaken.
Excluded(e) ==
    /\ Acting(e) => current[owner[e]] = e /\ state[owner[e]] \in {"running", "dead"}
    /\ cancelled[e] => state[owner[e]] \in Stopping
    /\ pc[e] = "spawning" => state[owner[e]] \in {"spawning", "dead"}
    /\ pc[e] = "launching" => state[owner[e]] \in {"running", "dead"}
    /\ pc[e] \in {"spawning", "launching"} =>
          /\ current[owner[e]] = None
          /\ \A d \in Execs \ {e} : owner[d] # owner[e]

\* What StartExecutor does to the bookkeeping and to the executors at work,
\* for a step that leaves p RUNNING: nobody else may be acting on p, cancelled or
\* about to enter the map, unless p was overtaken.
Leaving(d) == ~Acting(d) /\ ~cancelled[d] /\ pc[d] \notin {"spawning", "launching"}

LEMMA StartKeeps ==
    ASSUME IInv,
           NEW p \in Paths, NEW e \in Execs,
           StartExecutor(p, e),
           state' = [state EXCEPT ![p] = "running"],
           restarts' \in [Paths -> 0..MaxRestarts],
           overtaken' \in {overtaken, overtaken \cup {p}},
           p \notin overtaken' => \A d \in Execs : owner[d] = p => Leaving(d)
    PROVE  IInv'
<1> USE NoneAssumption, LimitsAssumption DEF IInv
<1>1. TypeOK'
  BY DEF TypeOK, StartExecutor
<1>2. Bookkeeping'
  BY DEF TypeOK, Bookkeeping, StartExecutor, Taskless
<1>3. Exclusion'
  <2> SUFFICES ASSUME NEW d \in Execs, owner'[d] \notin overtaken'
               PROVE  Excluded(d)'
    BY DEF Exclusion, Excluded
  <2>1. CASE d = e
    BY <2>1 DEF TypeOK, StartExecutor, Excluded, Acting
  <2>2. CASE d # e
    <3>1. /\ pc'[d] = pc[d] /\ owner'[d] = owner[d] /\ cancelled'[d] = cancelled[d]
      BY <2>2 DEF TypeOK, StartExecutor
    <3>2. CASE owner[d] = p
      BY <2>2, <3>1, <3>2 DEF TypeOK, Exclusion, Excluded, Leaving, Bookkeeping, Acting, StartExecutor
    <3>3. CASE owner[d] # p
      BY <2>2, <3>1, <3>3 DEF TypeOK, Exclusion, Excluded, Leaving, Bookkeeping, Acting, StartExecutor
    <3> QED BY <3>2, <3>3
  <2> QED BY <2>1, <2>2
<1> QED BY <1>1, <1>2, <1>3

\* What StopExecutor does to them, for a step that leaves p stopped and lets
\* other agents only die: the executor the map held for p was the only one
\* acting on p, and it is cancelled.
LEMMA StopKeeps ==
    ASSUME IInv,
           NEW p \in Paths,
           StopExecutor(p),
           restarts' = restarts,
           overtaken' = (IF Launching(p) THEN overtaken \cup {p} ELSE overtaken),
           state' \in [Paths -> AgentStates],
           state'[p] \in {state[p], "suspended", "dead"},
           state'[p] = "suspended" => state[p] \notin {"spawning", "dead"},
           state'[p] \in {"spawning", "suspended", "dead"},
           \A q \in Paths \ {p} : state'[q] = state[q] \/ (Present(q) /\ state'[q] = "dead")
    PROVE  IInv'
<1> USE NoneAssumption, LimitsAssumption DEF IInv
<1>1. TypeOK'
  BY DEF TypeOK, StopExecutor
<1>2. Bookkeeping'
  BY DEF TypeOK, Bookkeeping, StopExecutor, Taskless
<1>3. Exclusion'
  <2> SUFFICES ASSUME NEW d \in Execs, owner'[d] \notin overtaken'
               PROVE  Excluded(d)'
    BY DEF Exclusion, Excluded
  <2>1. pc'[d] = pc[d] /\ owner'[d] = owner[d] /\ owner[d] \notin overtaken
    BY DEF StopExecutor
  <2>2. CASE owner[d] = p
    <3>1. pc[d] \notin {"launching", "posted"}
      BY <2>1, <2>2 DEF Launching
    <3>2. Excluded(d)
      BY <2>1 DEF Exclusion, Excluded
    <3>3. pc[d] = "spawning" =>
             /\ state'[p] \in {"spawning", "dead"}
             /\ current'[p] = None
             /\ \A x \in Execs \ {d} : owner'[x] # p
      BY <2>2, <3>2 DEF Excluded, TypeOK, StopExecutor
    <3>4. ~Acting(d)'
      BY <2>1, <2>2, <3>1, <3>2 DEF TypeOK, Excluded, Acting, StopExecutor, Taskless
    <3>5. cancelled'[d] => state'[p] \in Stopping
      BY <2>1, <2>2, <3>1, <3>2
         DEF TypeOK, Bookkeeping, Excluded, Acting, StopExecutor, Taskless
    <3> QED BY <2>1, <2>2, <3>1, <3>3, <3>4, <3>5 DEF Excluded
  <2>3. CASE owner[d] # p
    BY <2>1, <2>3 DEF TypeOK, Bookkeeping, Exclusion, Excluded, Acting, StopExecutor, Taskless
  <2> QED BY <2>2, <2>3
<1> QED BY <1>1, <1>2, <1>3

\* A task that ends disturbs no other.
LEMMA EndKeeps ==
    ASSUME IInv, NEW e \in Execs, pc[e] # "done", EndTask(e), UNCHANGED tree
    PROVE  IInv'
<1> USE NoneAssumption, LimitsAssumption DEF IInv, tree
<1>1. TypeOK'
  BY DEF TypeOK, EndTask
<1>2. Bookkeeping'
  BY DEF TypeOK, Bookkeeping, EndTask, Taskless
<1>3. Exclusion'
  BY DEF TypeOK, Bookkeeping, Exclusion, Acting, EndTask, Taskless
<1> QED BY <1>1, <1>2, <1>3

\* The finally block: an executor whose cancellation was delivered finds its
\* agent stopped and changes nothing; any other is the only one acting on it.
LEMMA LeaveKeeps ==
    ASSUME IInv,
           NEW e \in Execs, NEW failed \in BOOLEAN,
           pc[e] \in {"created", "turn"},
           LeaveRun(e, failed)
    PROVE  IInv'
<1> USE NoneAssumption, LimitsAssumption DEF IInv
<1>0. owner[e] \in Paths
  BY DEF TypeOK, Bookkeeping
<1>1. TypeOK'
  BY <1>0 DEF TypeOK, LeaveRun
<1>2. Bookkeeping'
  BY <1>0 DEF TypeOK, Bookkeeping, LeaveRun, Taskless
<1>3. Exclusion'
  <2> SUFFICES ASSUME NEW d \in Execs, owner'[d] \notin overtaken'
               PROVE  Excluded(d)'
    BY DEF Exclusion, Excluded
  <2>1. CASE d = e
    BY <1>0, <2>1 DEF TypeOK, Exclusion, Excluded, Acting, LeaveRun
  <2>2. CASE d # e
    BY <1>0, <2>2 DEF TypeOK, Bookkeeping, Exclusion, Excluded, Acting, LeaveRun
  <2> QED BY <2>1, <2>2
<1> QED BY <1>1, <1>2, <1>3

-----------------------------------------------------------------------------

LEMMA InitEstablishes == Init => IInv
  BY NoneAssumption, LimitsAssumption
     DEF Init, IInv, TypeOK, Bookkeeping, Exclusion, Acting, Taskless

\* A newly spawned agent has no executor: its path was absent.
LEMMA SpawnKeeps ==
    ASSUME IInv, NEW p \in Paths, NEW e \in Execs, Spawn(p, e)
    PROVE  IInv'
<1>1. \A d \in Execs : owner[d] # p
  BY NoneAssumption DEF IInv, TypeOK, Bookkeeping, Spawn, CanSpawn
<1> QED
  BY <1>1, StartKeeps DEF IInv, TypeOK, Spawn

LEMMA OperationKeeps == IInv /\ Operation => IInv'
<1> SUFFICES ASSUME IInv, Operation PROVE IInv'
  OBVIOUS
<1> USE NoneAssumption, LimitsAssumption DEF IInv
<1>1. ASSUME NEW p \in Paths, Terminate(p) PROVE IInv'
  <2>1. state' = [q \in Paths |-> IF q = p \/ (q \in Below(p) /\ Present(q))
                                   THEN "dead" ELSE state[q]]
    BY <1>1 DEF Terminate
  <2>2. state' \in [Paths -> AgentStates]
    BY <2>1 DEF TypeOK
  <2>3. state'[p] = "dead"
    BY <2>1 DEF TypeOK
  <2>4. ASSUME NEW q \in Paths \ {p}
        PROVE  state'[q] = state[q] \/ (Present(q) /\ state'[q] = "dead")
    BY <2>1
  <2>5. /\ StopExecutor(p) /\ restarts' = restarts
        /\ overtaken' = IF Launching(p) THEN overtaken \cup {p} ELSE overtaken
    BY <1>1 DEF Terminate
  <2> HIDE DEF IInv
  <2> QED BY <2>2, <2>3, <2>4, <2>5, StopKeeps
<1>2. ASSUME NEW p \in Paths, Suspend(p) PROVE IInv'
  <2>1. /\ state' \in [Paths -> AgentStates]
        /\ state'[p] \in {state[p], "suspended"}
        /\ state'[p] = "suspended" => state[p] \notin {"spawning", "dead"}
        /\ state'[p] \in {"spawning", "suspended", "dead"}
        /\ \A q \in Paths \ {p} : state'[q] = state[q]
    BY <1>2 DEF TypeOK, Suspend
  <2>2. /\ StopExecutor(p) /\ restarts' = restarts
        /\ overtaken' = IF Launching(p) THEN overtaken \cup {p} ELSE overtaken
    BY <1>2 DEF Suspend
  <2> HIDE DEF IInv
  <2> QED BY <2>1, <2>2, StopKeeps
<1>3. ASSUME NEW p \in Paths, Correct(p) PROVE IInv'
  BY <1>3 DEF TypeOK, Bookkeeping, Exclusion, Acting, Correct, tasks
<1>4. ASSUME NEW p \in Paths, SendMessage(p) PROVE IInv'
  BY <1>4 DEF TypeOK, Bookkeeping, Exclusion, Acting, SendMessage, Woken, tasks
<1>5. ASSUME NEW p \in Paths, NEW e \in Execs, Spawn(p, e) PROVE IInv'
  BY <1>5, SpawnKeeps
<1>6. ASSUME NEW p \in Paths, NEW e \in Execs, NEW d \in Execs, SpawnFromTool(d, p, e)
      PROVE  IInv'
  \* The path was absent: no executor of it, and none in the map.
  <2>1. (\A x \in Execs : owner[x] # p) /\ current[p] = None /\ ~cancelled[e]
    BY <1>6 DEF TypeOK, Bookkeeping, SpawnFromTool, CanSpawn, Taskless
  <2>2. /\ state' = [state EXCEPT ![p] = "spawning"] /\ owner' = [owner EXCEPT ![e] = p]
        /\ pc' = [pc EXCEPT ![e] = "spawning"] /\ pc[e] = "done" /\ state[p] = "absent"
        /\ UNCHANGED <<restarts, overtaken, current, cancelled>>
    BY <1>6 DEF SpawnFromTool, CanSpawn
  <2>3. TypeOK'
    BY <2>2 DEF TypeOK
  <2>4. Bookkeeping'
    BY <2>1, <2>2 DEF TypeOK, Bookkeeping, Taskless
  <2>5. Exclusion'
    <3> SUFFICES ASSUME NEW x \in Execs, owner'[x] \notin overtaken'
                 PROVE  Excluded(x)'
      BY DEF Exclusion, Excluded
    <3>1. CASE x = e
      BY <2>1, <2>2, <3>1 DEF TypeOK, Excluded, Acting
    <3>2. CASE x # e
      <4>1. /\ pc'[x] = pc[x] /\ owner'[x] = owner[x] /\ cancelled'[x] = cancelled[x]
            /\ owner[x] # p /\ current' = current
            /\ \A q \in Paths : q # p => state'[q] = state[q]
        BY <2>1, <2>2, <3>2 DEF TypeOK
      <4>2. CASE pc[x] = "done"
        BY <4>1, <4>2 DEF Excluded, Acting, Bookkeeping, Taskless
      <4>3. CASE pc[x] # "done"
        <5>1. owner[x] \in Paths /\ Excluded(x)
          BY <2>2, <4>1, <4>3 DEF TypeOK, Bookkeeping, Exclusion, Excluded
        <5> QED BY <2>2, <4>1, <5>1 DEF Excluded, Acting, TypeOK
      <4> QED BY <4>2, <4>3
    <3> QED BY <3>1, <3>2
  <2> QED BY <2>3, <2>4, <2>5
<1>7. ASSUME NEW p \in Paths, NEW e \in Execs, Resume(p, e) PROVE IInv'
  \* An agent that is suspended has nobody acting on it, and one whose executor is
  \* still being cancelled counts as overtaken now.
  <2>1. /\ overtaken' \in {overtaken, overtaken \cup {p}}
        /\ p \notin overtaken' => \A d \in Execs : owner[d] = p => Leaving(d)
    BY <1>7 DEF Exclusion, Resume, Leaving
  <2>2. StartExecutor(p, e) /\ state' = [state EXCEPT ![p] = "running"]
        /\ restarts' = restarts
    BY <1>7 DEF Resume
  <2> QED BY <2>1, <2>2, StartKeeps DEF TypeOK
<1>8. ASSUME NEW p \in Paths, NEW e \in Execs, Restart(p, e) PROVE IInv'
  <2>1. restarts' \in [Paths -> 0..MaxRestarts] /\ overtaken' = overtaken \cup {p}
    BY <1>8 DEF TypeOK, Restart
  <2> QED BY <1>8, <2>1, StartKeeps DEF TypeOK, Restart
<1>9. ASSUME NEW p \in Paths, NEW e \in Execs, Trigger(p, e) PROVE IInv'
  <2>1. p \notin overtaken' => \A d \in Execs : owner[d] = p => Leaving(d)
    BY <1>9 DEF Exclusion, Trigger, Leaving
  <2>2. StartExecutor(p, e) /\ state' = [state EXCEPT ![p] = "running"]
        /\ restarts' = restarts /\ overtaken' = overtaken
    BY <1>9 DEF Trigger
  <2> QED BY <2>1, <2>2, StartKeeps DEF TypeOK
<1> QED
  BY <1>1, <1>2, <1>3, <1>4, <1>5, <1>6, <1>7, <1>8, <1>9 DEF Operation

LEMMA TaskStepKeeps ==
    ASSUME IInv, NEW e \in Execs, TaskStep(e)
    PROVE  IInv'
<1> USE NoneAssumption, LimitsAssumption DEF IInv
<1>0. pc[e] # "done" => owner[e] \in Paths
  BY DEF TypeOK, Bookkeeping
<1>1. CASE LoopStarts(e)
  BY <1>0, <1>1 DEF TypeOK, Bookkeeping, Exclusion, Acting, LoopStarts, tree, Taskless
<1>5. CASE GoesRunning(e)
  <2>1. CASE state[owner[e]] \in {"spawning", "idle", "suspended"}
    BY <1>0, <1>5, <2>1 DEF TypeOK, Bookkeeping, Exclusion, Acting, GoesRunning, Taskless
  <2>2. CASE state[owner[e]] \notin {"spawning", "idle", "suspended"}
    BY <1>5, <2>2, EndKeeps DEF GoesRunning, tree
  <2> QED BY <2>1, <2>2
<1>12. CASE EntersMap(e)
  BY <1>0, <1>12 DEF TypeOK, Bookkeeping, Exclusion, Acting, EntersMap, tree, Taskless
<1>2. CASE NeverRuns(e)
  BY <1>2, EndKeeps DEF NeverRuns
<1>3. CASE Begin(e)
  BY <1>3 DEF TypeOK, Bookkeeping, Exclusion, Acting, Begin, tree, Taskless
<1>4. CASE BeginStopped(e)
  BY <1>0, <1>4, LeaveKeeps DEF BeginStopped, TypeOK
<1>6. CASE RunEnds(e)
  BY <1>0, <1>6, LeaveKeeps DEF RunEnds, TypeOK
<1>7. CASE RunFails(e)
  BY <1>7, LeaveKeeps DEF RunFails, TypeOK
<1>8. CASE RunCancelled(e)
  BY <1>8, LeaveKeeps DEF RunCancelled, TypeOK
<1>9. CASE BecomeIdle(e)
  <2>1. CASE state[owner[e]] = "running"
    BY <1>0, <1>9, <2>1 DEF TypeOK, Bookkeeping, Exclusion, Acting, BecomeIdle, Taskless
  <2>2. CASE state[owner[e]] # "running"
    BY <1>9, <2>2, EndKeeps DEF BecomeIdle, tree
  <2> QED BY <2>1, <2>2
<1>10. CASE CloseCancelled(e)
  BY <1>10, EndKeeps DEF CloseCancelled
<1>11. CASE Saved(e)
  BY <1>11, EndKeeps DEF Saved
<1> QED
  BY <1>1, <1>2, <1>3, <1>4, <1>5, <1>6, <1>7, <1>8, <1>9, <1>10, <1>11, <1>12
     DEF TaskStep

LEMMA StepKeeps == IInv /\ [Next]_vars => IInv'
<1> SUFFICES ASSUME IInv, [Next]_vars PROVE IInv'
  OBVIOUS
<1>1. CASE Operation
  BY <1>1, OperationKeeps
<1>2. ASSUME NEW e \in Execs, TaskStep(e) PROVE IInv'
  BY <1>2, TaskStepKeeps
<1>3. CASE UNCHANGED vars
  BY <1>3 DEF vars, tree, tasks, IInv, TypeOK, Bookkeeping, Exclusion, Acting
<1> QED BY <1>1, <1>2, <1>3 DEF Next

\* IInv holds in every reachable state.
THEOREM Invariance == Spec => []IInv
<1>1. Init => IInv
  BY InitEstablishes
<1>2. IInv /\ [Next]_vars => IInv'
  BY StepKeeps
<1> QED BY <1>1, <1>2, PTL DEF Spec

\* Every variable keeps its type.
THEOREM TypeCorrect == Spec => []TypeOK
  BY Invariance, PTL DEF IInv

\* Two executors never work for one agent that was not overtaken, and the
\* registry's map holds the one that does (registry.py, _start_executor and
\* _stop_executor).
THEOREM ExecutorsExclude == Spec => []SoleExecutor
<1>1. IInv => SoleExecutor
  BY DEF IInv, SoleExecutor, Exclusion, Acting, Working
<1> QED BY <1>1, Invariance, PTL

\* A suspended or idle agent that was never overtaken has nobody at work
\* (executor.py, the finally block of _run_safe, and registry.py, suspend).
THEOREM RestIsQuiet == Spec => []RestMeansNoWork
<1>1. IInv => RestMeansNoWork
  BY DEF IInv, RestMeansNoWork, Exclusion, Acting, Working
<1> QED BY <1>1, Invariance, PTL

-----------------------------------------------------------------------------
\* Every step is one of AgentPromise or leaves what a client sees unchanged.

LEMMA OperationPromised == IInv /\ Operation => Promise!Next \/ UNCHANGED Promise!vars
<1> SUFFICES ASSUME IInv, Operation PROVE Promise!Next \/ UNCHANGED Promise!vars
  OBVIOUS
<1> USE DEF IInv, Promise!Next, Promise!Move, Promise!Moves, Promise!vars
<1>1. ASSUME NEW p \in Paths, NEW e \in Execs, Spawn(p, e)
      PROVE  Promise!Next
  BY <1>1 DEF Spawn, CanSpawn
<1>8. ASSUME NEW p \in Paths, NEW e \in Execs, NEW d \in Execs, SpawnFromTool(d, p, e)
      PROVE  Promise!Next
  BY <1>8 DEF SpawnFromTool, CanSpawn
<1>2. ASSUME NEW p \in Paths, Terminate(p) PROVE Promise!Next
  <2>1. Promise!Kill(p)
    BY <1>2 DEF Terminate, Promise!Kill, Promise!Below, Below
  <2> QED BY <2>1
<1>3. ASSUME NEW p \in Paths, Suspend(p) PROVE Promise!Next \/ UNCHANGED Promise!vars
  <2>1. CASE state[p] \in {"running", "idle"}
    BY <1>3, <2>1 DEF Suspend
  <2>2. CASE state[p] \notin {"running", "idle"}
    BY <1>3, <2>2 DEF Suspend, TypeOK
  <2> QED BY <2>1, <2>2
<1>4. ASSUME NEW p \in Paths, Correct(p) PROVE Promise!Next \/ UNCHANGED Promise!vars
  <2>1. CASE state[p] = "idle"
    BY <1>4, <2>1 DEF Correct
  <2>2. CASE state[p] = "running"
    BY <1>4, <2>2 DEF Correct, TypeOK
  <2> QED BY <1>4, <2>1, <2>2 DEF Correct
<1>5. ASSUME NEW p \in Paths, SendMessage(p) PROVE Promise!Next \/ UNCHANGED Promise!vars
  <2>1. CASE state[p] = "idle"
    BY <1>5, <2>1 DEF SendMessage, Woken
  <2>2. CASE state[p] # "idle"
    BY <1>5, <2>2 DEF SendMessage, Woken, TypeOK
  <2> QED BY <2>1, <2>2
<1>6. ASSUME NEW p \in Paths, NEW e \in Execs, Resume(p, e) \/ Trigger(p, e)
      PROVE  Promise!Next
  BY <1>6 DEF Resume, Trigger
<1>7. ASSUME NEW p \in Paths, NEW e \in Execs, Restart(p, e) PROVE Promise!Next
  <2>1. Promise!Revive(p)
    BY <1>7 DEF Restart, Promise!Revive
  <2> QED BY <2>1
<1> QED
  BY <1>1, <1>2, <1>3, <1>4, <1>5, <1>6, <1>7, <1>8 DEF Operation

LEMMA TaskStepPromised ==
    ASSUME IInv, NEW e \in Execs, TaskStep(e)
    PROVE  Promise!Next \/ UNCHANGED Promise!vars
<1> USE DEF IInv, Promise!Next, Promise!Move, Promise!Moves, Promise!vars
<1>1. pc[e] # "done" => owner[e] \in Paths
  BY NoneAssumption DEF TypeOK, Bookkeeping
<1>2. ASSUME NEW failed \in BOOLEAN, pc[e] # "done", LeaveRun(e, failed)
      PROVE  Promise!Next \/ UNCHANGED Promise!vars
  BY <1>1, <1>2 DEF LeaveRun
<1>3. CASE BecomeIdle(e)
  BY <1>1, <1>3 DEF BecomeIdle
<1>6. CASE GoesRunning(e)
  BY <1>1, <1>6 DEF GoesRunning
<1>4. CASE EntersMap(e) \/ LoopStarts(e) \/ NeverRuns(e) \/ Begin(e)
             \/ CloseCancelled(e) \/ Saved(e)
  BY <1>4 DEF EntersMap, LoopStarts, NeverRuns, Begin, CloseCancelled, Saved, tree
<1>5. CASE BeginStopped(e) \/ RunEnds(e) \/ RunFails(e) \/ RunCancelled(e)
  BY <1>2, <1>5 DEF BeginStopped, RunEnds, RunFails, RunCancelled
<1> QED BY <1>3, <1>4, <1>5, <1>6 DEF TaskStep

\* The detailed specification implements the abstract one, and so everything
\* AgentPromise says of an agent's states holds of the registry, the executors
\* and the scheduler together.
THEOREM Refinement == Spec => KeepsPromise
<1>1. Init => Promise!Init
  BY DEF Init, Promise!Init
<1>2. IInv /\ [Next]_vars => [Promise!Next]_(Promise!vars)
  <2> SUFFICES ASSUME IInv, [Next]_vars PROVE [Promise!Next]_(Promise!vars)
    OBVIOUS
  <2>1. CASE Operation
    BY <2>1, OperationPromised
  <2>2. ASSUME NEW e \in Execs, TaskStep(e) PROVE [Promise!Next]_(Promise!vars)
    BY <2>2, TaskStepPromised
  <2>3. CASE UNCHANGED vars
    BY <2>3 DEF vars, tree, Promise!vars
  <2> QED BY <2>1, <2>2, <2>3 DEF Next
<1> QED BY <1>1, <1>2, Invariance, PTL DEF Spec, KeepsPromise, Promise!Spec

\* A terminated agent is only revived by a counted restart.
THEOREM DeathFinal == Spec => DeathIsFinal
<1> DEFINE Step == \A p \in Paths : state[p] = "dead" /\ state'[p] # "dead"
                                     => restarts'[p] = restarts[p] + 1
<1>1. IInv /\ Promise!Next => Step
  BY DEF IInv, TypeOK, Promise!Next, Promise!Move, Promise!Moves, Promise!Kill, Promise!Revive
<1>2. IInv /\ UNCHANGED Promise!vars => Step
  BY DEF Promise!vars
<1>3. IInv /\ [Next]_vars => [Step]_vars
  <2> SUFFICES ASSUME IInv, Next PROVE Step
    BY DEF vars, tree
  <2>1. CASE Operation
    BY <2>1, <1>1, <1>2, OperationPromised
  <2>2. ASSUME NEW e \in Execs, TaskStep(e) PROVE Step
    BY <2>2, <1>1, <1>2, TaskStepPromised
  <2> QED BY <2>1, <2>2 DEF Next
<1> QED BY <1>3, Invariance, PTL DEF Spec, DeathIsFinal

\* A suspended agent is put back to work only with an executor made for it:
\* by resume() or restart(), never by a message or a late executor.
THEOREM SuspensionHeld == Spec => SuspensionHolds
<1> DEFINE Step == \A p \in Paths : state[p] = "suspended" /\ state'[p] # "suspended"
                      => \/ state'[p] = "dead"
                         \/ /\ state'[p] = "running"
                            /\ \E e \in Execs : pc[e] = "done" /\ pc'[e] = "created"
                                                 /\ current'[p] = e
                         \/ /\ p \in overtaken
                            /\ \E e \in Execs : owner[e] = p /\ pc[e] = "spawning"
                                                 /\ pc'[e] = "launching"
<1>1. ASSUME IInv, Operation PROVE Step
  <2> USE <1>1 DEF IInv, TypeOK
  <2>1. ASSUME NEW q \in Paths, NEW e \in Execs, Spawn(q, e) PROVE Step
    BY <2>1 DEF Spawn, CanSpawn
  <2>6. ASSUME NEW q \in Paths, NEW e \in Execs, NEW d \in Execs, SpawnFromTool(d, q, e)
        PROVE Step
    BY <2>6 DEF SpawnFromTool, CanSpawn
  <2>2. ASSUME NEW q \in Paths, Terminate(q) PROVE Step
    BY <2>2 DEF Terminate
  <2>3. ASSUME NEW q \in Paths, Suspend(q) PROVE Step
    BY <2>3 DEF Suspend
  <2>4. ASSUME NEW q \in Paths, Correct(q) \/ SendMessage(q) PROVE Step
    BY <2>4 DEF Correct, SendMessage, Woken
  <2>5. ASSUME NEW q \in Paths, NEW e \in Execs, Resume(q, e) \/ Restart(q, e) \/ Trigger(q, e)
        PROVE Step
    BY <2>5 DEF Resume, Restart, Trigger, StartExecutor
  <2> QED
    BY <2>1, <2>2, <2>3, <2>4, <2>5, <2>6 DEF Operation
<1>2. ASSUME IInv, NEW d \in Execs, TaskStep(d) PROVE Step
  <2> USE <1>2 DEF IInv, TypeOK
  <2>1. pc[d] # "done" => owner[d] \in Paths
    BY NoneAssumption DEF Bookkeeping
  <2>2. ASSUME NEW failed \in BOOLEAN, pc[d] # "done", LeaveRun(d, failed) PROVE Step
    BY <2>1, <2>2 DEF LeaveRun
  <2>3. CASE BecomeIdle(d)
    BY <2>1, <2>3 DEF BecomeIdle
  \* An agent that is suspended while it is being spawned was restarted.
  <2>6. CASE GoesRunning(d)
    BY <2>1, <2>6 DEF GoesRunning, Exclusion
  <2>4. CASE EntersMap(d) \/ LoopStarts(d) \/ NeverRuns(d) \/ Begin(d)
               \/ CloseCancelled(d) \/ Saved(d)
    BY <2>4 DEF EntersMap, LoopStarts, NeverRuns, Begin, CloseCancelled, Saved, tree
  <2>5. CASE BeginStopped(d) \/ RunEnds(d) \/ RunFails(d) \/ RunCancelled(d)
    BY <2>2, <2>5 DEF BeginStopped, RunEnds, RunFails, RunCancelled
  <2> QED BY <2>3, <2>4, <2>5, <2>6 DEF TaskStep
<1>3. IInv /\ [Next]_vars => [Step]_vars
  BY <1>1, <1>2 DEF Next
<1> QED BY <1>3, Invariance, PTL DEF Spec, SuspensionHolds

\* Nobody begins to work for an agent that stays suspended or dead, and its
\* tasks only move towards their end: stop()'s promise as far as a step goes.
\* That they do move is StoppedAgentGoesQuiet, which needs fairness.
THEOREM WindDown == Spec => StoppedWindsDown
<1> DEFINE Stays(p) == state[p] \in Stopping /\ state'[p] \in Stopping
           Onward(p, e) == /\ owner'[e] = p => owner[e] = p
                           /\ owner[e] = p /\ pc'[e] # pc[e] => Ahead[pc'[e]] < Ahead[pc[e]]
           Step == \A p \in Paths : Stays(p) => \A e \in Execs : Onward(p, e)
<1>1. ASSUME IInv, Operation PROVE Step
  <2> USE <1>1 DEF IInv, TypeOK, Stopping
  <2>1. ASSUME NEW q \in Paths, NEW e \in Execs, state'[q] = "running",
               StartExecutor(q, e) PROVE Step
    <3>1. owner[e] = None
      BY <2>1 DEF StartExecutor, Bookkeeping
    <3>2. \A p \in Paths : Stays(p) => p # q
      BY <2>1
    <3> QED BY <2>1, <3>1, <3>2, NoneAssumption DEF StartExecutor
  <2>2. ASSUME NEW q \in Paths, NEW e \in Execs, Spawn(q, e) PROVE Step
    BY <2>1, <2>2 DEF Spawn
  <2>6. ASSUME NEW q \in Paths, NEW e \in Execs, NEW d \in Execs, SpawnFromTool(d, q, e)
        PROVE Step
    BY <2>6, NoneAssumption DEF SpawnFromTool, Bookkeeping
  <2>3. ASSUME NEW q \in Paths, Terminate(q) \/ Suspend(q) PROVE Step
    BY <2>3 DEF Terminate, Suspend, StopExecutor
  <2>4. ASSUME NEW q \in Paths, Correct(q) \/ SendMessage(q) PROVE Step
    BY <2>4 DEF Correct, SendMessage, tasks
  <2>5. ASSUME NEW q \in Paths, NEW e \in Execs, Resume(q, e) \/ Restart(q, e) \/ Trigger(q, e)
        PROVE Step
    BY <2>1, <2>5 DEF Resume, Restart, Trigger
  <2> QED
    BY <2>2, <2>3, <2>4, <2>5, <2>6 DEF Operation
<1>2. ASSUME IInv, NEW d \in Execs, TaskStep(d) PROVE Step
  <2> USE <1>2 DEF IInv, TypeOK
  <2>1. ASSUME pc[d] # "done", EndTask(d) PROVE Step
    BY <2>1, NoneAssumption DEF EndTask, Ahead, TaskStates
  <2>2. ASSUME NEW failed \in BOOLEAN, pc[d] \in {"created", "turn"}, LeaveRun(d, failed)
        PROVE Step
    BY <2>2 DEF LeaveRun, Ahead
  <2>3. CASE BecomeIdle(d)
    BY <2>1, <2>3 DEF BecomeIdle, Ahead
  <2>7. CASE GoesRunning(d)
    BY <2>1, <2>7 DEF GoesRunning, Ahead
  <2>4. CASE EntersMap(d) \/ LoopStarts(d) \/ Begin(d)
    BY <2>4 DEF EntersMap, LoopStarts, Begin, tasks, Ahead
  <2>5. CASE BeginStopped(d) \/ RunEnds(d) \/ RunFails(d) \/ RunCancelled(d)
    BY <2>2, <2>5 DEF BeginStopped, RunEnds, RunFails, RunCancelled
  <2>6. CASE NeverRuns(d) \/ CloseCancelled(d) \/ Saved(d)
    BY <2>1, <2>6 DEF NeverRuns, CloseCancelled, Saved
  <2> QED BY <2>3, <2>4, <2>5, <2>6, <2>7 DEF TaskStep
<1>3. IInv /\ [Next]_vars => [Step]_vars
  BY <1>1, <1>2 DEF Next
<1> QED BY <1>3, Invariance, PTL DEF Spec, StoppedWindsDown

=============================================================================
