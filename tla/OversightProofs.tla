--------------------------- MODULE OversightProofs ---------------------------
(***************************************************************************)
(* Proofs about Oversight, for every number of observers, every capacity   *)
(* of their queues and every limit of restarts.                            *)
(***************************************************************************)
EXTENDS Oversight, TLAPS

USE DEF agent, health, States, Reasons, Stages, Kinds, LoopsMax

\* SuspendedForCause alone is not inductive: an executor at work would write
\* other figures.  The one the registry knows of was stopped with the agent, and
\* of those it has lost `checked` tells.
NobodyWorks == state = "suspended" /\ checked => ~works

IInv == TypeOK /\ SuspendedForCause /\ NobodyWorks

\* What the events do to the observers keeps their type.
LEMMA PublishKeeps ==
    ASSUME observers \in [Observers -> Streams], Publish
    PROVE  observers' \in [Observers -> Streams]
<1> SUFFICES ASSUME NEW o \in Observers
             PROVE  (IF Listed(o) /\ Room(o)
                     THEN [observers[o] EXCEPT !.waiting = @ + 1]
                     ELSE observers[o]) \in Streams
  BY DEF Publish
<1> QED
  BY BoundsAssumption DEF Streams, Room

LEMMA MayPublishKeeps ==
    ASSUME observers \in [Observers -> Streams], MayPublish
    PROVE  observers' \in [Observers -> Streams]
BY PublishKeeps DEF MayPublish

LEMMA InitHolds == Init => IInv
<1> SUFFICES ASSUME Init PROVE IInv
  OBVIOUS
<1>1. observers \in [Observers -> Streams]
  BY BoundsAssumption DEF Init, Streams
<1>2. restarts \in 0..MaxRestarts /\ loops \in 0..3
  BY BoundsAssumption DEF Init
<1>3. TypeOK
  BY <1>1, <1>2 DEF Init, TypeOK
<1>4. SuspendedForCause /\ NobodyWorks
  BY DEF Init, SuspendedForCause, NobodyWorks
<1> QED
  BY <1>3, <1>4 DEF IInv

\* A check suspends for a cause that it has found, and leaves the rest alone.
LEMMA CheckKeeps ==
    ASSUME IInv, CheckNode, observers' \in [Observers -> Streams]
    PROVE  IInv'
<1> USE DEF IInv, TypeOK
<1>1. CASE ~Live
  BY <1>1 DEF CheckNode, SuspendedForCause, Justifies, NobodyWorks
<1>2. CASE Live
  <2>1. PICK seen \in (IF Suspendable /\ Early THEN BOOLEAN ELSE {repeats}) :
            /\ loops' = Counted(seen)
            /\ IF Suspendable /\ CauseWith(seen) # "none"
               THEN /\ Suspended(CauseWith(seen))
                    /\ checked' = TRUE
                    /\ IF Early THEN repeats' = seen ELSE Logs
               ELSE UNCHANGED <<agent, repeats, checked>>
            /\ UNCHANGED <<spent, late, drifting, lost>>
    BY <1>2 DEF CheckNode
  <2>2. seen \in BOOLEAN
    BY <2>1
  <2>3. Counted(seen) \in 0..3 /\ (loops = 3 => Counted(seen) = 3)
    BY DEF Counted
  <2>4. CauseWith(seen) \in Reasons
    BY DEF CauseWith
  <2>5. CASE Suspendable /\ CauseWith(seen) # "none"
    <3>1. TypeOK'
      BY <2>1, <2>2, <2>3, <2>4, <2>5 DEF Suspended, Logs
    <3>2. SuspendedForCause'
      BY <2>1, <2>3, <2>5 DEF Suspended, SuspendedForCause, Justifies, CauseWith, Early
    <3>3. NobodyWorks'
      BY <2>1, <2>5 DEF Suspended, NobodyWorks
    <3> QED BY <3>1, <3>2, <3>3
  <2>6. CASE ~(Suspendable /\ CauseWith(seen) # "none")
    <3>1. UNCHANGED <<agent, repeats, checked, spent, late, drifting, lost>>
      BY <2>1, <2>6
    <3>2. loops' \in 0..3 /\ (loops = 3 => loops' = 3)
      BY <2>1, <2>3
    <3> QED BY <3>1, <3>2 DEF SuspendedForCause, Justifies, NobodyWorks
  <2> QED BY <2>5, <2>6
<1> QED BY <1>1, <1>2

LEMMA StepKeeps == IInv /\ [Next]_vars => IInv'
<1> SUFFICES ASSUME IInv, [Next]_vars PROVE IInv'
  OBVIOUS
<1> USE PublishKeeps, MayPublishKeeps, BoundsAssumption
    DEF IInv, TypeOK, SuspendedForCause, Justifies, NobodyWorks
<1>1. CASE ModelCall
  BY <1>1 DEF ModelCall, Executing
<1>2. CASE Judge
  <2>1. TypeOK'
    BY <1>2 DEF Judge
  <2>2. SuspendedForCause' /\ NobodyWorks'
    BY <1>2 DEF Judge, Executing
  <2> QED BY <2>1, <2>2
<1>3. CASE RunEnds
  <2>1. TypeOK'
    BY <1>3 DEF RunEnds, ExecutorEnds, Logs
  <2>2. SuspendedForCause' /\ NobodyWorks'
    BY <1>3 DEF RunEnds, ExecutorEnds
  <2> QED BY <2>1, <2>2
<1>4. CASE RunFails
  <2>1. TypeOK'
    BY <1>4 DEF RunFails, ExecutorEnds, Logs
  <2>2. SuspendedForCause' /\ NobodyWorks'
    BY <1>4 DEF RunFails, ExecutorEnds
  <2> QED BY <2>1, <2>2
<1>5. CASE Suspend
  BY <1>5 DEF Suspend, Suspended, Logs
<1>6. CASE Resume
  BY <1>6 DEF Resume, StartExecutor, Logs
<1>7. CASE Terminate
  <2>1. TypeOK'
    BY <1>7 DEF Terminate, Logs
  <2>2. SuspendedForCause' /\ NobodyWorks'
    BY <1>7 DEF Terminate
  <2> QED BY <2>1, <2>2
<1>8. CASE Restart
  <2>1. restarts' \in 0..MaxRestarts /\ loops' \in 0..3 /\ repeats' \in BOOLEAN
    BY <1>8 DEF Restart, Logs
  <2>2. observers' \in [Observers -> Streams]
    BY <1>8 DEF Restart
  <2>3. TypeOK'
    BY <1>8, <2>1, <2>2 DEF Restart, StartExecutor
  <2> QED BY <1>8, <2>3 DEF Restart
<1>9. CASE Message \/ Correct \/ Checkpoint
  BY <1>9 DEF Message, Correct, Checkpoint, Logs
<1>10. CASE ScheduledRun
  <2>1. TypeOK'
    <3>1. repeats' \in BOOLEAN /\ observers' \in [Observers -> Streams]
      BY <1>10 DEF ScheduledRun, Logs
    <3>2. works' \in BOOLEAN /\ stray' \in BOOLEAN
      BY <1>10 DEF ScheduledRun, StartExecutor
    <3> QED BY <1>10, <3>1, <3>2 DEF ScheduledRun
  <2>2. SuspendedForCause' /\ NobodyWorks'
    BY <1>10 DEF ScheduledRun
  <2> QED BY <2>1, <2>2
<1>11. CASE RunsLate \/ ChildEvent
  <2>1. CASE RunsLate
    <3>1. TypeOK'
      BY <2>1 DEF RunsLate
    <3> QED BY <2>1, <3>1 DEF RunsLate
  <2>2. CASE ChildEvent
    BY <2>2 DEF ChildEvent
  <2> QED BY <1>11, <2>1, <2>2
<1>12. CASE CheckAll
  BY <1>12, CheckKeeps DEF CheckAll
<1>13. ASSUME NEW o \in Observers, Streaming(o) PROVE IInv'
  <2>1. CASE Heartbeat(o)
    BY <2>1, CheckKeeps DEF Heartbeat
  <2>2. CASE Observe(o) \/ Begin(o) \/ Abandon(o)
    <3>1. PICK to \in Stages : observers' = [observers EXCEPT ![o].stage = to]
      BY <2>2 DEF Observe, Begin, Abandon, Stage
    <3>2. observers' \in [Observers -> Streams]
      BY <3>1 DEF Streams
    <3> QED BY <2>2, <3>2 DEF Observe, Begin, Abandon, Stage
  <2>3. CASE Deliver(o)
    <3>1. observers' \in [Observers -> Streams]
      BY <2>3 DEF Deliver, Streams
    <3> QED BY <2>3, <3>1 DEF Deliver
  <2>4. CASE Leave(o)
    <3>1. [observers[o] EXCEPT !.stage = "off", !.waiting = 0] \in Streams
      <4>1. observers[o] \in Streams /\ 0 \in 0..Capacity
        OBVIOUS
      <4> QED BY ONLY <4>1 DEF Streams
    <3>2. observers' = [observers EXCEPT ![o] = [@ EXCEPT !.stage = "off", !.waiting = 0]]
      BY <2>4 DEF Leave
    <3>3. observers' \in [Observers -> Streams]
      BY <3>1, <3>2
    <3> QED BY <2>4, <3>3 DEF Leave
  <2> QED BY <1>13, <2>1, <2>2, <2>3, <2>4 DEF Streaming
<1>14. CASE UNCHANGED vars
  BY <1>14 DEF vars
<1> QED
  BY <1>1, <1>2, <1>3, <1>4, <1>5, <1>6, <1>7, <1>8, <1>9, <1>10, <1>11, <1>12,
     <1>13, <1>14 DEF Next, Executors, Operations

\* Who suspends, resumes, restarts, calls and observes: the figures stay as a
\* check has found them while the agent it has suspended waits.
THEOREM Invariance == Spec => []IInv
BY InitHolds, StepKeeps, PTL DEF Spec

\* Every state is well typed: no queue is over its capacity, and an agent is
\* restarted max_restarts times at most (api.py:186-195, registry.py:256-285).
THEOREM TypeCorrect == Spec => []TypeOK
<1>1. IInv => TypeOK
  BY DEF IInv
<1> QED BY <1>1, Invariance, PTL

\* An agent that a check has suspended is so for a cause that is still there, and
\* of the kind its reason names (oversight.py:48-121).
THEOREM CauseRemains == Spec => []SuspendedForCause
<1>1. IInv => SuspendedForCause
  BY DEF IInv
<1> QED BY <1>1, Invariance, PTL

-----------------------------------------------------------------------------
\* The moves of an agent.

LEMMA MovePromised ==
    ASSUME restarts' = restarts, NEW to \in {"running", "idle", "suspended"}, state' = to,
           <<state, to>> \in Promise!Moves
    PROVE  Promise!Next
<1>1. PICK p \in Root : TRUE
  BY DEF Root
<1>2. [q \in Root |-> state'] = [[q \in Root |-> state] EXCEPT ![p] = to]
  BY DEF Root
<1>3. [q \in Root |-> state][p] = state
  OBVIOUS
<1>4. Promise!Move(p, to)
  BY <1>2, <1>3 DEF Promise!Move
<1> QED BY <1>4 DEF Promise!Next

LEMMA KillPromised ==
    ASSUME restarts' = restarts, state \in States, state' = "dead"
    PROVE  Promise!Next
<1>1. PICK p \in Root : Root = {p}
  BY DEF Root
<1>2. \A q \in Root : q \in {p} \cup Promise!Below(p) /\ [r \in Root |-> state][q] # "absent"
  BY <1>1
<1>3. Promise!Kill(p)
  BY <1>1, <1>2 DEF Promise!Kill
<1> QED BY <1>3 DEF Promise!Next

LEMMA RevivePromised ==
    ASSUME restarts' = restarts + 1, restarts < MaxRestarts, state \in States,
           state' = "running"
    PROVE  Promise!Next
<1>1. PICK p \in Root : Root = {p}
  BY DEF Root
<1>2. /\ [q \in Root |-> state][p] = state /\ [q \in Root |-> restarts][p] = restarts
      /\ [q \in Root |-> state'] = [[q \in Root |-> state] EXCEPT ![p] = "running"]
      /\ [q \in Root |-> restarts']
            = [[q \in Root |-> restarts] EXCEPT ![p] = restarts + 1]
  BY <1>1
<1>3. Promise!Revive(p)
  BY <1>1, <1>2 DEF Promise!Revive
<1> QED BY <1>3 DEF Promise!Next

\* A check suspends only who runs or rests.
LEMMA CheckPromised ==
    ASSUME TypeOK, CheckNode
    PROVE  Promise!Next \/ UNCHANGED <<state, restarts>>
<1>1. CASE UNCHANGED <<state, restarts>>
  BY <1>1
<1>2. CASE ~UNCHANGED <<state, restarts>>
  <2>1. state' = "suspended" /\ restarts' = restarts /\ state \in {"running", "idle"}
    BY <1>2 DEF CheckNode, Suspended, Suspendable
  <2> QED BY <2>1, MovePromised DEF Promise!Moves
<1> QED BY <1>1, <1>2

LEMMA StepPromised ==
    ASSUME TypeOK, [Next]_vars
    PROVE  Promise!Next \/ UNCHANGED <<state, restarts>>
<1>1. CASE RunEnds \/ RunFails \/ Suspend \/ Resume \/ Message \/ Correct \/ ScheduledRun
  <2>1. /\ restarts' = restarts
        /\ \/ state' = state
           \/ state = "running" /\ state' \in {"idle", "suspended"}
           \/ state = "idle" /\ state' \in {"running", "suspended"}
           \/ state = "suspended" /\ state' = "running"
    BY <1>1 DEF RunEnds, RunFails, Suspend, Suspended, Resume, Message, Correct, ScheduledRun
  <2> QED BY <2>1, MovePromised DEF Promise!Moves
<1>2. CASE Terminate
  BY <1>2, KillPromised DEF Terminate, TypeOK
<1>3. CASE Restart
  BY <1>3, RevivePromised DEF Restart, TypeOK
<1>4. CASE CheckAll \/ \E o \in Observers : Heartbeat(o)
  BY <1>4, CheckPromised DEF CheckAll, Heartbeat
<1>5. CASE \/ ModelCall \/ Judge \/ RunsLate \/ ChildEvent \/ Checkpoint
           \/ \E o \in Observers : Streaming(o) /\ ~Heartbeat(o)
  BY <1>5 DEF ModelCall, Judge, RunsLate, ChildEvent, Checkpoint, Streaming, Observe, Begin,
     Abandon, Stage, Deliver, Leave
<1>6. CASE UNCHANGED vars
  BY <1>6 DEF vars
<1> QED BY <1>1, <1>2, <1>3, <1>4, <1>5, <1>6 DEF Next, Executors, Operations, Streaming

\* Whoever checks, fails, wakes or restarts an agent moves it as AgentPromise allows,
\* which AgentLifecycle implements: the two modules speak of the same agent.
THEOREM PromiseKept == Spec => MovesAsPromised
<1>1. TypeOK /\ [Next]_vars => [Promise!Next]_<<state, restarts>>
  BY StepPromised
<1> QED BY <1>1, TypeCorrect, PTL DEF Spec, MovesAsPromised
=============================================================================
