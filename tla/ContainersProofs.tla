-------------------------- MODULE ContainersProofs --------------------------
(***************************************************************************)
(* Proofs about Containers, for every number of threads.                   *)
(***************************************************************************)
EXTENDS Containers, TLAPS

\* Nothing is left of a server that is down.
Down == ~up => ~ready /\ commands = NoCommands

IInv == TypeOK /\ Down /\ ReadyBoxRuns

LEMMA InitHolds == Init => IInv
BY DEF Init, IInv, TypeOK, Down, ReadyBoxRuns, NoCommands, Steps

\* One thread goes on, from a step to another: the server is up, and it is enough
\* to know that the container runs when this thread has its command run.
LEMMA ThreadKeeps ==
    ASSUME IInv, NEW t \in Threads, NEW step \in Steps,
           commands[t] # "none" \/ up, Goes(t, step), up' = up,
           ready' \in BOOLEAN, untouched' \in BOOLEAN, box' \in Boxes,
           untouched' => untouched,
           untouched' /\ box = "running" => box' = "running",
           untouched' /\ ((ready' /\ ~ready) \/ step = "exec") => box' = "running"
    PROVE  IInv'
<1>1. commands \in [Threads -> Steps]
  BY DEF IInv, TypeOK
<1>2. commands' \in [Threads -> Steps] /\ commands'[t] = step
      /\ \A u \in Threads : u # t => commands'[u] = commands[u]
  BY <1>1 DEF Goes
<1>3. up
  BY DEF IInv, Down, NoCommands
<1>4. TypeOK' /\ Down'
  BY <1>2, <1>3 DEF IInv, TypeOK, Down
<1>5. ReadyBoxRuns'
  <2>1. SUFFICES ASSUME untouched', ready' \/ \E u \in Threads : commands'[u] = "exec"
                 PROVE  box' = "running"
    BY DEF ReadyBoxRuns
  <2>2. CASE ready \/ \E u \in Threads : commands[u] = "exec"
    BY <2>1, <2>2 DEF IInv, ReadyBoxRuns
  <2>3. CASE ~ready /\ \A u \in Threads : commands[u] # "exec"
    BY <2>1, <2>3, <1>2
  <2> QED BY <2>2, <2>3
<1> QED BY <1>4, <1>5 DEF IInv

LEMMA StepKeeps == IInv /\ [Next]_vars => IInv'
<1> SUFFICES ASSUME IInv, [Next]_vars PROVE IInv'
  OBVIOUS
<1>0. TypeOK
  BY DEF IInv
<1>1. ASSUME NEW t \in Threads, ShellExec(t) PROVE IInv'
  <2>1. (IF ready THEN "exec" ELSE "inspect") \in Steps
    BY DEF Steps
  <2>2. untouched /\ ready => box = "running"
    BY DEF IInv, ReadyBoxRuns
  <2> QED BY <1>0, <1>1, <2>1, <2>2, ThreadKeeps DEF ShellExec, TypeOK
<1>2. ASSUME NEW t \in Threads, Inspect(t) PROVE IInv'
  <2>1. PICK step : step = CASE box = "none" -> "create"
                             [] box = "stopped" -> "start"
                             [] box = "running" -> "exec"
    OBVIOUS
  <2>2. step \in Steps /\ (step = "exec" => box = "running")
    BY <1>0, <2>1 DEF TypeOK, Boxes, Steps
  <2>3. Goes(t, step) /\ ready' = (ready \/ box = "running") /\ UNCHANGED <<box, up, untouched>>
        /\ commands[t] # "none"
    BY <1>2, <2>1 DEF Inspect
  <2> QED BY <1>0, <2>2, <2>3, ThreadKeeps DEF TypeOK
<1>3. ASSUME NEW t \in Threads, StartBox(t) PROVE IInv'
  <2>1. "exec" \in Steps /\ "running" \in Boxes
    BY DEF Steps, Boxes
  <2> QED BY <1>0, <1>3, <2>1, ThreadKeeps DEF StartBox, TypeOK
<1>4. ASSUME NEW t \in Threads, CreateBox(t) PROVE IInv'
  <2>1. "launch" \in Steps /\ "stopped" \in Boxes
    BY DEF Steps, Boxes
  <2> QED BY <1>0, <1>4, <2>1, ThreadKeeps DEF CreateBox, TypeOK
<1>5. ASSUME NEW t \in Threads, CreatedRuns(t) PROVE IInv'
  <2>1. "exec" \in Steps /\ "running" \in Boxes
    BY DEF Steps, Boxes
  <2> QED BY <1>0, <1>5, <2>1, ThreadKeeps DEF CreatedRuns, TypeOK
<1>6. ASSUME NEW t \in Threads, NoBox(t) \/ Executed(t) PROVE IInv'
  <2>1. "none" \in Steps
    BY DEF Steps
  <2> QED BY <1>0, <1>6, <2>1, ThreadKeeps DEF NoBox, Executed, TypeOK
<1>7. ASSUME NEW to \in {"none", "stopped"}, BoxGoes(to) PROVE IInv'
  BY <1>7 DEF BoxGoes, IInv, TypeOK, Boxes, Down, ReadyBoxRuns
<1>8. CASE Exit
  <2>1. box' \in Boxes
    BY <1>0, <1>8 DEF Exit, TypeOK, Boxes
  <2>2. commands' \in [Threads -> Steps] /\ \A t \in Threads : commands'[t] = "none"
    BY <1>8 DEF Exit, NoCommands, Steps
  <2> QED BY <1>0, <1>8, <2>1, <2>2 DEF Exit, IInv, TypeOK, Down, ReadyBoxRuns, NoCommands
<1>9. CASE Start
  BY <1>9 DEF Start, IInv, TypeOK, Down, ReadyBoxRuns, NoCommands
<1>10. CASE UNCHANGED vars
  BY <1>10 DEF vars, IInv, TypeOK, Down, ReadyBoxRuns, NoCommands
<1> QED
  BY <1>1, <1>2, <1>3, <1>4, <1>5, <1>6, <1>7, <1>8, <1>9, <1>10 DEF Next

\* Whoever makes or stops it, a container that the manager takes for ready was
\* seen running or told to start (containers.py:54-97).
THEOREM Invariance == Spec => []IInv
BY InitHolds, StepKeeps, PTL DEF Spec

\* Every state of the container, its manager and the threads is well typed.
THEOREM TypeCorrect == Spec => []TypeOK
<1>1. IInv => TypeOK
  BY DEF IInv
<1> QED BY <1>1, Invariance, PTL

\* However many threads look for the container, start it and make it at a time,
\* it runs once the manager takes it for ready (containers.py:54-116).
THEOREM BoxRuns == Spec => []ReadyBoxRuns
<1>1. IInv => ReadyBoxRuns
  BY DEF IInv
<1> QED BY <1>1, Invariance, PTL
=============================================================================
