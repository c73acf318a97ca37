--------------------------- MODULE TaskQueueProofs ---------------------------
(***************************************************************************)
(* Proofs about TaskQueue, for every number of handlers at work, of tasks  *)
(* and of sessions.                                                        *)
(***************************************************************************)
EXTENDS TaskQueue, TLAPS

USE BoundsAssumption, NoneAssumption
USE DEF employee, queue, registry

-----------------------------------------------------------------------------
\* What the handlers rely on.

Spawned(s, t) == s \in Sessions /\ sessions[s] # None /\ sessions[s].task = t

\* A handler's task is in the table unless it is about to add it, its sessions were
\* spawned for their tasks, and one of the task it puts back has ended once.
Sound(h) ==
    /\ h.at = "creating" => h.task \in 1..added /\ tasks[h.task].status = "new"
    /\ h.at \in {"spawning", "marking", "requeueing"} =>
          h.task \in Tasks /\ tasks[h.task].status # "new"
    /\ h.at = "marking" => Spawned(h.session, h.task)
    /\ h.at \in {"stopping", "requeueing"} => \A pair \in h.left : Spawned(pair[2], pair[1])
    /\ h.at = "requeueing" => \E s \in Sessions : Spawned(s, h.task) /\ sessions[s].life # "live"
    /\ h.at = "editing" => h.settings \in Settings
    /\ h.at = "saving" => h.copy \in Employees

Creators ==
    \A u, v \in Users :
        At(u, "creating") /\ At(v, "creating") /\ op[u].task = op[v].task => u = v

Table ==
    /\ \A t \in Tasks : t > added => tasks[t].status = "new"
    /\ \A s \in Sessions : s > spawned => sessions[s] = None
    /\ \A s \in Sessions : sessions[s] # None => tasks[sessions[s].task].status # "new"
    /\ \A t \in Tasks : tasks[t].status = "active" => Spawned(tasks[t].session, t)

Employed == node # None \/ ~Resting => row # None

IInv == TypeOK /\ Table /\ Creators /\ Employed /\ \A u \in Users : Sound(op[u])

LEMMA InitHolds == Init => IInv
<1> SUFFICES ASSUME Init PROVE IInv
  OBVIOUS
<1>1. Idle \in Handlers
  BY DEF Idle, Handlers, Steps
<1>2. TypeOK
  BY <1>1 DEF Init, TypeOK, TaskRows
<1>3. Table /\ Creators /\ Employed
  BY DEF Init, Table, Creators, Employed, Resting, At, Idle
<1>4. \A u \in Users : Sound(op[u])
  BY DEF Init, Sound, Idle
<1> QED BY <1>2, <1>3, <1>4 DEF IInv

\* Nothing that was told of a task or of a session is ever taken back.
Grows ==
    /\ added' \in Nat /\ added <= added'
    /\ \A s \in Sessions : sessions[s] # None =>
          /\ sessions'[s] # None /\ sessions'[s].task = sessions[s].task
          /\ sessions[s].life # "live" => sessions'[s].life # "live"
    /\ \A t \in Tasks : tasks[t].status # "new" => tasks'[t].status # "new"

LEMMA SoundStays ==
    ASSUME TypeOK, Grows, NEW h \in Handlers, Sound(h),
           h.at = "creating" => tasks'[h.task].status = "new"
    PROVE  Sound(h)'
<1>1. h.at = "creating" => h.task \in 1..added'
  BY DEF Sound, Grows, TypeOK
<1>2. \A s, t : Spawned(s, t) => Spawned(s, t)'
  BY DEF Spawned, Grows
<1>3. h.at \in {"spawning", "marking", "requeueing"} =>
          h.task \in Tasks /\ tasks'[h.task].status # "new"
  BY DEF Sound, Grows
<1>4. h.at = "marking" => Spawned(h.session, h.task)'
  BY <1>2 DEF Sound
<1>5. h.at \in {"stopping", "requeueing"} => \A pair \in h.left : Spawned(pair[2], pair[1])'
  BY <1>2 DEF Sound
<1>6. h.at = "requeueing" => \E s \in Sessions : Spawned(s, h.task)' /\ sessions'[s].life # "live"
  BY <1>2 DEF Sound, Spawned, Grows
<1> QED
  BY <1>1, <1>3, <1>4, <1>5, <1>6 DEF Sound

\* Tasks, sessions and the employee are as they were.
LEMMA UnchangedGrows ==
    ASSUME TypeOK, UNCHANGED <<queue, registry>>
    PROVE  Grows
BY DEF TypeOK, Grows

\* A step of a handler: what it says of itself afterwards is sound, and no other
\* is disturbed.
LEMMA HandlerKeeps ==
    ASSUME IInv, NEW u \in Users, NEW h \in Handlers, op' = [op EXCEPT ![u] = h],
           Sound(h)', Grows, Table',
           \A t \in Tasks : tasks[t].status = "new" /\ tasks'[t].status # "new" =>
               At(u, "creating") /\ op[u].task = t,
           h.at = "creating" =>
               \A v \in Users : v # u /\ At(v, "creating") => op[v].task # h.task,
           row' \in Employees, node' \in Settings \cup {None}, saving' = saving,
           tasks' \in [Tasks -> TaskRows], added' \in 0..MaxTask,
           sessions' \in [Sessions -> SessionNodes \cup {None}], spawned' \in 0..MaxSession,
           quiet' \in BOOLEAN
    PROVE  IInv'
<1>1. op' \in [Users -> Handlers] /\ op'[u] = h /\ \A v \in Users : v # u => op'[v] = op[v]
  BY DEF IInv, TypeOK
<1>2. TypeOK'
  BY <1>1 DEF IInv, TypeOK
<1>3. Employed'
  BY DEF Employed
<1>4. ASSUME NEW v \in Users PROVE Sound(op[v])'
  <2>1. CASE v = u
    BY <1>1, <2>1 DEF Sound, Spawned
  <2>2. CASE v # u
    <3>1. PICK g \in Handlers : g = op[v]
      BY DEF IInv, TypeOK
    <3>2. Sound(g)
      BY <3>1 DEF IInv
    <3>3. g.at = "creating" => tasks'[g.task].status = "new"
      <4>1. SUFFICES ASSUME g.at = "creating" PROVE tasks'[g.task].status = "new"
        OBVIOUS
      <4>2. g.task \in Tasks /\ tasks[g.task].status = "new"
        BY <3>2, <4>1 DEF Sound, Tasks, IInv, TypeOK
      <4>3. ~(At(u, "creating") /\ op[u].task = g.task)
        BY <2>2, <3>1, <4>1 DEF IInv, Creators, At
      <4> QED BY <4>2, <4>3
    <3>4. Sound(g)'
      BY <3>2, <3>3, SoundStays DEF IInv
    <3> QED BY <1>1, <2>2, <3>1, <3>4 DEF Sound, Spawned
  <2> QED BY <2>1, <2>2
<1>5. Creators'
  BY <1>1 DEF IInv, Creators, At
<1> QED BY <1>2, <1>3, <1>4, <1>5 DEF IInv

LEMMA UnchangedTable ==
    ASSUME Table, UNCHANGED <<tasks, registry>>, added' = added
    PROVE  Table'
BY DEF Table, Spawned

\* update_task_status.
LEMMA UpdateKeeps ==
    ASSUME TypeOK, NEW t \in Tasks, NEW status \in {"queued", "active"},
           NEW session \in Sessions \cup {None}, UpdateTask(t, status, session)
    PROVE  /\ tasks' \in [Tasks -> TaskRows]
           /\ \A v \in Tasks : v # t => tasks'[v] = tasks[v]
           /\ ~InTable(t) => tasks'[t] = tasks[t]
           /\ InTable(t) => /\ tasks'[t].status = status
                            /\ session = None => tasks'[t].session = tasks[t].session
                            /\ session # None => tasks'[t].session = session
<1>1. tasks[t] \in TaskRows
  BY DEF TypeOK
<1>2. tasks[t].session \in Sessions \cup {None}
  BY <1>1 DEF TaskRows
<1>3. PICK new : new = [status |-> status,
                        session |-> IF session = None THEN tasks[t].session ELSE session]
  OBVIOUS
<1>4. new \in TaskRows
  BY <1>2, <1>3 DEF TaskRows
<1>5. tasks' = [tasks EXCEPT ![t] = IF InTable(t) THEN new ELSE tasks[t]]
  BY <1>3 DEF UpdateTask
<1>6. tasks'[t] = IF InTable(t) THEN new ELSE tasks[t]
  BY <1>5 DEF TypeOK
<1>7. \A v \in Tasks : v # t => tasks'[v] = tasks[v]
  BY <1>5 DEF TypeOK
<1>8. tasks' \in [Tasks -> TaskRows]
  BY <1>1, <1>4, <1>5 DEF TypeOK
<1> QED BY <1>3, <1>6, <1>7, <1>8

\* An update of a row that is there disturbs neither the table nor what was told.
LEMMA UpdateHolds ==
    ASSUME TypeOK, Table, NEW t \in Tasks, NEW status \in {"queued", "active"},
           NEW session \in Sessions \cup {None}, UpdateTask(t, status, session),
           status = "active" => Spawned(session, t),
           UNCHANGED <<added, registry>>
    PROVE  Table' /\ Grows /\ \A v \in Tasks : tasks[v].status = "new" => tasks'[v].status = "new"
<1>1. /\ \A v \in Tasks : v # t => tasks'[v] = tasks[v]
      /\ ~InTable(t) => tasks'[t] = tasks[t]
      /\ InTable(t) => tasks'[t].status = status /\ (session # None => tasks'[t].session = session)
  BY UpdateKeeps
<1>2. InTable(t) => tasks[t].status # "new"
  BY DEF InTable
<1>3. \A v \in Tasks : tasks'[v].status = "new" <=> tasks[v].status = "new"
  BY <1>1, <1>2
<1>4. Grows
  BY <1>3 DEF Grows, TypeOK
<1>5. \A v \in Tasks : tasks'[v].status = "active" => Spawned(tasks[v].session, v)'
  <2> SUFFICES ASSUME NEW v \in Tasks, tasks'[v].status = "active"
               PROVE  Spawned(tasks'[v].session, v)
    BY DEF Spawned
  <2>1. CASE v = t /\ InTable(t)
    <3>1. status = "active" /\ Spawned(session, t) /\ session # None
      BY <1>1, <2>1, NoneAssumption DEF Spawned, Sessions
    <3> QED BY <1>1, <2>1, <3>1
  <2>2. CASE ~(v = t /\ InTable(t))
    BY <1>1, <2>2 DEF Table
  <2> QED BY <2>1, <2>2
<1>6. \A s \in Sessions : sessions[s] # None => sessions[s].task \in Tasks
  BY DEF TypeOK, SessionNodes
<1>7. Table'
  <2>1. \A v \in Tasks : v > added' => tasks'[v].status = "new"
    BY <1>3 DEF Table
  <2>2. \A s \in Sessions : s > spawned' => sessions'[s] = None
    BY DEF Table
  <2>3. \A s \in Sessions : sessions'[s] # None => tasks'[sessions'[s].task].status # "new"
    BY <1>3, <1>6 DEF Table
  <2> QED BY <1>5, <2>1, <2>2, <2>3 DEF Table
<1> QED BY <1>3, <1>4, <1>7

\* Sessions that end, are lost, or live again: none of it takes back that a session
\* was spawned, nor that it has ended once.
Lifes == {"live", "dead", "gone", "again"}
Age ==
    /\ sessions' \in [Sessions -> SessionNodes \cup {None}]
    /\ \A s \in Sessions : (sessions'[s] = None) = (sessions[s] = None)
    /\ \A s \in Sessions : sessions[s] # None =>
          /\ sessions'[s].task = sessions[s].task
          /\ sessions[s].life # "live" => sessions'[s].life # "live"

LEMMA LifesChange ==
    ASSUME TypeOK, NEW changed \in SUBSET Sessions, NEW life \in [Sessions -> Lifes],
           \A s \in changed : sessions[s] # None
                             /\ (sessions[s].life # "live" => life[s] # "live"),
           sessions' = [s \in Sessions |->
                          IF s \in changed THEN [sessions[s] EXCEPT !.life = life[s]]
                          ELSE sessions[s]]
    PROVE  /\ Age
           /\ \A s \in changed : sessions'[s].life = life[s]
           /\ \A s \in Sessions : s \notin changed => sessions'[s] = sessions[s]
<1>1. ASSUME NEW s \in changed
      PROVE  /\ sessions'[s] \in SessionNodes /\ sessions[s] \in SessionNodes
             /\ sessions'[s].task = sessions[s].task /\ sessions'[s].life = life[s]
  <2>1. sessions[s] \in SessionNodes /\ sessions'[s] = [sessions[s] EXCEPT !.life = life[s]]
    BY DEF TypeOK
  <2>2. life[s] \in Lifes
    OBVIOUS
  <2> QED BY <2>1, <2>2 DEF SessionNodes, Lifes
<1>2. ASSUME NEW s \in Sessions, s \notin changed PROVE sessions'[s] = sessions[s]
  BY <1>2
<1>3. \A s \in Sessions : sessions[s] \in SessionNodes \cup {None}
  BY DEF TypeOK
<1>4. \A s \in Sessions : sessions'[s] \in SessionNodes \cup {None}
  BY <1>1, <1>2, <1>3
<1>5. sessions' \in [Sessions -> SessionNodes \cup {None}]
  BY <1>4
<1>6. \A s \in Sessions : (sessions'[s] = None) = (sessions[s] = None)
  BY <1>1, <1>2, NoneAssumption
<1>7. \A s \in Sessions : sessions[s] # None =>
          /\ sessions'[s].task = sessions[s].task
          /\ sessions[s].life # "live" => sessions'[s].life # "live"
  BY <1>1, <1>2
<1> QED BY <1>1, <1>2, <1>5, <1>6, <1>7 DEF Age

LEMMA AgeKeeps ==
    ASSUME TypeOK, Table, Age, UNCHANGED <<queue, spawned>>
    PROVE  Grows /\ Table' /\ \A r, v : Spawned(r, v) => Spawned(r, v)'
<1>1. Grows
  BY DEF Age, Grows, TypeOK
<1>2. \A r, v : Spawned(r, v) => Spawned(r, v)'
  BY DEF Age, Spawned
<1>3. Table'
  BY <1>2 DEF Age, Table
<1> QED BY <1>1, <1>2, <1>3

\* terminate() of the sessions on a list.
LEMMA TerminateAges ==
    ASSUME TypeOK, NEW left, NEW t, \A s \in Sessions : <<t, s>> \in left => sessions[s] # None,
           sessions' = [s \in Sessions |->
                          IF <<t, s>> \in left THEN Terminated(sessions[s]) ELSE sessions[s]]
    PROVE  /\ Age
           /\ \A s \in Sessions : <<t, s>> \in left => sessions'[s].life # "live"
           /\ \A s \in Sessions : <<t, s>> \notin left => sessions'[s] = sessions[s]
<1>1. PICK changed \in SUBSET Sessions : changed = {s \in Sessions : <<t, s>> \in left}
  OBVIOUS
<1>2. PICK life : life = [s \in Sessions |-> IF sessions[s].life = "gone" THEN "gone" ELSE "dead"]
  OBVIOUS
<1>3. life \in [Sessions -> Lifes] /\ \A s \in Sessions : life[s] # "live"
  BY <1>2 DEF Lifes
<1>4. sessions' = [s \in Sessions |->
                     IF s \in changed THEN [sessions[s] EXCEPT !.life = life[s]] ELSE sessions[s]]
  BY <1>1, <1>2 DEF Terminated
<1>5. \A s \in changed : sessions[s] # None
                         /\ (sessions[s].life # "live" => life[s] # "live")
  BY <1>1, <1>3
<1>6. /\ Age
      /\ \A s \in changed : sessions'[s].life = life[s]
      /\ \A s \in Sessions : s \notin changed => sessions'[s] = sessions[s]
  BY <1>3, <1>4, <1>5, LifesChange
<1> QED BY <1>1, <1>3, <1>6

LEMMA SessionEndsAges ==
    ASSUME TypeOK, NEW s \in Sessions, SessionEnds(s) \/ SessionRestarts(s)
    PROVE  /\ Age /\ sessions'[s].life # "live"
           /\ \A r \in Sessions : r # s => sessions'[r] = sessions[r]
<1>1. PICK l \in {"dead", "again"} : sessions[s] # None
                                   /\ sessions' = [sessions EXCEPT ![s].life = l]
  BY DEF SessionEnds, SessionRestarts, Lives
<1>2. PICK changed \in SUBSET Sessions : changed = {s}
  OBVIOUS
<1>3. PICK life : life = [r \in Sessions |-> l]
  OBVIOUS
<1>4. life \in [Sessions -> Lifes] /\ \A r \in Sessions : life[r] # "live"
  BY <1>3 DEF Lifes
<1>5. sessions' = [r \in Sessions |->
                     IF r \in changed THEN [sessions[r] EXCEPT !.life = life[r]] ELSE sessions[r]]
  BY <1>1, <1>2, <1>3 DEF TypeOK
<1>6. \A r \in changed : sessions[r] # None
                         /\ (sessions[r].life # "live" => life[r] # "live")
  BY <1>1, <1>2, <1>4
<1> QED BY <1>2, <1>4, <1>5, <1>6, LifesChange

LEMMA RestartAges ==
    ASSUME TypeOK, NEW back \in SUBSET Sessions, ServerRestarts(back)
    PROVE  /\ Age
           /\ \A s \in Sessions : sessions[s] # None =>
                 (sessions'[s].life = "live") = (s \in back /\ sessions[s].life = "live")
<1>1. PICK changed \in SUBSET Sessions : changed = {s \in Sessions : sessions[s] # None}
  OBVIOUS
<1>2. PICK life : life = [s \in Sessions |->
                            IF s \notin back THEN "gone"
                            ELSE IF sessions[s].life = "live" THEN "live" ELSE "again"]
  OBVIOUS
<1>3. life \in [Sessions -> Lifes]
      /\ \A s \in Sessions : (life[s] = "live") = (s \in back /\ sessions[s].life = "live")
  BY <1>2 DEF Lifes
<1>4. sessions' = [s \in Sessions |->
                     IF s \in changed THEN [sessions[s] EXCEPT !.life = life[s]] ELSE sessions[s]]
  BY <1>1, <1>2 DEF ServerRestarts
<1>5. \A s \in changed : sessions[s] # None
                         /\ (sessions[s].life # "live" => life[s] # "live")
  BY <1>1, <1>3
<1>6. Age /\ \A s \in changed : sessions'[s].life = life[s]
  BY <1>3, <1>4, <1>5, LifesChange
<1> QED BY <1>1, <1>3, <1>6

-----------------------------------------------------------------------------
\* The steps of the handlers.

\* One that changes its own place and perhaps the employee.
LEMMA PlaceKeeps ==
    ASSUME IInv, NEW u \in Users, NEW h \in Handlers, op' = [op EXCEPT ![u] = h],
           Sound(h), h.at # "creating", UNCHANGED <<queue, registry>>,
           row' \in Employees, node' \in Settings \cup {None}, saving' = saving,
           quiet' \in BOOLEAN
    PROVE  IInv'
<1>1. Grows /\ Table'
  BY UnchangedGrows, UnchangedTable DEF IInv
<1>2. Sound(h)'
  BY <1>1, SoundStays DEF IInv
<1>3. /\ tasks' \in [Tasks -> TaskRows] /\ added' \in 0..MaxTask
      /\ sessions' \in [Sessions -> SessionNodes \cup {None}] /\ spawned' \in 0..MaxSession
  BY DEF IInv, TypeOK
<1> QED BY <1>1, <1>2, <1>3, HandlerKeeps

\* Where there is a handler at work there is an employee.
LEMMA AtWork ==
    ASSUME IInv, NEW u \in Users, op[u] # Idle
    PROVE  row \in Employees
BY DEF IInv, TypeOK, Employed, Resting

LEMMA BeginKeeps ==
    ASSUME IInv, NEW u \in Users,
           \/ SubmitTask(u) \/ StartButton(u) \/ StopButton(u)
           \/ \E settings \in Settings : SaveChanges(u, settings)
    PROVE  IInv'
<1>0. Idle \in Handlers
  BY DEF Idle, Handlers, Steps
<1>1. row # None /\ quiet' \in BOOLEAN /\ node' = node /\ saving' = saving
  BY DEF SubmitTask, StartButton, StopButton, SaveChanges, Begin
<1>2. row \in Employees /\ node' \in Settings \cup {None}
  BY <1>1 DEF IInv, TypeOK
<1>3. CASE SubmitTask(u)
  <2>1. PICK h : h = [Idle EXCEPT !.at = "creating", !.task = added + 1]
    OBVIOUS
  <2>2. added \in Nat /\ added + 1 \in Tasks /\ added' = added + 1
        /\ op' = [op EXCEPT ![u] = h] /\ UNCHANGED <<employee, tasks, registry>>
    BY <1>3, <2>1 DEF SubmitTask, Begin, IInv, TypeOK, Tasks
  <2>3. h \in Handlers /\ h.at = "creating" /\ h.task = added + 1
    BY <1>0, <2>1, <2>2 DEF Idle, Handlers, Steps
  <2>4. tasks'[h.task].status = "new"
    BY <2>2, <2>3 DEF IInv, Table
  <2>5. Sound(h)'
    BY <2>2, <2>3, <2>4 DEF Sound
  <2>6. Grows
    BY <2>2 DEF Grows
  <2>7. Table'
    <3>1. \A t \in Tasks : t \in Nat
      BY DEF Tasks
    <3> QED BY <2>2, <3>1 DEF IInv, Table, Spawned
  <2>8. \A v \in Users : At(v, "creating") => op[v].task # h.task
    BY <2>2, <2>3 DEF IInv, Sound, At
  <2>9. added' \in 0..MaxTask /\ tasks' \in [Tasks -> TaskRows]
        /\ sessions' \in [Sessions -> SessionNodes \cup {None}] /\ spawned' \in 0..MaxSession
    BY <2>2 DEF IInv, TypeOK, Tasks
  <2> QED BY <1>1, <1>2, <2>2, <2>3, <2>5, <2>6, <2>7, <2>8, <2>9, HandlerKeeps
<1>4. CASE StartButton(u)
  <2>1. PICK h : h = [Idle EXCEPT !.at = "picking"]
    OBVIOUS
  <2>2. h \in Handlers /\ h.at = "picking"
    BY <1>0, <2>1 DEF Idle, Handlers, Steps
  <2>3. Sound(h)
    BY <2>2 DEF Sound
  <2>4. op' = [op EXCEPT ![u] = h] /\ UNCHANGED <<employee, queue, registry>>
    BY <1>4, <2>1 DEF StartButton, Begin
  <2> QED BY <1>1, <1>2, <2>2, <2>3, <2>4, PlaceKeeps
<1>5. CASE StopButton(u)
  <2>1. PICK h : h = [Idle EXCEPT !.at = "collecting"]
    OBVIOUS
  <2>2. h \in Handlers /\ h.at = "collecting"
    BY <1>0, <2>1 DEF Idle, Handlers, Steps
  <2>3. Sound(h)
    BY <2>2 DEF Sound
  <2>4. op' = [op EXCEPT ![u] = h] /\ UNCHANGED <<employee, queue, registry>>
    BY <1>5, <2>1 DEF StopButton, Begin
  <2> QED BY <1>1, <1>2, <2>2, <2>3, <2>4, PlaceKeeps
<1>6. ASSUME NEW settings \in Settings, SaveChanges(u, settings)
      PROVE  IInv'
  <2>1. PICK h : h = [Idle EXCEPT !.at = "editing", !.settings = settings]
    OBVIOUS
  <2>2. h \in Handlers /\ h.at = "editing" /\ h.settings = settings
    BY <1>0, <2>1 DEF Idle, Handlers, Steps
  <2>3. Sound(h)
    BY <2>2 DEF Sound
  <2>4. op' = [op EXCEPT ![u] = h] /\ UNCHANGED <<node, queue, registry>>
        /\ row' = [status |-> "kept", settings |-> settings]
    BY <1>6, <2>1 DEF SaveChanges, Begin
  <2>5. row' \in Employees
    BY <2>4 DEF Employees, Statuses
  <2> QED BY <1>1, <1>2, <2>2, <2>3, <2>4, <2>5, PlaceKeeps
<1> QED BY <1>3, <1>4, <1>5, <1>6

\* A handler that goes on to another place, with nothing else changed in it.
LEMMA GoesOn ==
    ASSUME TypeOK, NEW u \in Users, NEW step \in Steps, Goes(u, step)
    PROVE  \E h \in Handlers :
               /\ op' = [op EXCEPT ![u] = h] /\ h.at = step
               /\ h.task = op[u].task /\ h.session = op[u].session
               /\ h.left = op[u].left /\ h.copy = op[u].copy
<1>1. PICK h : h = [op[u] EXCEPT !.at = step]
  OBVIOUS
<1>2. op[u] \in Handlers
  BY DEF TypeOK
<1>3. /\ h \in Handlers /\ h.at = step
      /\ h.task = op[u].task /\ h.session = op[u].session
      /\ h.left = op[u].left /\ h.copy = op[u].copy
  BY <1>1, <1>2 DEF Handlers
<1>4. op' = [op EXCEPT ![u] = h]
  BY <1>1 DEF Goes
<1> QED BY <1>3, <1>4

LEMMA IdleSound == Idle \in Handlers /\ Sound(Idle) /\ Idle.at = "idle"
BY DEF Idle, Handlers, Steps, Sound

LEMMA SubmissionKeeps ==
    ASSUME IInv, NEW u \in Users, CreateTask(u) \/ ListActive(u)
    PROVE  IInv'
<1>1. row \in Employees
  <2>1. op[u] # Idle
    BY DEF CreateTask, ListActive, At, Idle
  <2> QED BY <2>1, AtWork
<1>2. node \in Settings \cup {None} /\ quiet \in BOOLEAN
  BY DEF IInv, TypeOK
<1>3. CASE CreateTask(u)
  <2>1. PICK t : t = op[u].task
    OBVIOUS
  <2>2. At(u, "creating") /\ UNCHANGED <<employee, added, registry, quiet>>
        /\ tasks' = [tasks EXCEPT ![t] = [status |-> "queued", session |-> None]]
    BY <1>3, <2>1 DEF CreateTask
  <2>3. t \in 1..added /\ t \in Tasks /\ tasks[t].status = "new"
    BY <2>1, <2>2 DEF IInv, TypeOK, Sound, At, Tasks
  <2>4. PICK h \in Handlers : op' = [op EXCEPT ![u] = h] /\ h.at = "listing"
    <3>1. Goes(u, "listing") /\ "listing" \in Steps
      BY <1>3 DEF CreateTask, Steps
    <3> QED BY <3>1, GoesOn DEF IInv
  <2>5. /\ tasks' \in [Tasks -> TaskRows]
        /\ tasks'[t].status = "queued"
        /\ \A v \in Tasks : v # t => tasks'[v] = tasks[v]
    BY <2>2, <2>3 DEF IInv, TypeOK, TaskRows
  <2>6. Grows
    BY <2>2, <2>3, <2>5 DEF Grows, IInv, TypeOK
  <2>7. Table'
    <3>1. \A v \in Tasks : v > added' => tasks'[v].status = "new"
      BY <2>2, <2>3, <2>5 DEF IInv, TypeOK, Table, Tasks
    <3>2. \A s \in Sessions : sessions[s] # None =>
              sessions[s].task \in Tasks /\ tasks'[sessions[s].task].status # "new"
      BY <2>5 DEF IInv, TypeOK, Table, SessionNodes
    <3>3. \A v \in Tasks : tasks'[v].status = "active" => Spawned(tasks[v].session, v)'
      BY <2>2, <2>5 DEF IInv, Table, Spawned
    <3>4. \A s \in Sessions : s > spawned' => sessions'[s] = None
      BY <2>2 DEF IInv, Table
    <3> QED BY <2>2, <3>1, <3>2, <3>3, <3>4 DEF Table
  <2>8. Sound(h)'
    BY <2>4 DEF Sound
  <2>9. added' \in 0..MaxTask /\ spawned' \in 0..MaxSession
        /\ sessions' \in [Sessions -> SessionNodes \cup {None}]
    BY <2>2 DEF IInv, TypeOK
  <2> QED BY <1>1, <1>2, <2>1, <2>2, <2>4, <2>5, <2>6, <2>7, <2>8, <2>9, HandlerKeeps
<1>4. CASE ListActive(u)
  <2>1. UNCHANGED <<employee, queue, registry, quiet>>
    BY <1>4 DEF ListActive
  <2>2. CASE Ends(u)
    BY <1>1, <1>2, <2>1, <2>2, IdleSound, PlaceKeeps DEF Ends
  <2>3. CASE Goes(u, "picking")
    <3>1. PICK h \in Handlers : op' = [op EXCEPT ![u] = h] /\ h.at = "picking"
      BY <2>3, GoesOn DEF IInv, Steps
    <3>2. Sound(h)
      BY <3>1 DEF Sound
    <3> QED BY <1>1, <1>2, <2>1, <3>1, <3>2, PlaceKeeps
  <2> QED BY <1>4, <2>2, <2>3 DEF ListActive
<1> QED BY <1>3, <1>4

\* A handler that only ends.
LEMMA EndKeeps ==
    ASSUME IInv, NEW u \in Users,
           Fails(u) \/ SpawnRefused(u) \/ AllStopped(u)
    PROVE  IInv'
<1>1. op[u] # Idle
  BY DEF Fails, SpawnRefused, AllStopped, At, Idle
<1>2. row \in Employees
  BY <1>1, AtWork
<1>3. node \in Settings \cup {None} /\ quiet \in BOOLEAN
  BY DEF IInv, TypeOK
<1>4. Ends(u) /\ UNCHANGED <<employee, queue, registry>> /\ quiet' \in {quiet, FALSE}
  BY DEF Fails, SpawnRefused, AllStopped
<1> QED BY <1>2, <1>3, <1>4, IdleSound, PlaceKeeps DEF Ends

LEMMA StartingKeeps ==
    ASSUME IInv, NEW u \in Users,
           PickQueued(u) \/ SpawnSession(u) \/ MarkActive(u) \/ ReadEmployee(u) \/ SaveEmployee(u)
    PROVE  IInv'
<1>1. op[u] # Idle
  BY DEF PickQueued, SpawnSession, MarkActive, ReadEmployee, SaveEmployee, At, Idle
<1>2. row \in Employees
  BY <1>1, AtWork
<1>3. node \in Settings \cup {None} /\ quiet \in BOOLEAN /\ op[u] \in Handlers /\ Sound(op[u])
  BY DEF IInv, TypeOK
<1>4. CASE PickQueued(u)
  <2>1. UNCHANGED <<employee, queue, registry, quiet>>
    BY <1>4 DEF PickQueued
  <2>2. CASE Ends(u)
    BY <1>2, <1>3, <2>1, <2>2, IdleSound, PlaceKeeps DEF Ends
  <2>3. CASE ~Ends(u)
    <3>1. PICK t \in Tasks : /\ Oldest(t, With("queued"))
                             /\ op' = [op EXCEPT ![u].at = "spawning", ![u].task = t]
      BY <1>4, <2>3 DEF PickQueued
    <3>2. PICK h : h = [op[u] EXCEPT !.at = "spawning", !.task = t]
      OBVIOUS
    <3>3. h \in Handlers /\ h.at = "spawning" /\ h.task = t
      BY <1>3, <3>2 DEF Handlers, Steps
    <3>4. op' = [op EXCEPT ![u] = h]
      BY <1>3, <3>1, <3>2 DEF IInv, TypeOK, Handlers
    <3>5. Sound(h)
      BY <3>1, <3>3 DEF Sound, Oldest, With
    <3> QED BY <1>2, <1>3, <2>1, <3>3, <3>4, <3>5, PlaceKeeps
  <2> QED BY <2>2, <2>3
<1>5. CASE SpawnSession(u)
  <2>1. PICK t, s : t = op[u].task /\ s = spawned + 1
    OBVIOUS
  <2>2. At(u, "spawning") /\ spawned < MaxSession /\ spawned' = s
        /\ UNCHANGED <<employee, queue, quiet>>
        /\ sessions' = [sessions EXCEPT ![s] = [task |-> t, life |-> "live"]]
        /\ op' = [op EXCEPT ![u].at = "marking", ![u].session = s]
    BY <1>5, <2>1 DEF SpawnSession
  <2>3. t \in Tasks /\ tasks[t].status # "new"
    BY <1>3, <2>1, <2>2 DEF Sound, At
  <2>4. spawned \in Nat /\ s \in Sessions /\ s \in 0..MaxSession
    BY <2>1, <2>2 DEF IInv, TypeOK, Sessions
  <2>5. sessions[s] = None
    BY <2>1, <2>4 DEF IInv, Table
  <2>6. [task |-> t, life |-> "live"] \in SessionNodes
    BY <2>3 DEF SessionNodes
  <2>7. /\ sessions' \in [Sessions -> SessionNodes \cup {None}]
        /\ sessions'[s] # None /\ sessions'[s].task = t
        /\ \A r \in Sessions : r # s => sessions'[r] = sessions[r]
    BY <2>2, <2>4, <2>6, NoneAssumption DEF IInv, TypeOK
  <2>8. Grows
    BY <2>2, <2>5, <2>7 DEF Grows, IInv, TypeOK
  <2>9. Table'
    <3>1. \A r \in Sessions : r \in Nat
      BY DEF Sessions
    <3>2. \A r \in Sessions : r > spawned' => sessions'[r] = None
      BY <2>1, <2>2, <2>4, <2>7, <3>1 DEF IInv, Table
    <3>3. \A r \in Sessions : sessions'[r] # None => tasks'[sessions'[r].task].status # "new"
      BY <2>2, <2>3, <2>7 DEF IInv, Table
    <3>4. \A v \in Tasks : tasks'[v].status = "active" => Spawned(tasks[v].session, v)'
      BY <2>2, <2>5, <2>7 DEF IInv, Table, Spawned
    <3> QED BY <2>2, <3>2, <3>3, <3>4 DEF IInv, Table
  <2>10. PICK h : h = [op[u] EXCEPT !.at = "marking", !.session = s]
    OBVIOUS
  <2>11. h \in Handlers /\ h.at = "marking" /\ h.task = t /\ h.session = s
    BY <1>3, <2>1, <2>4, <2>10 DEF Handlers, Steps
  <2>12. op' = [op EXCEPT ![u] = h]
    BY <1>3, <2>2, <2>10 DEF IInv, TypeOK, Handlers
  <2>13. Sound(h)'
    BY <2>2, <2>3, <2>4, <2>7, <2>11 DEF Sound, Spawned
  <2>14. added' \in 0..MaxTask /\ tasks' \in [Tasks -> TaskRows] /\ spawned' \in 0..MaxSession
    BY <2>2, <2>4 DEF IInv, TypeOK
  <2> QED BY <1>2, <1>3, <2>2, <2>7, <2>8, <2>9, <2>11, <2>12, <2>13, <2>14, HandlerKeeps
<1>6. CASE MarkActive(u)
  <2>1. PICK t, s : t = op[u].task /\ s = op[u].session
    OBVIOUS
  <2>2. UpdateTask(t, "active", s) /\ UNCHANGED <<employee, added, registry, quiet>>
        /\ Goes(u, "reading") /\ At(u, "marking")
    BY <1>6, <2>1 DEF MarkActive
  <2>3. t \in Tasks /\ Spawned(s, t) /\ s \in Sessions
    BY <1>3, <2>1, <2>2 DEF Sound, At, Spawned
  <2>4. PICK h \in Handlers : op' = [op EXCEPT ![u] = h] /\ h.at = "reading"
    BY <2>2, GoesOn DEF IInv, Steps
  <2>5. Table' /\ Grows /\ \A v \in Tasks : tasks[v].status = "new" => tasks'[v].status = "new"
    BY <2>2, <2>3, UpdateHolds DEF IInv
  <2>6. tasks' \in [Tasks -> TaskRows]
    BY <2>2, <2>3, UpdateKeeps DEF IInv
  <2>7. Sound(h)'
    BY <2>4 DEF Sound
  <2>8. added' \in 0..MaxTask /\ spawned' \in 0..MaxSession
        /\ sessions' \in [Sessions -> SessionNodes \cup {None}]
    BY <2>2 DEF IInv, TypeOK
  <2> QED BY <1>2, <1>3, <2>2, <2>4, <2>5, <2>6, <2>7, <2>8, HandlerKeeps
<1>7. CASE ReadEmployee(u)
  <2>1. PICK h : h = [op[u] EXCEPT !.at = "saving", !.copy = row]
    OBVIOUS
  <2>2. h \in Handlers /\ h.at = "saving" /\ h.copy = row
    BY <1>2, <1>3, <2>1 DEF Handlers, Steps
  <2>3. op' = [op EXCEPT ![u] = h]
    BY <1>3, <1>7, <2>1 DEF ReadEmployee, IInv, TypeOK, Handlers
  <2>4. Sound(h)
    BY <1>2, <2>2 DEF Sound
  <2> QED BY <1>2, <1>3, <1>7, <2>2, <2>3, <2>4, PlaceKeeps DEF ReadEmployee
<1>8. CASE SaveEmployee(u)
  <2>1. row' = op[u].copy /\ op[u].copy \in Employees
    BY <1>3, <1>8 DEF SaveEmployee, Sound, At
  <2> QED BY <1>3, <1>8, <2>1, IdleSound, PlaceKeeps DEF SaveEmployee, Ends
<1> QED BY <1>4, <1>5, <1>6, <1>7, <1>8

LEMMA StoppingKeeps ==
    ASSUME IInv, NEW u \in Users, CollectActive(u) \/ TerminateSession(u) \/ Requeue(u)
    PROVE  IInv'
<1>1. op[u] # Idle
  BY DEF CollectActive, TerminateSession, Requeue, At, Idle
<1>2. row \in Employees
  BY <1>1, AtWork
<1>3. node \in Settings \cup {None} /\ quiet \in BOOLEAN /\ op[u] \in Handlers /\ Sound(op[u])
  BY DEF IInv, TypeOK
<1>4. CASE CollectActive(u)
  <2>1. PICK left : left = {<<t, tasks[t].session>> : t \in With("active")}
    OBVIOUS
  <2>2. \A pair \in left : pair \in Tasks \X (Sessions \cup {None}) /\ Spawned(pair[2], pair[1])
    BY <2>1 DEF IInv, TypeOK, TaskRows, Table, With, Spawned
  <2>3. PICK h : h = [op[u] EXCEPT !.at = "stopping", !.left = left]
    OBVIOUS
  <2>4. h \in Handlers /\ h.at = "stopping" /\ h.left = left
    BY <1>3, <2>2, <2>3 DEF Handlers, Steps
  <2>5. op' = [op EXCEPT ![u] = h]
    BY <1>3, <1>4, <2>1, <2>3 DEF CollectActive, IInv, TypeOK, Handlers
  <2>6. Sound(h)
    BY <2>2, <2>4 DEF Sound
  <2> QED BY <1>2, <1>3, <1>4, <2>4, <2>5, <2>6, PlaceKeeps DEF CollectActive
<1>5. CASE TerminateSession(u)
  <2>1. PICK t \in Tasks :
           /\ FirstLeft(t, u)
           /\ sessions' = [s \in Sessions |->
                              IF <<t, s>> \in op[u].left THEN Terminated(sessions[s]) ELSE sessions[s]]
           /\ op' = [op EXCEPT ![u].at = "requeueing", ![u].task = t]
    BY <1>5 DEF TerminateSession
  <2>2. \A pair \in op[u].left : Spawned(pair[2], pair[1])
    BY <1>3, <1>5 DEF TerminateSession, At, Sound
  <2>3. UNCHANGED <<employee, queue, spawned, quiet>>
    BY <1>5 DEF TerminateSession
  <2>4. \A s \in Sessions : <<t, s>> \in op[u].left => Spawned(s, t)
    BY <2>2
  <2>5. Age /\ \A s \in Sessions : <<t, s>> \in op[u].left => sessions'[s].life # "live"
    BY <2>1, <2>4, TerminateAges DEF IInv, Spawned
  <2>6. Grows /\ Table' /\ (\A r, v : Spawned(r, v) => Spawned(r, v)')
        /\ sessions' \in [Sessions -> SessionNodes \cup {None}]
    BY <2>3, <2>5, AgeKeeps DEF IInv, Age
  <2>7. PICK s : <<t, s>> \in op[u].left
    <3>1. PICK pair \in op[u].left : t = pair[1]
      BY <2>1 DEF FirstLeft, Oldest
    <3>2. pair = <<pair[1], pair[2]>>
      BY <1>3 DEF Handlers
    <3> QED BY <3>1, <3>2
  <2>8. s \in Sessions /\ Spawned(s, t)
    BY <2>2, <2>7 DEF Spawned
  <2>9. tasks[t].status # "new"
    BY <2>8 DEF Spawned, IInv, Table
  <2>10. PICK h : h = [op[u] EXCEPT !.at = "requeueing", !.task = t]
    OBVIOUS
  <2>11. h \in Handlers /\ h.at = "requeueing" /\ h.task = t /\ h.left = op[u].left
    BY <1>3, <2>10 DEF Handlers, Steps
  <2>12. op' = [op EXCEPT ![u] = h]
    BY <1>3, <2>1, <2>10 DEF IInv, TypeOK, Handlers
  <2>13. Sound(h)'
    <3>1. \A pair \in h.left : Spawned(pair[2], pair[1])'
      BY <2>2, <2>6, <2>11
    <3>2. Spawned(s, t)' /\ sessions'[s].life # "live"
      BY <2>5, <2>6, <2>7, <2>8
    <3> QED BY <2>3, <2>8, <2>9, <2>11, <3>1, <3>2 DEF Sound
  <2>17. added' \in 0..MaxTask /\ tasks' \in [Tasks -> TaskRows] /\ spawned' \in 0..MaxSession
    BY <2>3 DEF IInv, TypeOK
  <2> QED BY <1>2, <1>3, <2>3, <2>6, <2>11, <2>12, <2>13, <2>17, HandlerKeeps
<1>6. CASE Requeue(u)
  <2>1. PICK t : t = op[u].task
    OBVIOUS
  <2>2. UpdateTask(t, "queued", None) /\ UNCHANGED <<employee, added, registry, quiet>>
        /\ At(u, "requeueing")
        /\ op' = [op EXCEPT ![u].at = "stopping",
                            ![u].left = {pair \in @ : pair[1] # op[u].task}]
    BY <1>6, <2>1 DEF Requeue
  <2>3. t \in Tasks
    BY <1>3, <2>1, <2>2 DEF Sound, At
  <2>4. PICK h : h = [op[u] EXCEPT !.at = "stopping",
                                   !.left = {pair \in op[u].left : pair[1] # op[u].task}]
    OBVIOUS
  <2>5. h \in Handlers /\ h.at = "stopping" /\ h.left \subseteq op[u].left
    BY <1>3, <2>4 DEF Handlers, Steps
  <2>6. op' = [op EXCEPT ![u] = h]
    BY <1>3, <2>2, <2>4 DEF IInv, TypeOK, Handlers
  <2>7. Table' /\ Grows /\ \A v \in Tasks : tasks[v].status = "new" => tasks'[v].status = "new"
    BY <2>2, <2>3, UpdateHolds DEF IInv
  <2>8. tasks' \in [Tasks -> TaskRows]
    BY <2>2, <2>3, UpdateKeeps DEF IInv
  <2>9. Sound(h)'
    BY <1>3, <2>2, <2>5 DEF Sound, At, Spawned
  <2>10. added' \in 0..MaxTask /\ spawned' \in 0..MaxSession
        /\ sessions' \in [Sessions -> SessionNodes \cup {None}]
    BY <2>2 DEF IInv, TypeOK
  <2> QED BY <1>2, <1>3, <2>2, <2>5, <2>6, <2>7, <2>8, <2>9, <2>10, HandlerKeeps
<1> QED BY <1>4, <1>5, <1>6

LEMMA EditKeeps ==
    ASSUME IInv, NEW u \in Users, UpdateNode(u)
    PROVE  IInv'
<1>1. op[u] # Idle
  BY DEF UpdateNode, At, Idle
<1>2. row \in Employees
  BY <1>1, AtWork
<1>3. node' \in Settings \cup {None} /\ saving' = saving /\ quiet \in BOOLEAN
  BY DEF IInv, TypeOK, UpdateNode, At, Sound
<1> QED BY <1>2, <1>3, IdleSound, PlaceKeeps DEF UpdateNode, Ends

-----------------------------------------------------------------------------
\* The steps of others.

LEMMA HandlersRest ==
    ASSUME IInv, op' = op, Grows, TypeOK', Table', Employed',
           \A t \in Tasks : tasks[t].status = "new" => tasks'[t].status = "new"
    PROVE  IInv'
<1>1. ASSUME NEW v \in Users PROVE Sound(op[v])'
  <2>1. PICK h \in Handlers : h = op[v]
    BY DEF IInv, TypeOK
  <2>2. Sound(h)
    BY <2>1 DEF IInv
  <2>3. h.at = "creating" => tasks'[h.task].status = "new"
    BY <2>2 DEF Sound, IInv, TypeOK, Tasks
  <2>4. Sound(h)'
    BY <2>2, <2>3, SoundStays DEF IInv
  <2> QED BY <2>1, <2>4 DEF Sound, Spawned
<1>2. Creators'
  BY DEF IInv, Creators, At
<1> QED BY <1>1, <1>2 DEF IInv

LEMMA OthersKeep ==
    ASSUME IInv,
           \/ \E settings \in Settings : Hire(settings)
           \/ \E status \in Statuses : SetStatus(status)
           \/ AgentSaves \/ SaveFails
           \/ \E status \in Statuses : AgentSaved(status)
           \/ UNCHANGED vars
    PROVE  IInv'
<1>1. UNCHANGED <<queue, registry, op, node>> /\ quiet' \in BOOLEAN
      /\ saving' \in {saving, node, None}
  BY DEF IInv, TypeOK, Hire, SetStatus, AgentSaves, AgentSaved, SaveFails, vars
<1>2. row' = row \/ row' \in Employees
  BY DEF IInv, TypeOK, Hire, SetStatus, AgentSaves, AgentSaved, SaveFails, vars, Employees,
     Statuses
<1>3. Grows /\ Table'
  BY <1>1, UnchangedGrows, UnchangedTable DEF IInv
<1>4. TypeOK'
  BY <1>1, <1>2 DEF IInv, TypeOK
<1>5. Employed'
  BY <1>1, <1>2, NoneAssumption DEF IInv, Employed, Resting
<1> QED BY <1>1, <1>3, <1>4, <1>5, HandlersRest

LEMMA DeleteKeeps ==
    ASSUME IInv, NEW t \in Tasks, DeleteTask(t)
    PROVE  IInv'
<1>1. /\ tasks' \in [Tasks -> TaskRows]
      /\ tasks'[t].status = "deleted" /\ tasks[t].status # "new"
      /\ \A v \in Tasks : v # t => tasks'[v] = tasks[v]
  BY DEF DeleteTask, IInv, TypeOK, TaskRows, InTable
<1>2. UNCHANGED <<employee, added, registry, op, quiet>>
  BY DEF DeleteTask
<1>3. Grows
  BY <1>1, <1>2 DEF Grows, IInv, TypeOK
<1>4. TypeOK' /\ Employed'
  BY <1>1, <1>2 DEF IInv, TypeOK, Employed, Resting
<1>5. \A s \in Sessions : sessions[s] # None => sessions[s].task \in Tasks
  BY DEF IInv, TypeOK, SessionNodes
<1>6. Table'
  BY <1>1, <1>2, <1>5 DEF IInv, Table, Spawned
<1> QED BY <1>1, <1>2, <1>3, <1>4, <1>6, HandlersRest

LEMMA SessionKeeps ==
    ASSUME IInv, NEW s \in Sessions, SessionEnds(s) \/ SessionRestarts(s)
    PROVE  IInv'
<1>1. Age
  BY SessionEndsAges DEF IInv
<1>2. UNCHANGED <<employee, queue, spawned, op, quiet>>
  BY DEF SessionEnds, SessionRestarts
<1>3. Grows /\ Table'
  BY <1>1, <1>2, AgeKeeps DEF IInv
<1>4. TypeOK' /\ Employed'
  BY <1>1, <1>2 DEF IInv, TypeOK, Employed, Resting, Age
<1> QED BY <1>2, <1>3, <1>4, HandlersRest

LEMMA RestartKeeps ==
    ASSUME IInv, NEW back \in SUBSET Sessions, ServerRestarts(back)
    PROVE  IInv'
<1>1. Age
  BY RestartAges DEF IInv
<1>2. row \in Employees /\ row' = row /\ op' = [u \in Users |-> Idle] /\ saving' = None
      /\ node' \in Settings \cup {None} /\ UNCHANGED <<queue, spawned>>
  BY DEF ServerRestarts, IInv, TypeOK, Employees
<1>3. Table'
  BY <1>1, <1>2, AgeKeeps DEF IInv
<1>4. quiet' \in BOOLEAN
  BY DEF ServerRestarts, IInv, TypeOK
<1>5. TypeOK'
  BY <1>1, <1>2, <1>4, IdleSound DEF IInv, TypeOK, Age
<1>6. Employed' /\ Creators'
  BY <1>2, NoneAssumption DEF Employed, Creators, At, Idle
<1>7. ASSUME NEW u \in Users PROVE Sound(op[u])'
  BY <1>2 DEF Sound, Idle
<1> QED BY <1>3, <1>5, <1>6, <1>7 DEF IInv

LEMMA StepKeeps == IInv /\ [Next]_vars => IInv'
<1> SUFFICES ASSUME IInv, [Next]_vars PROVE IInv'
  OBVIOUS
<1>1. ASSUME NEW u \in Users,
             Submission(u) \/ Starting(u) \/ StoppingTasks(u) \/ Editing(u) \/ Fails(u)
      PROVE  IInv'
  BY <1>1, BeginKeeps, SubmissionKeeps, StartingKeeps, StoppingKeeps, EditKeeps, EndKeeps
     DEF Submission, Starting, StoppingTasks, Editing
<1> QED
  BY <1>1, OthersKeep, DeleteKeeps, SessionKeeps, RestartKeeps DEF Next

\* Whatever handlers overlap, fail or are out of date (team.py, db.py): variables
\* have their types, and every handler at work may rely on what it read before it
\* gave way, as far as Sound says.
THEOREM Invariance == Spec => []IInv
BY InitHolds, StepKeeps, PTL DEF Spec

\* Rows, agents and handlers are of the shapes db.py, registry.py and team.py give.
THEOREM TypeCorrect == Spec => []TypeOK
<1>1. IInv => TypeOK
  BY DEF IInv
<1> QED BY <1>1, Invariance, PTL

-----------------------------------------------------------------------------
\* The promise.

Status == [t \in Tasks |-> tasks[t].status]
WorksOn == [s \in Sessions |-> IF sessions[s] = None THEN None ELSE sessions[s].task]
Gone == {s \in Sessions : sessions[s] # None /\ sessions[s].life # "live"}

\* What TaskPromise calls status, worksOn and ended is Status, WorksOn and Gone.
Becomes(t, status) ==
    Status' = [Status EXCEPT ![t] = status] /\ WorksOn' = WorksOn /\ Gone' = Gone

LEMMA PromiseSteps ==
    /\ \A t \in Tasks : Status[t] = "new" /\ Becomes(t, "queued") => Promise!Next
    /\ \A t \in Tasks : Status[t] = "queued" /\ (\E s \in Sessions : WorksOn[s] = t)
                           /\ Becomes(t, "active") => Promise!Next
    /\ \A t \in Tasks : Status[t] = "active" /\ (\E s \in Gone : WorksOn[s] = t)
                           /\ Becomes(t, "queued") => Promise!Next
    /\ \A t \in Tasks : Status[t] \in {"queued", "active"} /\ Becomes(t, "deleted")
                           => Promise!Next
    /\ \A t \in Tasks, s \in Sessions :
          WorksOn[s] = None /\ Status[t] # "new" /\ WorksOn' = [WorksOn EXCEPT ![s] = t]
              /\ Status' = Status /\ Gone' = Gone => Promise!Next
    /\ \A lost \in SUBSET Sessions :
          (\A s \in lost : WorksOn[s] # None) /\ Gone' = Gone \cup lost
              /\ Status' = Status /\ WorksOn' = WorksOn => Promise!Next
BY DEF Promise!Next, Promise!Add, Promise!Activate, Promise!Requeue,
       Promise!Delete, Promise!Hire, Promise!End, Status, WorksOn, Gone, Becomes

Promised == [Promise!Next]_(Promise!vars)

LEMMA Unseen ==
    ASSUME Status' = Status, WorksOn' = WorksOn, Gone' = Gone
    PROVE  Promised
BY DEF Promised, Promise!vars, Status, WorksOn, Gone

LEMMA NothingSeen ==
    ASSUME UNCHANGED <<tasks, sessions>>
    PROVE  Promised
BY Unseen DEF Status, WorksOn, Gone

\* A task whose status changes, and no session does.
LEMMA StatusChanges ==
    ASSUME TypeOK, NEW t \in Tasks, NEW status, sessions' = sessions,
           tasks' \in [Tasks -> TaskRows], tasks'[t].status = status,
           \A v \in Tasks : v # t => tasks'[v] = tasks[v]
    PROVE  Becomes(t, status)
BY DEF Becomes, Status, WorksOn, Gone

LEMMA UpdatePromised ==
    ASSUME TypeOK, NEW t \in Tasks, NEW status \in {"queued", "active"},
           NEW session \in Sessions \cup {None}, UpdateTask(t, status, session),
           sessions' = sessions,
           status = "active" => \E s \in Sessions : WorksOn[s] = t,
           status = "queued" => \E s \in Gone : WorksOn[s] = t
    PROVE  Promised
<1>1. /\ tasks' \in [Tasks -> TaskRows]
      /\ \A v \in Tasks : v # t => tasks'[v] = tasks[v]
      /\ ~InTable(t) => tasks'[t] = tasks[t]
      /\ InTable(t) => tasks'[t].status = status
  BY UpdateKeeps
<1>2. CASE InTable(t) /\ tasks[t].status # status
  <2>1. Becomes(t, status)
    BY <1>1, <1>2, StatusChanges
  <2>2. Status[t] = tasks[t].status /\ Status[t] \in {"queued", "active"}
    BY <1>2 DEF Status, InTable
  <2> QED BY <1>2, <2>1, <2>2, PromiseSteps DEF Promised
<1>3. CASE tasks'[t].status = tasks[t].status
  <2>1. Status' = Status
    BY <1>1, <1>3 DEF Status
  <2>2. WorksOn' = WorksOn /\ Gone' = Gone
    BY DEF WorksOn, Gone
  <2> QED BY <2>1, <2>2, Unseen
<1> QED BY <1>1, <1>2, <1>3

LEMMA AgePromised ==
    ASSUME TypeOK, Age, UNCHANGED tasks
    PROVE  Promised
<1>1. Gone \subseteq Gone'
  BY DEF Age, Gone
<1>2. PICK lost \in SUBSET Sessions : lost = Gone'
  BY DEF Gone
<1>3. WorksOn' = WorksOn
  BY DEF Age, WorksOn
<1>4. Gone' = Gone \cup lost
  BY <1>1, <1>2
<1>5. Status' = Status
  BY DEF Status
<1>6. \A s \in lost : sessions[s] # None /\ sessions[s] \in SessionNodes
  BY <1>2 DEF Age, Gone, TypeOK
<1>7. \A s \in lost : sessions[s].task # None
  BY <1>6, NoneAssumption DEF SessionNodes, Tasks
<1>8. \A s \in lost : WorksOn[s] # None
  BY <1>6, <1>7 DEF WorksOn
<1> QED BY <1>3, <1>4, <1>5, <1>8, PromiseSteps DEF Promised

LEMMA HandlerPromised ==
    ASSUME IInv, NEW u \in Users,
           Submission(u) \/ Starting(u) \/ StoppingTasks(u) \/ Editing(u) \/ Fails(u)
    PROVE  Promised
<1> USE DEF IInv
<1>1. CASE CreateTask(u)
  <2>1. PICK t : t = op[u].task
    OBVIOUS
  <2>2. t \in Tasks /\ tasks[t].status = "new"
    BY <1>1, <2>1 DEF CreateTask, TypeOK, Sound, At, Tasks
  <2>3. tasks' = [tasks EXCEPT ![t] = [status |-> "queued", session |-> None]]
        /\ sessions' = sessions
    BY <1>1, <2>1 DEF CreateTask
  <2>4. tasks' \in [Tasks -> TaskRows] /\ tasks'[t].status = "queued"
        /\ \A v \in Tasks : v # t => tasks'[v] = tasks[v]
    BY <2>2, <2>3 DEF TypeOK, TaskRows
  <2>5. Becomes(t, "queued")
    BY <2>2, <2>3, <2>4, StatusChanges
  <2> QED BY <2>2, <2>5, PromiseSteps DEF Promised, Status
<1>2. CASE SpawnSession(u)
  <2>1. PICK t, s : t = op[u].task /\ s = spawned + 1
    OBVIOUS
  <2>2. t \in Tasks /\ tasks[t].status # "new"
    BY <1>2, <2>1 DEF SpawnSession, Sound, At
  <2>3. s \in Sessions /\ sessions[s] = None
    BY <1>2, <2>1 DEF SpawnSession, TypeOK, Sessions, Table
  <2>4. sessions' = [sessions EXCEPT ![s] = [task |-> t, life |-> "live"]] /\ tasks' = tasks
    BY <1>2, <2>1 DEF SpawnSession
  <2>5. [task |-> t, life |-> "live"] # None
    <3>1. [task |-> t, life |-> "live"] \in SessionNodes
      BY <2>2 DEF SessionNodes
    <3> QED BY <3>1, NoneAssumption
  <2>6. sessions'[s] = [task |-> t, life |-> "live"] /\ sessions'[s] # None
        /\ \A r \in Sessions : r # s => sessions'[r] = sessions[r]
    BY <2>3, <2>4, <2>5 DEF TypeOK
  <2>7. WorksOn' = [WorksOn EXCEPT ![s] = t]
    <3>1. \A r \in Sessions : WorksOn'[r] = IF r = s THEN t ELSE WorksOn[r]
      BY <2>3, <2>6 DEF WorksOn
    <3> QED BY <3>1 DEF WorksOn
  <2>8. Gone' = Gone
    BY <2>3, <2>6 DEF Gone
  <2>9. Status' = Status
    BY <2>4 DEF Status
  <2>10. WorksOn[s] = None /\ Status[t] # "new"
    BY <2>2, <2>3 DEF WorksOn, Status
  <2> QED BY <2>2, <2>3, <2>7, <2>8, <2>9, <2>10, PromiseSteps DEF Promised
<1>3. CASE MarkActive(u)
  <2>1. PICK t, s : t = op[u].task /\ s = op[u].session
    OBVIOUS
  <2>2. UpdateTask(t, "active", s) /\ sessions' = sessions /\ t \in Tasks /\ Spawned(s, t)
    BY <1>3, <2>1 DEF MarkActive, Sound, At
  <2>3. s \in Sessions /\ WorksOn[s] = t
    BY <2>2 DEF Spawned, WorksOn
  <2> QED BY <2>2, <2>3, UpdatePromised
<1>4. CASE Requeue(u)
  <2>1. PICK t : t = op[u].task
    OBVIOUS
  <2>2. UpdateTask(t, "queued", None) /\ sessions' = sessions /\ t \in Tasks
    BY <1>4, <2>1 DEF Requeue, Sound, At
  <2>3. PICK s \in Sessions : Spawned(s, t) /\ sessions[s].life # "live"
    BY <1>4, <2>1 DEF Requeue, Sound, At
  <2>4. s \in Gone /\ WorksOn[s] = t
    BY <2>3 DEF Spawned, Gone, WorksOn
  <2> QED BY <2>2, <2>4, UpdatePromised
<1>5. CASE TerminateSession(u)
  <2>1. PICK t \in Tasks :
           sessions' = [s \in Sessions |->
                          IF <<t, s>> \in op[u].left THEN Terminated(sessions[s])
                          ELSE sessions[s]]
    BY <1>5 DEF TerminateSession
  <2>2. \A s \in Sessions : <<t, s>> \in op[u].left => sessions[s] # None
    BY <1>5 DEF TerminateSession, At, Sound, Spawned
  <2>3. UNCHANGED tasks
    BY <1>5 DEF TerminateSession
  <2> QED BY <2>1, <2>2, <2>3, TerminateAges, AgePromised
<1>6. CASE ~CreateTask(u) /\ ~SpawnSession(u) /\ ~MarkActive(u) /\ ~Requeue(u)
           /\ ~TerminateSession(u)
  <2>1. UNCHANGED <<tasks, sessions>>
    BY <1>6 DEF Submission, Starting, StoppingTasks, Editing, Fails, SubmitTask, ListActive,
         StartButton, PickQueued, SpawnRefused, ReadEmployee, SaveEmployee, StopButton,
         CollectActive, AllStopped, UpdateNode, SaveChanges
  <2> QED BY <2>1, NothingSeen
<1> QED BY <1>1, <1>2, <1>3, <1>4, <1>5, <1>6

\* The tasks table implements TaskPromise: what a reader of the table sees is as
\* if tasks and sessions changed one at a time (team.py, db.py).
THEOREM Refinement == Spec => KeepsTaskPromise
<1>1. Init => Promise!Init
  BY DEF Init, Promise!Init
<1>2. IInv /\ [Next]_vars => Promised
  <2> SUFFICES ASSUME IInv, [Next]_vars PROVE Promised
    OBVIOUS
  <2>1. ASSUME NEW t \in Tasks, DeleteTask(t) PROVE Promised
    <3>1. /\ tasks' \in [Tasks -> TaskRows] /\ sessions' = sessions
          /\ tasks'[t].status = "deleted" /\ tasks[t].status \in {"queued", "active"}
          /\ \A v \in Tasks : v # t => tasks'[v] = tasks[v]
      BY <2>1 DEF DeleteTask, IInv, TypeOK, TaskRows, InTable
    <3>2. Becomes(t, "deleted")
      BY <3>1, StatusChanges DEF IInv
    <3> QED BY <3>1, <3>2, PromiseSteps DEF Promised, Status
  <2>2. ASSUME NEW s \in Sessions, SessionEnds(s) \/ SessionRestarts(s) PROVE Promised
    <3>1. UNCHANGED tasks
      BY <2>2 DEF SessionEnds, SessionRestarts
    <3> QED BY <2>2, <3>1, SessionEndsAges, AgePromised DEF IInv
  <2>3. ASSUME NEW back \in SUBSET Sessions, ServerRestarts(back) PROVE Promised
    <3>1. UNCHANGED tasks
      BY <2>3 DEF ServerRestarts
    <3> QED BY <2>3, <3>1, RestartAges, AgePromised DEF IInv
  <2>4. CASE \/ \E settings \in Settings : Hire(settings)
             \/ \E status \in Statuses : SetStatus(status)
             \/ AgentSaves \/ SaveFails
             \/ \E status \in Statuses : AgentSaved(status)
             \/ UNCHANGED vars
    <3>1. UNCHANGED <<tasks, sessions>>
      BY <2>4 DEF Hire, SetStatus, AgentSaves, AgentSaved, SaveFails, vars
    <3> QED BY <3>1, NothingSeen
  <2> QED BY <2>1, <2>2, <2>3, <2>4, HandlerPromised DEF Next
<1> QED BY <1>1, <1>2, Invariance, PTL DEF Promised, Spec, KeepsTaskPromise, Promise!Spec

-----------------------------------------------------------------------------
\* One handler at a time.

\* What a handler read is still so, as long as no other came between.
Fresh(h) ==
    /\ h.at \in {"spawning", "marking"} =>
          /\ tasks[h.task].status \in {"queued", "deleted"}
          /\ \A v \in 1..(h.task - 1) : v \notin With("queued")
    /\ h.at \in {"stopping", "requeueing"} =>
          \A pair \in h.left :
             \/ tasks[pair[1]].status = "deleted"
             \/ tasks[pair[1]].status = "active" /\ tasks[pair[1]].session = pair[2]
    /\ h.at = "requeueing" =>
          \A s \in Sessions : NeverEnded(s) /\ sessions[s].task = h.task => ~InTable(h.task)
    /\ h.at = "editing" => row.settings = h.settings
    /\ h.at = "saving" => row.settings = h.copy.settings

Copies == node # None /\ (\A u \in Users : ~At(u, "editing")) => row.settings = node

\* A save has the settings of the agent, and no handler runs beside it.
Pending == saving # None => saving = node /\ \A u \in Users : op[u] = Idle

Calm ==
    quiet =>
        /\ \A u, v \in Users : op[u] # Idle /\ op[v] # Idle => u = v
        /\ \A u \in Users : Fresh(op[u])
        /\ Copies
        /\ Pending
        /\ NoStrayWork

CInv == IInv /\ Calm

LEMMA CalmInit == Init => Calm
BY DEF Init, Calm, Fresh, Copies, Pending, NoStrayWork, Idle, NeverEnded

\* A step of a handler that is the only one.
LEMMA CalmStep ==
    ASSUME IInv, Calm, NEW u \in Users, NEW h, op' = [op EXCEPT ![u] = h], saving' = saving,
           quiet' => quiet /\ (op[u] # Idle \/ Resting),
           quiet' => Fresh(h)' /\ Copies' /\ NoStrayWork'
    PROVE  Calm'
<1> SUFFICES ASSUME quiet'
             PROVE  /\ \A v, w \in Users : op'[v] # Idle /\ op'[w] # Idle => v = w
                    /\ \A v \in Users : Fresh(op[v])'
                    /\ Pending'
  BY DEF Calm
<1>1. op'[u] = h /\ \A v \in Users : v # u => op'[v] = op[v]
  BY DEF IInv, TypeOK
<1>2. \A v \in Users : v # u => op[v] = Idle
  BY DEF Calm, Resting
<1>3. ASSUME NEW v \in Users PROVE Fresh(op[v])'
  <2>1. CASE v = u
    BY <1>1, <2>1 DEF Fresh, NeverEnded, InTable, With
  <2>2. CASE v # u
    BY <1>1, <1>2, <2>2 DEF Fresh, Idle
  <2> QED BY <2>1, <2>2
<1>4. saving = None
  BY DEF Calm, Pending, Resting
<1> QED BY <1>1, <1>2, <1>3, <1>4 DEF Pending

\* ... that leaves tasks and sessions alone, and was not about to name one.
LEMMA CalmPlace ==
    ASSUME IInv, Calm, NEW u \in Users, NEW h, op' = [op EXCEPT ![u] = h],
           UNCHANGED <<saving, tasks, sessions>>,
           quiet' => quiet /\ (op[u] # Idle \/ Resting),
           quiet' /\ At(u, "marking") => FALSE,
           quiet' => Fresh(h)' /\ Copies'
    PROVE  Calm'
<1>1. ASSUME quiet' PROVE NoStrayWork'
  <2>1. \A v \in Users : ~At(v, "marking")
    BY <1>1 DEF Calm, Resting, At, Idle
  <2> QED BY <1>1, <2>1 DEF Calm, NoStrayWork, AboutToBeNamed, NeverEnded, InTable
<1> QED BY <1>1, CalmStep

LEMMA CalmBegin ==
    ASSUME IInv, Calm, NEW u \in Users,
           \/ SubmitTask(u) \/ StartButton(u) \/ StopButton(u)
           \/ \E settings \in Settings : SaveChanges(u, settings)
    PROVE  Calm'
<1>1. /\ UNCHANGED <<tasks, sessions, node, saving>>
      /\ quiet' => quiet /\ Resting
      /\ op[u] = Idle
  BY DEF SubmitTask, StartButton, StopButton, SaveChanges, Begin
<1>2. ~At(u, "marking")
  BY <1>1 DEF At, Idle
<1>3. Resting => \A v \in Users : ~At(v, "editing")
  BY DEF Resting, At, Idle
<1>4. ASSUME NEW h, op' = [op EXCEPT ![u] = h], row' = row,
             h.at \in {"creating", "picking", "collecting"}
      PROVE  Calm'
  <2>1. Fresh(h)'
    BY <1>4 DEF Fresh
  <2>2. quiet' => Copies'
    BY <1>1, <1>3, <1>4 DEF Calm, Copies, At, IInv, TypeOK
  <2> QED BY <1>1, <1>2, <1>4, <2>1, <2>2, CalmPlace
<1>5. CASE SubmitTask(u)
  <2>1. PICK h : h = [Idle EXCEPT !.at = "creating", !.task = added + 1]
    OBVIOUS
  <2>2. op' = [op EXCEPT ![u] = h] /\ row' = row
    BY <1>5, <2>1 DEF SubmitTask, Begin
  <2> QED BY <1>4, <2>1, <2>2 DEF Idle
<1>6. CASE StartButton(u)
  <2>1. PICK h : h = [Idle EXCEPT !.at = "picking"]
    OBVIOUS
  <2>2. op' = [op EXCEPT ![u] = h] /\ row' = row
    BY <1>6, <2>1 DEF StartButton, Begin
  <2> QED BY <1>4, <2>1, <2>2 DEF Idle
<1>7. CASE StopButton(u)
  <2>1. PICK h : h = [Idle EXCEPT !.at = "collecting"]
    OBVIOUS
  <2>2. op' = [op EXCEPT ![u] = h] /\ row' = row
    BY <1>7, <2>1 DEF StopButton, Begin
  <2> QED BY <1>4, <2>1, <2>2 DEF Idle
<1>8. ASSUME NEW settings \in Settings, SaveChanges(u, settings)
      PROVE  Calm'
  <2>1. PICK h : h = [Idle EXCEPT !.at = "editing", !.settings = settings]
    OBVIOUS
  <2>2. op' = [op EXCEPT ![u] = h] /\ row' = [status |-> "kept", settings |-> settings]
    BY <1>8, <2>1 DEF SaveChanges, Begin
  <2>3. h.at = "editing" /\ h.settings = settings
    BY <2>1 DEF Idle
  <2>4. Fresh(h)'
    BY <2>2, <2>3 DEF Fresh
  <2>5. op'[u] = h
    BY <2>2 DEF IInv, TypeOK
  <2>6. Copies'
    BY <2>3, <2>5 DEF Copies, At
  <2> QED BY <1>1, <1>2, <2>2, <2>4, <2>6, CalmPlace
<1> QED BY <1>5, <1>6, <1>7, <1>8

\* A handler at work that is not editing, and keeps the settings as they are.
LEMMA CopiesStay ==
    ASSUME IInv, Calm, quiet, NEW u \in Users, op[u] # Idle, ~At(u, "editing"),
           node' = node, row'.settings = row.settings
    PROVE  Copies'
BY DEF Calm, Copies, At, Idle

LEMMA CalmEnd ==
    ASSUME IInv, Calm, NEW u \in Users, SpawnRefused(u) \/ AllStopped(u) \/ Fails(u)
    PROVE  Calm'
<1>1. CASE Fails(u)
  BY <1>1 DEF Fails, Calm
<1>2. CASE SpawnRefused(u) \/ AllStopped(u)
  <2>1. /\ op' = [op EXCEPT ![u] = Idle] /\ UNCHANGED <<employee, queue, registry, quiet>>
        /\ op[u] # Idle /\ ~At(u, "editing") /\ ~At(u, "marking")
    BY <1>2 DEF SpawnRefused, AllStopped, Ends, At, Idle
  <2>2. Fresh(Idle)'
    BY DEF Fresh, Idle
  <2>3. quiet' => Copies'
    BY <2>1, CopiesStay
  <2> QED BY <2>1, <2>2, <2>3, CalmPlace
<1> QED BY <1>1, <1>2

LEMMA CalmSubmission ==
    ASSUME IInv, Calm, NEW u \in Users, CreateTask(u) \/ ListActive(u)
    PROVE  Calm'
<1>1. /\ op[u] # Idle /\ ~At(u, "editing") /\ ~At(u, "marking")
      /\ quiet' = quiet /\ UNCHANGED <<employee, sessions>>
  BY DEF CreateTask, ListActive, At, Idle
<1>2. quiet' => Copies'
  BY <1>1, CopiesStay
<1>3. PICK h : h \in Handlers /\ op' = [op EXCEPT ![u] = h] /\ h.at \in {"listing", "picking", "idle"}
  <2>1. Goes(u, "listing") \/ Goes(u, "picking") \/ Ends(u)
    BY DEF CreateTask, ListActive
  <2> QED BY <2>1, GoesOn, IdleSound DEF IInv, Steps, Ends
<1>4. Fresh(h)'
  BY <1>3 DEF Fresh
<1>5. CASE ListActive(u)
  <2>1. UNCHANGED <<tasks, sessions>>
    BY <1>5 DEF ListActive
  <2> QED BY <1>1, <1>2, <1>3, <1>4, <2>1, CalmPlace
<1>6. CASE CreateTask(u)
  <2>1. PICK t : t = op[u].task
    OBVIOUS
  <2>2. t \in Tasks /\ tasks[t].status = "new"
    BY <1>6, <2>1 DEF CreateTask, IInv, TypeOK, Sound, At, Tasks
  <2>3. \A v \in Tasks : v # t => tasks'[v] = tasks[v]
    BY <1>6, <2>1, <2>2 DEF CreateTask, IInv, TypeOK
  <2>4. ASSUME quiet' PROVE NoStrayWork'
    <3>1. SUFFICES ASSUME NEW s \in Sessions, NeverEnded(s), InTable(sessions[s].task)'
                   PROVE  /\ tasks'[sessions[s].task].status = "active"
                          /\ tasks'[sessions[s].task].session = s
      BY <1>1 DEF NoStrayWork, AboutToBeNamed, NeverEnded
    <3>2. sessions[s].task \in Tasks /\ tasks[sessions[s].task].status # "new"
      BY <3>1 DEF NeverEnded, IInv, TypeOK, SessionNodes, Table
    <3>3. tasks'[sessions[s].task] = tasks[sessions[s].task]
      BY <2>2, <2>3, <3>2
    <3>4. InTable(sessions[s].task)
      BY <1>1, <3>1, <3>3 DEF InTable
    <3>5. \A v \in Users : ~At(v, "marking")
      BY <1>1, <2>4 DEF Calm, At, Idle
    <3> QED BY <1>1, <2>4, <3>1, <3>3, <3>4, <3>5 DEF Calm, NoStrayWork, AboutToBeNamed
  <2> QED BY <1>1, <1>2, <1>3, <1>4, <2>4, CalmStep
<1> QED BY <1>5, <1>6

LEMMA CalmStarting ==
    ASSUME IInv, Calm, NEW u \in Users,
           PickQueued(u) \/ SpawnSession(u) \/ ReadEmployee(u) \/ SaveEmployee(u)
    PROVE  Calm'
<1>1. /\ op[u] # Idle /\ ~At(u, "editing") /\ ~At(u, "marking")
      /\ quiet' = quiet /\ tasks' = tasks /\ node' = node /\ saving' = saving
      /\ op[u] \in Handlers
  BY DEF PickQueued, SpawnSession, ReadEmployee, SaveEmployee, At, Idle, IInv, TypeOK
<1>2. quiet => Fresh(op[u])
  BY DEF Calm
<1>3. CASE PickQueued(u)
  <2>1. UNCHANGED <<employee, sessions>>
    BY <1>3 DEF PickQueued
  <2>2. quiet' => Copies'
    BY <1>1, <2>1, CopiesStay
  <2>3. CASE Ends(u)
    <3>1. Fresh(Idle)'
      BY DEF Fresh, Idle
    <3> QED BY <1>1, <2>1, <2>2, <2>3, <3>1, CalmPlace DEF Ends
  <2>4. CASE ~Ends(u)
    <3>1. PICK t \in Tasks : /\ Oldest(t, With("queued"))
                             /\ op' = [op EXCEPT ![u].at = "spawning", ![u].task = t]
      BY <1>3, <2>4 DEF PickQueued
    <3>2. PICK h : h = [op[u] EXCEPT !.at = "spawning", !.task = t]
      OBVIOUS
    <3>3. h.at = "spawning" /\ h.task = t
      BY <1>1, <3>2 DEF Handlers
    <3>4. op' = [op EXCEPT ![u] = h]
      BY <1>1, <3>1, <3>2 DEF IInv, TypeOK, Handlers
    <3>5. tasks[t].status = "queued" /\ \A v \in With("queued") : t <= v
      BY <3>1 DEF Oldest, With
    <3>6. \A v \in 1..(t - 1) : v \notin With("queued")
      BY <3>5 DEF Tasks
    <3>7. Fresh(h)'
      BY <1>1, <3>3, <3>5, <3>6 DEF Fresh, With
    <3> QED BY <1>1, <2>1, <2>2, <3>4, <3>7, CalmPlace
  <2> QED BY <2>3, <2>4
<1>4. CASE SpawnSession(u)
  <2>1. PICK t, s : t = op[u].task /\ s = spawned + 1
    OBVIOUS
  <2>2. At(u, "spawning") /\ UNCHANGED employee
        /\ sessions' = [sessions EXCEPT ![s] = [task |-> t, life |-> "live"]]
        /\ op' = [op EXCEPT ![u].at = "marking", ![u].session = s]
    BY <1>4, <2>1 DEF SpawnSession
  <2>3. s \in Sessions
    BY <1>4, <2>1 DEF SpawnSession, IInv, TypeOK, Sessions
  <2>4. PICK h : h = [op[u] EXCEPT !.at = "marking", !.session = s]
    OBVIOUS
  <2>5. h.at = "marking" /\ h.task = t /\ h.session = s
    BY <1>1, <2>1, <2>4 DEF Handlers
  <2>6. op' = [op EXCEPT ![u] = h]
    BY <1>1, <2>2, <2>4 DEF IInv, TypeOK, Handlers
  <2>7. quiet' => Fresh(h)'
    BY <1>1, <1>2, <2>1, <2>2, <2>5 DEF Fresh, At, With
  <2>8. quiet' => Copies'
    BY <1>1, <2>2, CopiesStay
  <2>9. ASSUME quiet' PROVE NoStrayWork'
    <3> SUFFICES ASSUME NEW r \in Sessions, NeverEnded(r)', InTable(sessions'[r].task)
                 PROVE  LET v == sessions'[r].task
                        IN  \/ tasks[v].status = "active" /\ tasks[v].session = r
                            \/ \E w \in Users : op'[w].at = "marking" /\ op'[w].session = r
      BY <1>1 DEF NoStrayWork, AboutToBeNamed, At, InTable
    <3>1. CASE r = s
      <4>1. op'[u] = h
        BY <2>6 DEF IInv, TypeOK
      <4> QED BY <2>5, <3>1, <4>1
    <3>2. CASE r # s
      <4>1. sessions'[r] = sessions[r]
        BY <2>2, <3>2 DEF IInv, TypeOK
      <4>2. NeverEnded(r)
        BY <4>1 DEF NeverEnded
      <4>3. \A v \in Users : ~At(v, "marking")
        BY <1>1, <2>9 DEF Calm, At, Idle
      <4> QED BY <1>1, <2>9, <4>1, <4>2, <4>3 DEF Calm, NoStrayWork, AboutToBeNamed
    <3> QED BY <3>1, <3>2
  <2> QED BY <1>1, <2>6, <2>7, <2>8, <2>9, CalmStep
<1>5. CASE ReadEmployee(u)
  <2>1. PICK h : h = [op[u] EXCEPT !.at = "saving", !.copy = row]
    OBVIOUS
  <2>2. h.at = "saving" /\ h.copy = row
    BY <1>1, <2>1 DEF Handlers
  <2>3. op' = [op EXCEPT ![u] = h] /\ UNCHANGED <<employee, sessions>>
    BY <1>1, <1>5, <2>1 DEF ReadEmployee, IInv, TypeOK, Handlers
  <2>4. Fresh(h)'
    BY <2>2, <2>3 DEF Fresh
  <2>5. quiet' => Copies'
    BY <1>1, <2>3, CopiesStay
  <2> QED BY <1>1, <2>3, <2>4, <2>5, CalmPlace
<1>6. CASE SaveEmployee(u)
  <2>1. row' = op[u].copy /\ op' = [op EXCEPT ![u] = Idle] /\ sessions' = sessions
    BY <1>6 DEF SaveEmployee, Ends
  <2>2. quiet => row'.settings = row.settings
    BY <1>2, <1>6, <2>1 DEF SaveEmployee, Fresh, At
  <2>3. quiet' => Copies'
    BY <1>1, <2>2, CopiesStay
  <2>4. Fresh(Idle)'
    BY DEF Fresh, Idle
  <2> QED BY <1>1, <2>1, <2>3, <2>4, CalmPlace
<1> QED BY <1>3, <1>4, <1>5, <1>6

LEMMA CalmMark ==
    ASSUME IInv, Calm, NEW u \in Users, MarkActive(u)
    PROVE  Calm'
<1>1. /\ op[u] # Idle /\ ~At(u, "editing") /\ At(u, "marking") /\ Goes(u, "reading")
      /\ quiet' = quiet /\ UNCHANGED <<employee, sessions>>
  BY DEF MarkActive, At, Idle
<1>2. PICK h \in Handlers : op' = [op EXCEPT ![u] = h] /\ h.at = "reading"
  BY <1>1, GoesOn DEF IInv, Steps
<1>3. Fresh(h)'
  BY <1>2 DEF Fresh
<1>4. quiet' => Copies'
  BY <1>1, CopiesStay
<1>5. PICK t, s : t = op[u].task /\ s = op[u].session
  OBVIOUS
<1>6. t \in Tasks /\ Spawned(s, t) /\ s \in Sessions /\ s # None
  BY <1>1, <1>5, NoneAssumption DEF IInv, Sound, At, Spawned, Sessions
<1>7. /\ \A v \in Tasks : v # t => tasks'[v] = tasks[v]
      /\ ~InTable(t) => tasks'[t] = tasks[t]
      /\ InTable(t) => tasks'[t].status = "active" /\ tasks'[t].session = s
  <2>1. UpdateTask(t, "active", s)
    BY <1>5 DEF MarkActive
  <2> QED BY <1>6, <2>1, UpdateKeeps DEF IInv
<1>8. ASSUME quiet' PROVE NoStrayWork'
  <2> SUFFICES ASSUME NEW r \in Sessions, NeverEnded(r), InTable(sessions[r].task)'
               PROVE  tasks'[sessions[r].task].status = "active"
                      /\ tasks'[sessions[r].task].session = r
    BY <1>1 DEF NoStrayWork, AboutToBeNamed, NeverEnded
  <2>1. PICK v \in Tasks : v = sessions[r].task
    BY DEF NeverEnded, IInv, TypeOK, SessionNodes
  <2>2. InTable(v)
    BY <1>1, <1>6, <1>7, <2>1 DEF InTable
  <2>3. \/ tasks[v].status = "active" /\ tasks[v].session = r
        \/ r = s
    <3>1. \A w \in Users : w # u => op[w] = Idle
      BY <1>1, <1>8 DEF Calm
    <3>2. \A w \in Users : At(w, "marking") => w = u
      BY <3>1 DEF At, Idle
    <3> QED BY <1>1, <1>5, <1>8, <2>1, <2>2, <3>2 DEF Calm, NoStrayWork, AboutToBeNamed
  <2>4. CASE v = t
    <3>1. tasks[t].status # "active"
      BY <1>1, <1>5, <1>8 DEF Calm, Fresh, At
    <3> QED BY <1>7, <2>1, <2>2, <2>3, <2>4, <3>1
  <2>5. CASE v # t
    <3>1. r # s
      BY <1>6, <2>1, <2>5 DEF Spawned
    <3> QED BY <1>7, <2>1, <2>3, <2>5, <3>1
  <2> QED BY <2>4, <2>5
<1> QED BY <1>1, <1>2, <1>3, <1>4, <1>8, CalmStep

LEMMA CalmStopping ==
    ASSUME IInv, Calm, NEW u \in Users, CollectActive(u) \/ TerminateSession(u) \/ Requeue(u)
    PROVE  Calm'
<1>1. /\ op[u] # Idle /\ ~At(u, "editing") /\ ~At(u, "marking")
      /\ quiet' = quiet /\ UNCHANGED employee
      /\ op[u] \in Handlers
  BY DEF CollectActive, TerminateSession, Requeue, At, Idle, IInv, TypeOK
<1>2. quiet' => Copies'
  BY <1>1, CopiesStay
<1>3. quiet => \A w \in Users : ~At(w, "marking")
  BY <1>1 DEF Calm, At, Idle
<1>4. CASE CollectActive(u)
  <2>1. PICK left : left = {<<t, tasks[t].session>> : t \in With("active")}
    OBVIOUS
  <2>2. PICK h : h = [op[u] EXCEPT !.at = "stopping", !.left = left]
    OBVIOUS
  <2>3. h.at = "stopping" /\ h.left = left
    BY <1>1, <2>2 DEF Handlers
  <2>4. op' = [op EXCEPT ![u] = h] /\ UNCHANGED <<tasks, sessions>>
    BY <1>1, <1>4, <2>1, <2>2 DEF CollectActive, IInv, TypeOK, Handlers
  <2>5. Fresh(h)'
    BY <2>1, <2>3, <2>4 DEF Fresh, With
  <2> QED BY <1>1, <1>2, <2>4, <2>5, CalmPlace
<1>5. CASE TerminateSession(u)
  <2>1. PICK t \in Tasks :
           /\ FirstLeft(t, u)
           /\ sessions' = [s \in Sessions |->
                              IF <<t, s>> \in op[u].left THEN Terminated(sessions[s]) ELSE sessions[s]]
           /\ op' = [op EXCEPT ![u].at = "requeueing", ![u].task = t]
    BY <1>5 DEF TerminateSession
  <2>2. \A s \in Sessions : <<t, s>> \in op[u].left => sessions[s] # None
    BY <1>5 DEF TerminateSession, At, IInv, Sound, Spawned
  <2>3. /\ \A s \in Sessions : <<t, s>> \in op[u].left => sessions'[s].life # "live"
        /\ \A s \in Sessions : <<t, s>> \notin op[u].left => sessions'[s] = sessions[s]
    BY <2>1, <2>2, TerminateAges DEF IInv
  <2>5. UNCHANGED <<queue, spawned>>
    BY <1>5 DEF TerminateSession
  <2>7. PICK h : h = [op[u] EXCEPT !.at = "requeueing", !.task = t]
    OBVIOUS
  <2>8. h.at = "requeueing" /\ h.task = t /\ h.left = op[u].left
    BY <1>1, <2>7 DEF Handlers
  <2>9. op' = [op EXCEPT ![u] = h]
    BY <1>1, <2>1, <2>7 DEF IInv, TypeOK, Handlers
  <2>10. quiet => \A pair \in op[u].left :
             \/ tasks[pair[1]].status = "deleted"
             \/ tasks[pair[1]].status = "active" /\ tasks[pair[1]].session = pair[2]
    BY <1>5 DEF TerminateSession, At, Calm, Fresh
  <2>11. PICK x : <<t, x>> \in op[u].left
    <3>1. PICK pair \in op[u].left : t = pair[1]
      BY <2>1 DEF FirstLeft, Oldest
    <3>2. pair = <<pair[1], pair[2]>>
      BY <1>1 DEF Handlers
    <3> QED BY <3>1, <3>2
  <2>12. ASSUME quiet, NEW s \in Sessions, NeverEnded(s)', sessions'[s].task = t
         PROVE  ~InTable(t)
    <3>1. <<t, s>> \notin op[u].left /\ sessions'[s] = sessions[s]
      BY <2>3, <2>12 DEF NeverEnded
    <3>2. NeverEnded(s) /\ sessions[s].task = t
      BY <2>12, <3>1 DEF NeverEnded
    <3>3. CASE InTable(t)
      <4>1. tasks[t].status = "active" /\ tasks[t].session = s
        BY <1>3, <2>12, <3>2, <3>3 DEF Calm, NoStrayWork, AboutToBeNamed
      <4>2. x = s
        BY <2>10, <2>11, <2>12, <4>1
      <4> QED BY <2>11, <3>1, <4>2
    <3> QED BY <3>3
  <2>13. quiet' => Fresh(h)'
    BY <1>1, <2>5, <2>8, <2>10, <2>12 DEF Fresh, InTable
  <2>14. ASSUME quiet' PROVE NoStrayWork'
    <3> SUFFICES ASSUME NEW s \in Sessions, NeverEnded(s)', InTable(sessions'[s].task)
                 PROVE  tasks[sessions'[s].task].status = "active"
                        /\ tasks[sessions'[s].task].session = s
      BY <2>5 DEF NoStrayWork, AboutToBeNamed, InTable
    <3>1. sessions'[s] = sessions[s]
      BY <2>3, <2>1 DEF NeverEnded
    <3>2. NeverEnded(s)
      BY <3>1 DEF NeverEnded
    <3> QED BY <1>1, <1>3, <2>14, <3>1, <3>2 DEF Calm, NoStrayWork, AboutToBeNamed
  <2> QED BY <1>1, <1>2, <2>9, <2>13, <2>14, CalmStep
<1>6. CASE Requeue(u)
  <2>1. PICK t : t = op[u].task
    OBVIOUS
  <2>2. UpdateTask(t, "queued", None) /\ sessions' = sessions /\ At(u, "requeueing")
        /\ op' = [op EXCEPT ![u].at = "stopping",
                            ![u].left = {pair \in @ : pair[1] # op[u].task}]
    BY <1>6, <2>1 DEF Requeue
  <2>3. t \in Tasks
    BY <2>1, <2>2 DEF IInv, Sound, At
  <2>4. PICK h : h = [op[u] EXCEPT !.at = "stopping",
                                   !.left = {pair \in op[u].left : pair[1] # op[u].task}]
    OBVIOUS
  <2>5. h.at = "stopping" /\ h.left = {pair \in op[u].left : pair[1] # t}
    BY <1>1, <2>1, <2>4 DEF Handlers
  <2>6. op' = [op EXCEPT ![u] = h]
    BY <1>1, <2>2, <2>4 DEF IInv, TypeOK, Handlers
  <2>7. /\ \A v \in Tasks : v # t => tasks'[v] = tasks[v]
        /\ ~InTable(t) => tasks'[t] = tasks[t]
    BY <2>2, <2>3, UpdateKeeps DEF IInv
  <2>8. \A pair \in op[u].left : pair[1] \in Tasks
    BY <1>1 DEF Handlers
  <2>9. quiet' => Fresh(h)'
    BY <1>1, <2>2, <2>5, <2>7, <2>8 DEF Fresh, Calm, At
  <2>10. ASSUME quiet' PROVE NoStrayWork'
    <3> SUFFICES ASSUME NEW s \in Sessions, NeverEnded(s), InTable(sessions[s].task)'
                 PROVE  tasks'[sessions[s].task].status = "active"
                        /\ tasks'[sessions[s].task].session = s
      BY <2>2 DEF NoStrayWork, AboutToBeNamed, NeverEnded
    <3>1. PICK v \in Tasks : v = sessions[s].task
      BY DEF NeverEnded, IInv, TypeOK, SessionNodes
    <3>2. v # t
      <4>1. CASE v = t
        <5>1. ~InTable(t)
          BY <1>1, <2>1, <2>2, <2>10, <3>1, <4>1 DEF Calm, Fresh, At
        <5> QED BY <2>2, <2>7, <3>1, <4>1, <5>1 DEF InTable
      <4> QED BY <4>1
    <3>3. tasks'[v] = tasks[v] /\ InTable(v)
      BY <2>2, <2>7, <3>1, <3>2 DEF InTable
    <3> QED BY <1>1, <1>3, <2>10, <3>1, <3>3 DEF Calm, NoStrayWork, AboutToBeNamed
  <2> QED BY <1>1, <1>2, <2>6, <2>9, <2>10, CalmStep
<1> QED BY <1>4, <1>5, <1>6

LEMMA CalmEdit ==
    ASSUME IInv, Calm, NEW u \in Users, UpdateNode(u)
    PROVE  Calm'
<1>1. /\ op[u] # Idle /\ ~At(u, "marking") /\ At(u, "editing")
      /\ quiet' = quiet /\ row' = row /\ UNCHANGED <<saving, tasks, sessions>>
      /\ op' = [op EXCEPT ![u] = Idle]
      /\ node' = IF node = None THEN None ELSE op[u].settings
  BY DEF UpdateNode, Ends, At, Idle
<1>2. quiet => row.settings = op[u].settings
  BY <1>1 DEF Calm, Fresh, At
<1>3. quiet' => Copies'
  BY <1>1, <1>2 DEF Copies
<1>4. Fresh(Idle)'
  BY DEF Fresh, Idle
<1> QED BY <1>1, <1>3, <1>4, CalmPlace

LEMMA CalmOthers ==
    ASSUME IInv, Calm,
           \/ \E settings \in Settings : Hire(settings)
           \/ \E status \in Statuses : SetStatus(status)
           \/ UNCHANGED vars
    PROVE  Calm'
<1>1. UNCHANGED <<node, saving, op, quiet, tasks, sessions>>
  BY DEF Hire, SetStatus, vars
<1>2. row # None => row'.settings = row.settings
  BY DEF Hire, SetStatus, vars, IInv, TypeOK, Employees
<1>3. row = None => node = None /\ \A u \in Users : op[u] = Idle
  BY DEF IInv, Employed, Resting
<1>4. ASSUME quiet, NEW u \in Users PROVE Fresh(op[u])'
  <2>1. Fresh(op[u])
    BY <1>4 DEF Calm
  <2>2. CASE row = None
    BY <1>1, <1>3, <2>2 DEF Fresh, Idle
  <2>3. CASE row # None
    BY <1>1, <1>2, <2>1, <2>3 DEF Fresh, With, InTable, NeverEnded
  <2> QED BY <2>2, <2>3
<1>5. quiet => Copies'
  BY <1>1, <1>2, <1>3 DEF Calm, Copies, At
<1>6. quiet => NoStrayWork'
  BY <1>1 DEF Calm, NoStrayWork, AboutToBeNamed, NeverEnded, InTable, At
<1> QED BY <1>1, <1>4, <1>5, <1>6 DEF Calm, Pending

LEMMA CalmSaved ==
    ASSUME IInv, Calm, AgentSaves \/ SaveFails \/ \E status \in Statuses : AgentSaved(status)
    PROVE  Calm'
<1> SUFFICES ASSUME quiet' PROVE Calm'
  BY DEF Calm
<1>1. /\ UNCHANGED <<node, op, tasks, sessions>> /\ quiet
      /\ \A u \in Users : op[u] = Idle
      /\ saving' = None \/ saving' = node
      /\ row' = row \/ row'.settings = node
  <2>1. CASE AgentSaves
    BY <2>1 DEF AgentSaves, Resting
  <2>2. CASE SaveFails
    BY <2>2 DEF SaveFails, Calm, Pending
  <2>3. ASSUME NEW status \in Statuses, AgentSaved(status)
        PROVE  /\ UNCHANGED <<node, op, tasks, sessions>> /\ quiet
               /\ \A u \in Users : op[u] = Idle
               /\ saving' = None /\ row'.settings = node
    BY <2>3 DEF AgentSaved, Calm, Pending
  <2> QED BY <2>1, <2>2, <2>3
<1>2. ASSUME NEW u \in Users PROVE Fresh(op[u])'
  BY <1>1 DEF Fresh, Idle
<1>3. Copies'
  BY <1>1 DEF Calm, Copies, At
<1>4. NoStrayWork'
  BY <1>1 DEF Calm, NoStrayWork, AboutToBeNamed, NeverEnded, InTable, At
<1> QED BY <1>1, <1>2, <1>3, <1>4 DEF Calm, Pending

LEMMA CalmDelete ==
    ASSUME IInv, Calm, NEW t \in Tasks, DeleteTask(t)
    PROVE  Calm'
<1>1. /\ tasks'[t].status = "deleted"
      /\ \A v \in Tasks : v # t => tasks'[v] = tasks[v]
      /\ UNCHANGED <<employee, sessions, op, quiet>>
  BY DEF DeleteTask, IInv, TypeOK
<1>2. With("queued")' \subseteq With("queued")
  BY <1>1 DEF With
<1>3. ~InTable(t)' /\ \A v \in Tasks : InTable(v)' => tasks'[v] = tasks[v] /\ InTable(v)
  BY <1>1 DEF InTable
<1>4. ASSUME quiet, NEW u \in Users PROVE Fresh(op[u])'
  <2>1. PICK h \in Handlers : h = op[u]
    BY DEF IInv, TypeOK
  <2>2. Fresh(h) /\ Sound(h)
    BY <1>4, <2>1 DEF Calm, IInv
  <2>3. h.at \in {"spawning", "marking", "requeueing"} => h.task \in Tasks
    BY <2>2 DEF Sound
  <2>4. h.at \in {"spawning", "marking"} =>
            /\ tasks'[h.task].status \in {"queued", "deleted"}
            /\ \A v \in 1..(h.task - 1) : v \notin With("queued")'
    BY <1>1, <1>2, <2>2, <2>3 DEF Fresh
  <2>5. \A pair \in h.left : pair[1] \in Tasks
    BY DEF Handlers
  <2>6. h.at \in {"stopping", "requeueing"} => \A pair \in h.left :
             \/ tasks'[pair[1]].status = "deleted"
             \/ tasks'[pair[1]].status = "active" /\ tasks'[pair[1]].session = pair[2]
    BY <1>1, <2>2, <2>5 DEF Fresh
  <2>7. h.at = "requeueing" => \A s \in Sessions :
             NeverEnded(s)' /\ sessions'[s].task = h.task => ~InTable(h.task)'
    BY <1>1, <1>3, <2>2, <2>3 DEF Fresh, NeverEnded
  <2>8. /\ h.at = "editing" => row'.settings = h.settings
        /\ h.at = "saving" => row'.settings = h.copy.settings
    BY <1>1, <2>2 DEF Fresh
  <2>9. Fresh(h)'
    BY <2>4, <2>6, <2>7, <2>8 DEF Fresh
  <2> QED BY <1>1, <2>1, <2>9 DEF Fresh, With, NeverEnded, InTable
<1>5. quiet => Copies'
  BY <1>1 DEF Calm, Copies, At
<1>6. ASSUME quiet PROVE NoStrayWork'
  <2> SUFFICES ASSUME NEW s \in Sessions, NeverEnded(s), InTable(sessions[s].task)'
               PROVE  LET v == sessions[s].task
                      IN  \/ tasks'[v].status = "active" /\ tasks'[v].session = s
                          \/ \E u \in Users : At(u, "marking") /\ op[u].session = s
    BY <1>1 DEF NoStrayWork, AboutToBeNamed, NeverEnded, At
  <2>1. sessions[s].task \in Tasks
    BY DEF NeverEnded, IInv, TypeOK, SessionNodes
  <2>2. tasks'[sessions[s].task] = tasks[sessions[s].task] /\ InTable(sessions[s].task)
    BY <1>1, <1>3, <2>1 DEF InTable
  <2> QED BY <1>6, <2>2 DEF Calm, NoStrayWork, AboutToBeNamed
<1> QED BY <1>1, <1>4, <1>5, <1>6 DEF Calm, Pending

LEMMA CalmSession ==
    ASSUME IInv, Calm, NEW s \in Sessions, SessionEnds(s) \/ SessionRestarts(s)
    PROVE  Calm'
<1>1. UNCHANGED <<employee, tasks, op, quiet>>
  BY DEF SessionEnds, SessionRestarts
<1>2. \A r \in Sessions : NeverEnded(r)' => NeverEnded(r) /\ sessions'[r] = sessions[r]
  <2>1. sessions'[s].life # "live" /\ \A r \in Sessions : r # s => sessions'[r] = sessions[r]
    BY SessionEndsAges DEF IInv
  <2> QED BY <2>1 DEF NeverEnded
<1>3. ASSUME quiet, NEW u \in Users PROVE Fresh(op[u])'
  BY <1>1, <1>2, <1>3 DEF Calm, Fresh, With, InTable
<1>4. quiet => Copies'
  BY <1>1 DEF Calm, Copies, At
<1>5. quiet => NoStrayWork'
  BY <1>1, <1>2 DEF Calm, NoStrayWork, AboutToBeNamed, InTable, At
<1> QED BY <1>1, <1>3, <1>4, <1>5 DEF Calm, Pending

LEMMA CalmRestart ==
    ASSUME IInv, Calm, NEW back \in SUBSET Sessions, ServerRestarts(back)
    PROVE  Calm'
<1> SUFFICES ASSUME quiet' PROVE Calm'
  BY DEF Calm
<1>1. quiet /\ Resting /\ row' = row /\ tasks' = tasks /\ saving' = None
      /\ op' = [u \in Users |-> Idle] /\ (node' # None => row.settings = node')
  BY DEF ServerRestarts
<1>2. \A s \in Sessions : NeverEnded(s)' => NeverEnded(s) /\ sessions'[s].task = sessions[s].task
  BY RestartAges DEF NeverEnded, Age, IInv
<1>3. Copies' /\ Pending'
  BY <1>1 DEF Copies, Pending
<1>4. \A u \in Users : Fresh(op[u])'
  BY <1>1 DEF Fresh, Idle
<1>5. NoStrayWork'
  BY <1>1, <1>2 DEF Calm, NoStrayWork, AboutToBeNamed, InTable, At, Resting, Idle
<1> QED BY <1>1, <1>3, <1>4, <1>5 DEF Calm

LEMMA CalmKeeps == CInv /\ [Next]_vars => Calm'
<1> SUFFICES ASSUME IInv, Calm, [Next]_vars PROVE Calm'
  BY DEF CInv
<1>1. ASSUME NEW u \in Users,
             Submission(u) \/ Starting(u) \/ StoppingTasks(u) \/ Editing(u) \/ Fails(u)
      PROVE  Calm'
  BY <1>1, CalmBegin, CalmSubmission, CalmStarting, CalmMark, CalmStopping, CalmEdit, CalmEnd
     DEF Submission, Starting, StoppingTasks, Editing
<1> QED
  BY <1>1, CalmOthers, CalmSaved, CalmDelete, CalmSession, CalmRestart DEF Next

\* As long as no two handlers of team.py overlap and nothing fails, what each read
\* before a query is still so after it.
THEOREM CalmInvariance == Spec => []CInv
<1>1. Init => CInv
  BY InitHolds, CalmInit DEF CInv
<1>2. CInv /\ [Next]_vars => CInv'
  BY StepKeeps, CalmKeeps DEF CInv
<1> QED BY <1>1, <1>2, PTL DEF Spec

\* Without overlaps and failures no session that has not ended works for a task in
\* the table that does not name it
\* (_start_next_task, _stop_active_tasks).
THEOREM NoneStrays == Spec => []NoStrayWork
<1>1. CInv => NoStrayWork
  BY DEF CInv, Calm, NoStrayWork
<1> QED BY <1>1, CalmInvariance, PTL

\* Without them an employee's row and the agent in memory have the same settings
\* when its page is done (save_changes, restore).
THEOREM CopiesAgree == Spec => []SettingsAgree
<1>1. CInv => SettingsAgree
  BY DEF CInv, Calm, SettingsAgree, Copies, Resting, At, Idle
<1> QED BY <1>1, CalmInvariance, PTL

\* Only a handler that marks its task makes it active.
LEMMA BegunIsMarked ==
    ASSUME IInv, Next, NEW t \in Tasks, t \notin With("active"), t \in With("active")'
    PROVE  \E u \in Users : MarkActive(u) /\ op[u].task = t
<1> USE DEF IInv
<1>1. tasks[t].status # "active" /\ tasks'[t].status = "active"
  BY DEF With
<1>2. ASSUME NEW u \in Users, CreateTask(u) PROVE FALSE
  <2>1. PICK v : v = op[u].task
    OBVIOUS
  <2>2. v \in Tasks
    BY <1>2, <2>1 DEF CreateTask, TypeOK, Sound, At, Tasks
  <2>3. tasks'[t] = tasks[t] \/ tasks'[t].status = "queued"
    BY <1>2, <2>1, <2>2 DEF CreateTask, TypeOK
  <2> QED BY <1>1, <2>3
<1>3. ASSUME NEW u \in Users, Requeue(u) PROVE FALSE
  <2>1. PICK v : v = op[u].task
    OBVIOUS
  <2>2. v \in Tasks /\ UpdateTask(v, "queued", None)
    BY <1>3, <2>1 DEF Requeue, Sound, At
  <2>3. tasks'[t] = tasks[t] \/ tasks'[t].status = "queued"
    BY <2>2, UpdateKeeps
  <2> QED BY <1>1, <2>3
<1>4. ASSUME NEW u \in Users, MarkActive(u) PROVE op[u].task = t
  <2>1. PICK v, s : v = op[u].task /\ s = op[u].session
    OBVIOUS
  <2>2. v \in Tasks /\ UpdateTask(v, "active", s) /\ s \in Sessions
    BY <1>4, <2>1 DEF MarkActive, Sound, At, Spawned
  <2>3. v # t => tasks'[t] = tasks[t]
    BY <2>2, UpdateKeeps
  <2> QED BY <1>1, <2>1, <2>3
<1>5. ASSUME NEW v \in Tasks, DeleteTask(v) PROVE FALSE
  <2>1. tasks'[t] = tasks[t] \/ tasks'[t].status = "deleted"
    BY <1>5 DEF DeleteTask, TypeOK
  <2> QED BY <1>1, <2>1
<1>6. tasks' # tasks
  BY <1>1
<1> QED
  BY <1>2, <1>3, <1>4, <1>5, <1>6
     DEF Next, Submission, Starting, StoppingTasks, Editing, SubmitTask, ListActive,
         StartButton, PickQueued, SpawnSession, SpawnRefused, ReadEmployee, SaveEmployee,
         StopButton, CollectActive, TerminateSession, AllStopped, UpdateNode, SaveChanges,
         Fails, Hire, SetStatus, SessionEnds, SessionRestarts, AgentSaves, AgentSaved,
         SaveFails, ServerRestarts

\* Without them tasks are begun in the order they were added (db.py orders them
\* by created_at, _start_next_task takes the first).
THEOREM OrderIsKept == Spec => BegunInOrder
<1> DEFINE A == \A t \in Tasks : quiet /\ t \notin With("active") /\ t \in With("active")' =>
                    \A v \in 1..(t - 1) : v \notin With("queued")
<1>1. CInv /\ [Next]_vars => [A]_vars
  <2> SUFFICES ASSUME CInv, Next, quiet, NEW t \in Tasks, t \notin With("active"),
                      t \in With("active")'
               PROVE  \A v \in 1..(t - 1) : v \notin With("queued")
    OBVIOUS
  <2> USE DEF CInv, IInv
  <2>1. PICK u \in Users : MarkActive(u) /\ op[u].task = t
    BY BegunIsMarked
  <2> QED BY <2>1 DEF Calm, Fresh, MarkActive, At
<1> QED BY <1>1, CalmInvariance, PTL DEF Spec, BegunInOrder
=============================================================================
