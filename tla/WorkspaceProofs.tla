-------------------------- MODULE WorkspaceProofs --------------------------
(***************************************************************************)
(* Proofs about Workspace, for every number of files, declared paths,      *)
(* artifacts, runs at a time and saves under way.                          *)
(***************************************************************************)
EXTENDS Workspace, TLAPS

USE FilesAssumption, BoundAssumption, NoneAssumption
USE DEF agent, run, rows, records, stop, history

-----------------------------------------------------------------------------
\* The inductive invariant, part by part.

\* Nothing is left of a server that is down, an agent that is not in memory does
\* nothing, and one that was not loaded has no idle row.
Down ==
    /\ server = "down" => state = "gone" /\ ~settled
    /\ state = "gone" =>
          /\ artifacts = Nothing /\ ~late /\ filed = {}
          /\ phase = NoRun /\ saving = NoSaving
    /\ server # "down" /\ state = "gone" => row # "idle"

\* Who waits for a save, and when there is something to walk over.
Places ==
    /\ \A r \in Runs : saving[r] # None => phase[r] \in {"seeding", "checking"}
    /\ storing # None => server = "stopping"
    /\ walk # {} => server = "stopping"

\* The table is behind memory, and what is on its way to it is not ahead of it.
\* An artifact is never forgotten, keeps its file, and is settled for good.
Behind(q, i) ==
    /\ i \in Recorded /\ artifacts[i].file = q.file
    /\ q.status # "expected" => artifacts[i] = q

Copies ==
    /\ \A i \in Ids : i > made => artifacts[i] = None /\ table[i] = None
    /\ walk \subseteq Recorded
    /\ state # "gone" => \A i \in Ids : table[i] # None => Behind(table[i], i)
    /\ \A r \in Runs : saving[r] # None => Behind(saving[r].record, saving[r].id)
    /\ storing # None => Behind(storing.record, storing.id)

\* Nobody works, ends or publishes before the first artifact is seeded.
Order ==
    /\ Unseeded => ~late /\ \A r \in Runs : phase[r] \in {"none", "spawned"}
    /\ \A r \in Runs : phase[r] = "checking" /\ saving[r] # None =>
          saving[r].record.status # "expected"

\* A run that seeds is the only one, unless another was started too early: what it
\* saves is what is in memory.
Alone ==
    ~early => \A r \in Runs : Seeder(r) =>
        /\ ~late /\ state # "idle"
        /\ \A q \in Runs : q # r => phase[q] = "none"
        /\ saving[r] # None => artifacts[saving[r].id] = saving[r].record

IInv == TypeOK /\ Down /\ Places /\ Copies /\ Order /\ Alone

LEMMA InitHolds == Init => IInv
<1> SUFFICES ASSUME Init PROVE IInv
  OBVIOUS
<1>0. /\ phase \in [Runs -> Phases] /\ phase[current] = "spawned"
      /\ \A r \in Runs : r # current => phase[r] = "none"
      /\ \A r \in Runs : phase[r] \in {"none", "spawned"}
  BY DEF Init, NoRun, Phases
<1>1. TypeOK
  <2>1. artifacts \in [Ids -> Records \cup {None}] /\ table \in [Ids -> Records \cup {None}]
    BY DEF Init, Nothing
  <2>2. todo \in [Runs -> SUBSET Declared] /\ saving \in [Runs -> Saves \cup {None}]
        /\ made \in 0..MaxRecord
    BY DEF Init, NoTodo, NoSaving
  <2> QED BY <1>0, <2>1, <2>2 DEF Init, TypeOK, States
<1>2. Down /\ Places
  BY DEF Init, Down, Places, NoSaving
<1>3. Copies
  BY DEF Init, Copies, Nothing, Recorded, NoSaving
<1>4. Order /\ Alone
  BY <1>0 DEF Init, Order, Alone, Seeder, NoSaving
<1> QED BY <1>1, <1>2, <1>3, <1>4 DEF IInv

-----------------------------------------------------------------------------
\* What actions do to runs and records.

LEMMA Moves ==
    ASSUME TypeOK, NEW r \in Runs, NEW to \in Phases, MoveTo(r, to)
    PROVE  /\ phase' \in [Runs -> Phases] /\ phase'[r] = to
           /\ \A q \in Runs : q # r => phase'[q] = phase[q]
BY DEF TypeOK, MoveTo

\* The records are the same or more, settled ones as they were.
Grown ==
    /\ artifacts' \in [Ids -> Records \cup {None}] /\ made' \in 0..MaxRecord
    /\ made' = made \/ made' = made + 1
    /\ \A i \in Ids : artifacts[i] # None =>
          /\ artifacts'[i] # None /\ artifacts'[i].file = artifacts[i].file
          /\ artifacts[i].status # "expected" => artifacts'[i] = artifacts[i]
    /\ \A i \in Ids : artifacts[i] = None /\ artifacts'[i] # None =>
          i = made' /\ made' = made + 1

\* A new artifact is the next one, of which the table knows nothing.
LEMMA RecordKeeps ==
    ASSUME TypeOK, Copies, NEW f \in Files, NEW status \in Statuses, Record(f, status)
    PROVE  /\ Grown /\ made' = made + 1 /\ made + 1 \in Ids
           /\ artifacts[made + 1] = None /\ table[made + 1] = None
           /\ artifacts'[made + 1] = [file |-> f, status |-> status]
           /\ artifacts'[made + 1] \in Records /\ artifacts'[made + 1] # None
           /\ \A i \in Ids : i # made + 1 => artifacts'[i] = artifacts[i]
           /\ walk' \subseteq walk \cup {made + 1}
           /\ server # "stopping" => walk' = walk
<1>1. made \in Nat /\ made + 1 \in Ids /\ made + 1 > made /\ made + 1 \in 0..MaxRecord
  BY DEF TypeOK, Record, Ids
<1>2. [file |-> f, status |-> status] \in Records
  BY DEF Records
<1>3. artifacts[made + 1] = None /\ table[made + 1] = None
  BY <1>1 DEF Copies
<1>4. /\ artifacts' \in [Ids -> Records \cup {None}]
      /\ artifacts'[made + 1] = [file |-> f, status |-> status]
      /\ \A i \in Ids : i # made + 1 => artifacts'[i] = artifacts[i]
      /\ made' = made + 1
  BY <1>1, <1>2 DEF Record, TypeOK
<1>5. Grown
  BY <1>1, <1>2, <1>3, <1>4 DEF Grown
<1> QED BY <1>1, <1>2, <1>3, <1>4, <1>5 DEF Record

\* publish_artifact turns an expected artifact into a published one, or adds one.
LEMMA PublishedKeeps ==
    ASSUME TypeOK, Copies, NEW f \in Files, Published(f)
    PROVE  /\ Grown
           /\ \A i \in Ids : artifacts'[i] # artifacts[i] => artifacts'[i].status = "published"
           /\ walk' \subseteq Recorded' /\ (server # "stopping" => walk' = walk)
           /\ settled' = FALSE
<1>1. CASE \E i \in Expected : artifacts[i].file = f
  <2>1. PICK i \in Expected : artifacts' = [artifacts EXCEPT ![i].status = "published"]
    BY <1>1 DEF Published
  <2>2. i \in Ids /\ artifacts[i] \in Records /\ artifacts[i].status = "expected"
    BY <2>1 DEF Expected, Recorded, TypeOK
  <2>3. PICK q : q = [artifacts[i] EXCEPT !.status = "published"]
    OBVIOUS
  <2>4. q \in Records /\ q.file = artifacts[i].file /\ q.status = "published" /\ q # None
    BY <2>2, <2>3 DEF Records, Statuses
  <2>5. artifacts' = [artifacts EXCEPT ![i] = q]
    BY <2>1, <2>2, <2>3 DEF TypeOK
  <2>6. made' = made /\ made \in 0..MaxRecord /\ walk' = walk /\ settled' = FALSE
    BY <1>1 DEF Published, TypeOK
  <2>7. artifacts \in [Ids -> Records \cup {None}]
    BY DEF TypeOK
  <2>8. artifacts' \in [Ids -> Records \cup {None}] /\ artifacts'[i] = q
        /\ \A j \in Ids : j # i => artifacts'[j] = artifacts[j]
    BY <2>2, <2>4, <2>5, <2>7
  <2>9. Grown
    BY <2>2, <2>4, <2>6, <2>8 DEF Grown
  <2>10. walk \subseteq Recorded'
    BY <2>4, <2>8 DEF Copies, Recorded
  <2> QED BY <2>2, <2>4, <2>6, <2>8, <2>9, <2>10
<1>2. CASE ~(\E i \in Expected : artifacts[i].file = f)
  <2>1. Record(f, "published") /\ settled' = FALSE
    BY <1>2 DEF Published, Record
  <2>3. "published" \in Statuses
    BY DEF Statuses
  <2>4. PICK q : q = [file |-> f, status |-> "published"]
    OBVIOUS
  <2>5. /\ Grown /\ made' = made + 1 /\ made + 1 \in Ids
        /\ artifacts'[made + 1] = q /\ q # None
        /\ \A i \in Ids : i # made + 1 => artifacts'[i] = artifacts[i]
        /\ walk' \subseteq walk \cup {made + 1}
        /\ server # "stopping" => walk' = walk
    BY <2>1, <2>3, <2>4, RecordKeeps
  <2>6. q.status = "published"
    BY <2>4
  <2>7. walk' \subseteq Recorded'
    BY <2>5 DEF Copies, Recorded
  <2> QED BY <2>1, <2>5, <2>6, <2>7
<1> QED BY <1>1, <1>2

\* The check settles an artifact that is expected, and saves it as it is then.
LEMMA SettleKeeps ==
    ASSUME TypeOK, NEW r \in Runs, NEW i \in Expected, Settle(r, i), made' = made
    PROVE  /\ Grown /\ Recorded' = Recorded
           /\ saving' \in [Runs -> Saves \cup {None}]
           /\ saving'[r] # None /\ saving'[r].id = i /\ i \in Recorded'
           /\ saving'[r].record = artifacts'[i]
           /\ saving'[r].record.status \in {"published", "missing"}
           /\ \A q \in Runs : q # r => saving'[q] = saving[q]
           /\ \A j \in Ids : artifacts'[j] # artifacts[j] =>
                 artifacts[j].status = "expected" /\ artifacts'[j].status # "expected"
           /\ MoveTo(r, "checking") /\ settled' = FALSE /\ state' = state
<1>1. PICK status \in {"published", "missing"} :
        /\ artifacts' = [artifacts EXCEPT ![i] = [artifacts[i] EXCEPT !.status = status]]
        /\ saving' = [saving EXCEPT ![r] =
                         [id |-> i, record |-> [artifacts[i] EXCEPT !.status = status]]]
        /\ MoveTo(r, "checking") /\ settled' = FALSE /\ state' = state
  BY DEF Settle
<1>2. PICK q : q = [artifacts[i] EXCEPT !.status = status]
  OBVIOUS
<1>3. i \in Ids /\ artifacts[i] \in Records /\ artifacts[i].status = "expected"
      /\ artifacts[i] # None
  BY DEF TypeOK, Expected, Recorded
<1>4. q \in Records /\ q # None /\ q.file = artifacts[i].file /\ q.status = status
  BY <1>2, <1>3 DEF Records, Statuses
<1>5. /\ artifacts' \in [Ids -> Records \cup {None}] /\ artifacts'[i] = q
      /\ \A j \in Ids : j # i => artifacts'[j] = artifacts[j]
  BY <1>1, <1>2, <1>3, <1>4 DEF TypeOK
<1>6. PICK s : s = [id |-> i, record |-> q]
  OBVIOUS
<1>7. s \in Saves /\ s # None /\ s.id = i /\ s.record = q
  BY <1>3, <1>4, <1>6 DEF Saves
<1>8. /\ saving' \in [Runs -> Saves \cup {None}] /\ saving'[r] = s
      /\ \A p \in Runs : p # r => saving'[p] = saving[p]
  BY <1>1, <1>2, <1>6, <1>7 DEF TypeOK
<1>9. Recorded' = Recorded
  BY <1>3, <1>4, <1>5 DEF Recorded
<1>10. made \in 0..MaxRecord
  BY DEF TypeOK
<1>11. Grown
  BY <1>3, <1>4, <1>5, <1>10 DEF Grown
<1>12. i \in Recorded'
  BY <1>3, <1>9 DEF Recorded
<1> QED BY <1>1, <1>3, <1>4, <1>5, <1>7, <1>8, <1>9, <1>11, <1>12

\* A save that arrives: the table is still behind memory, has what it had, and
\* keeps the files it had.
Arrives(q, i) ==
    /\ table' \in [Ids -> Records \cup {None}]
    /\ i \in Ids /\ table'[i] = q /\ \A j \in Ids : j # i => table'[j] = table[j]
    /\ \A j \in Ids : j > made => table'[j] = None
    /\ \A j \in Ids : table'[j] # None => Behind(table'[j], j)
    /\ \A j \in Ids : table[j] # None => table'[j] # None /\ table'[j].file = table[j].file

LEMMA TableKeeps ==
    ASSUME TypeOK, Copies, state # "gone",
           NEW i, NEW q \in Records, Behind(q, i),
           table' = [table EXCEPT ![i] = q]
    PROVE  Arrives(q, i)
<1>1. i \in Ids /\ ~(i > made) /\ q # None
  BY DEF Recorded, Copies, Behind
<1>2. table' \in [Ids -> Records \cup {None}] /\ table'[i] = q
      /\ \A j \in Ids : j # i => table'[j] = table[j]
  BY <1>1 DEF TypeOK
<1>3. \A j \in Ids : j > made => table'[j] = None
  BY <1>1, <1>2 DEF Copies
<1>4. \A j \in Ids : table'[j] # None => Behind(table'[j], j)
  BY <1>2 DEF Copies
<1>5. \A j \in Ids : table[j] # None => table'[j] # None /\ table'[j].file = table[j].file
  BY <1>1, <1>2 DEF Copies, Behind
<1> QED BY <1>1, <1>2, <1>3, <1>4, <1>5 DEF Arrives

\* The artifact whose save a run, or the stop, waits for.
LEMMA SavingFacts ==
    ASSUME IInv, NEW r \in Runs, saving[r] # None
    PROVE  /\ saving[r] \in Saves /\ saving[r].id \in Recorded /\ saving[r].record \in Records
           /\ Behind(saving[r].record, saving[r].id) /\ state # "gone" /\ server # "down"
<1>1. saving[r] \in Saves
  BY DEF IInv, TypeOK
<1>2. saving[r].id \in Ids /\ saving[r].record \in Records
  BY <1>1 DEF Saves
<1>3. Behind(saving[r].record, saving[r].id)
  BY DEF IInv, Copies
<1>4. state # "gone" /\ server # "down"
  BY DEF IInv, Down, NoSaving
<1> QED BY <1>1, <1>2, <1>3, <1>4 DEF Behind

LEMMA SaveArrives ==
    ASSUME IInv, NEW r \in Runs, saving[r] # None,
           table' = [table EXCEPT ![saving[r].id] = saving[r].record]
    PROVE  Arrives(saving[r].record, saving[r].id)
BY SavingFacts, TableKeeps DEF IInv

LEMMA StoringFacts ==
    ASSUME IInv, storing # None
    PROVE  /\ storing \in Saves /\ storing.id \in Recorded /\ storing.record \in Records
           /\ Behind(storing.record, storing.id) /\ server = "stopping" /\ state # "gone"
BY DEF IInv, Down, TypeOK, Copies, Places, Behind, Saves, Recorded, Nothing

LEMMA StoreArrives ==
    ASSUME IInv, storing # None, table' = [table EXCEPT ![storing.id] = storing.record]
    PROVE  Arrives(storing.record, storing.id)
BY StoringFacts, TableKeeps DEF IInv

-----------------------------------------------------------------------------
\* How the parts of the invariant are kept.

\* Nothing is recorded: saves are made, arrive, or are forgotten.
LEMMA StillCopies ==
    ASSUME IInv, UNCHANGED <<artifacts, made>>, state' # "gone" => state # "gone",
           table' = table \/ \E q, i : Arrives(q, i),
           walk' \subseteq Recorded,
           \A r \in Runs : saving'[r] = saving[r] \/ saving'[r] = None,
           storing' # None => Behind(storing'.record, storing'.id)
    PROVE  Copies'
<1>1. Recorded' = Recorded /\ \A q, i : Behind(q, i)' <=> Behind(q, i)
  BY DEF Recorded, Behind
<1>2. \A i \in Ids : i > made => table'[i] = None
  BY DEF IInv, Copies, Arrives
<1>3. state' # "gone" => \A i \in Ids : table'[i] # None => Behind(table'[i], i)
  BY DEF IInv, Copies, Arrives
<1> QED BY <1>1, <1>2, <1>3 DEF IInv, Copies

\* Something is recorded or settled, and its save may be made.
LEMMA GrownCopies ==
    ASSUME IInv, Grown, UNCHANGED <<table, server, storing>>, state # "gone",
           walk' \subseteq Recorded',
           \A r \in Runs : \/ saving'[r] = saving[r]
                           \/ saving'[r].id \in Recorded'
                              /\ artifacts'[saving'[r].id] = saving'[r].record
    PROVE  Copies'
<1>1. Recorded \subseteq Recorded'
  BY DEF Recorded, Grown
<1>2. \A q, i : Behind(q, i) => Behind(q, i)'
  BY <1>1 DEF Behind, Recorded, Grown
<1>3. \A i \in Ids : i > made' => artifacts'[i] = None /\ table'[i] = None
  <2>1. made \in Nat /\ made' \in Nat /\ \A i \in Ids : i \in Nat
    BY DEF IInv, TypeOK, Ids, Grown
  <2> QED BY <2>1 DEF IInv, Copies, Grown
<1>4. \A r \in Runs : saving'[r] # None =>
          /\ saving'[r].id \in Recorded' /\ artifacts'[saving'[r].id].file = saving'[r].record.file
          /\ saving'[r].record.status # "expected" =>
                artifacts'[saving'[r].id] = saving'[r].record
  <2> SUFFICES ASSUME NEW r \in Runs, saving'[r] = saving[r], saving[r] # None
               PROVE  /\ saving[r].id \in Recorded'
                      /\ artifacts'[saving[r].id].file = saving[r].record.file
                      /\ saving[r].record.status # "expected" =>
                            artifacts'[saving[r].id] = saving[r].record
    OBVIOUS
  <2>1. PICK q, i : q = saving[r].record /\ i = saving[r].id
    OBVIOUS
  <2>2. Behind(q, i)
    BY <2>1 DEF IInv, Copies
  <2> QED BY <1>2, <2>1, <2>2 DEF Behind
<1>5. storing # None => Behind(storing.record, storing.id)
  BY DEF IInv, Copies
<1>6. storing # None =>
          /\ storing.id \in Recorded' /\ artifacts'[storing.id].file = storing.record.file
          /\ storing.record.status # "expected" => artifacts'[storing.id] = storing.record
  <2>1. PICK q, i : q = storing.record /\ i = storing.id
    OBVIOUS
  <2> QED BY <1>2, <1>5, <2>1 DEF Behind
<1>7. \A i \in Ids : table[i] # None =>
          /\ i \in Recorded' /\ artifacts'[i].file = table[i].file
          /\ table[i].status # "expected" => artifacts'[i] = table[i]
  <2> SUFFICES ASSUME NEW i \in Ids, table[i] # None
               PROVE  /\ i \in Recorded' /\ artifacts'[i].file = table[i].file
                      /\ table[i].status # "expected" => artifacts'[i] = table[i]
    OBVIOUS
  <2>1. PICK q : q = table[i]
    OBVIOUS
  <2>2. Behind(q, i)
    BY <2>1 DEF IInv, Copies
  <2> QED BY <1>2, <2>1, <2>2 DEF Behind
<1> QED BY <1>3, <1>4, <1>6, <1>7 DEF IInv, Copies, Behind

\* One run moves, but not to seeding, and nothing is recorded.
LEMMA RunMoves ==
    ASSUME IInv, NEW r \in Runs, NEW to \in Phases, MoveTo(r, to),
           UNCHANGED <<artifacts, late>>, to # "seeding",
           Unseeded => to \in {"none", "spawned"},
           to = "spawned" => early' \/ \A q \in Runs : ~Seeder(q),
           to = "spawned" => state' # "idle",
           to # "spawned" => phase[r] # "none",
           early => early',
           saving' = saving \/ saving' = [saving EXCEPT ![r] = None],
           saving'[r] = None,
           state' # "idle" \/ state = "idle" \/ phase[r] \in {"working", "checking", "cancelled"}
    PROVE  Order' /\ Alone'
<1>0. /\ phase' \in [Runs -> Phases] /\ phase'[r] = to
      /\ \A q \in Runs : q # r => phase'[q] = phase[q]
  BY Moves DEF IInv
<1>1. Unseeded' = Unseeded /\ Recorded' = Recorded
  BY DEF Unseeded, Recorded
<1>2. \A q \in Runs : saving'[q] # None => saving'[q] = saving[q] /\ q # r
  BY DEF IInv, TypeOK
<1>3. Order'
  BY <1>0, <1>1, <1>2 DEF IInv, Order
<1>4. Alone'
  <2> SUFFICES ASSUME ~early', NEW q \in Runs, Seeder(q)'
               PROVE  /\ ~late' /\ state' # "idle"
                      /\ \A p \in Runs : p # q => phase'[p] = "none"
                      /\ saving'[q] # None => artifacts'[saving'[q].id] = saving'[q].record
    BY DEF Alone
  <2>1. CASE to = "spawned"
    <3>1. \A p \in Runs : ~Seeder(p)
      BY <2>1
    <3>2. q = r /\ Unseeded
      BY <1>0, <1>1, <2>1, <3>1 DEF Seeder
    <3>3. ~late /\ \A p \in Runs : p # r => phase[p] = "none"
      BY <3>1, <3>2 DEF IInv, Order, Seeder
    <3> QED BY <1>0, <1>2, <2>1, <3>2, <3>3
  <2>2. CASE to # "spawned"
    <3>1. q # r /\ Seeder(q) /\ phase'[q] = phase[q]
      BY <1>0, <1>1, <2>2 DEF Seeder
    <3>2. /\ ~late /\ state # "idle" /\ \A p \in Runs : p # q => phase[p] = "none"
          /\ saving[q] # None => artifacts[saving[q].id] = saving[q].record
      BY <3>1 DEF IInv, Alone
    <3> QED BY <2>2, <3>1, <3>2
  <2> QED BY <2>1, <2>2
<1> QED BY <1>3, <1>4

\* No run moves, and nothing is recorded; saves may be over.
LEMMA RunStays ==
    ASSUME IInv, UNCHANGED <<phase, artifacts, late>>, early' = early,
           \A r \in Runs : saving'[r] = saving[r] \/ saving'[r] = None,
           state' # "idle" \/ state = "idle"
    PROVE  Order' /\ Alone'
<1>1. Unseeded' = Unseeded /\ Recorded' = Recorded
  BY DEF Unseeded, Recorded
<1>2. \A r \in Runs : saving'[r] # None => saving'[r] = saving[r]
  OBVIOUS
<1>3. Order'
  BY <1>1, <1>2 DEF IInv, Order
<1>4. Alone'
  BY <1>1, <1>2 DEF IInv, Alone, Seeder
<1> QED BY <1>3, <1>4

-----------------------------------------------------------------------------
\* The steps.

LEMMA AgentKeeps ==
    ASSUME IInv,
           \/ SaveAgent \/ Wake \/ StopDone \/ BeginStop
           \/ \E s \in States : AgentSaved(s) \/ AgentUnsaved(s)
    PROVE  IInv'
<1>1. /\ UNCHANGED <<phase, todo, saving, artifacts, table, made, late, current, storing>>
      /\ whole' = whole /\ early' = early /\ calm' \in BOOLEAN /\ settled' \in BOOLEAN
      /\ state' \in States /\ (state' # "idle" \/ state = "idle")
      /\ row' \in (States \ {"gone"}) \cup {None} /\ filed' \subseteq States \ {"gone"}
      /\ walk' \in {walk, Recorded}
  <2>1. Recorded \subseteq Ids /\ AtRest \in BOOLEAN
    BY DEF Recorded, AtRest
  <2>2. CASE SaveAgent \/ Wake \/ StopDone
    BY <2>2 DEF IInv, TypeOK, States, SaveAgent, Wake, StopDone
  <2>3. CASE BeginStop
    BY <2>1, <2>3 DEF IInv, TypeOK, States, BeginStop
  <2>4. CASE \E s \in States : AgentSaved(s) \/ AgentUnsaved(s)
    BY <2>4 DEF IInv, TypeOK, States, AgentSaved, AgentUnsaved
  <2> QED BY <2>2, <2>3, <2>4
<1>2. /\ server # "down" /\ server' \in {"up", "stopping", "stopped"}
      /\ walk' # {} => server' = "stopping"
      /\ storing # None => server' = "stopping"
      /\ state' = "gone" => filed' = {} /\ row' # "idle"
      /\ state' = "gone" <=> state = "gone"
      /\ UNCHANGED <<phase, saving, late, artifacts>>
  <2>1. filed # {} => server # "down"
    BY DEF IInv, Down
  <2>2. server # "down" /\ state = "gone" => filed = {} /\ row # "idle"
    BY DEF IInv, Down
  <2> QED BY <2>1, <2>2 DEF IInv, TypeOK, Places, SaveAgent, Wake, StopDone, BeginStop, AgentSaved,
                            AgentUnsaved, Serving, Open
<1>3. TypeOK'
  <2>1. walk' \subseteq Ids
    BY <1>1 DEF IInv, TypeOK, Recorded
  <2> QED BY <1>1, <1>2, <2>1 DEF IInv, TypeOK
<1>4. Down' /\ Places'
  BY <1>1, <1>2 DEF IInv, Down, Places
<1>5. Copies'
  BY <1>1, <1>2, StillCopies DEF IInv, Copies
<1> QED BY <1>1, <1>3, <1>4, <1>5, RunStays DEF IInv

\* One run goes on, and its save is over, if it had one.
LEMMA RunKeeps ==
    ASSUME IInv, NEW r \in Runs, NEW to \in Phases, MoveTo(r, to),
           UNCHANGED <<artifacts, made, late, rows, stop>>, server # "down",
           table' = table \/ \E q, i : Arrives(q, i),
           to # "seeding", Unseeded => to \in {"none", "spawned"},
           to = "spawned" => early' \/ \A q \in Runs : ~Seeder(q),
           to = "spawned" => state' # "idle",
           to # "spawned" => phase[r] # "none",
           early => early', early' \in BOOLEAN, whole' \in BOOLEAN, calm' \in BOOLEAN,
           saving' = saving \/ saving' = [saving EXCEPT ![r] = None],
           saving'[r] = None,
           todo' = todo \/ todo' = [todo EXCEPT ![r] = {}],
           current' \in Runs \cup {None},
           state # "gone", state' \in States \ {"gone"},
           state' # "idle" \/ state = "idle" \/ phase[r] \in {"working", "checking", "cancelled"}
    PROVE  IInv'
<1>0. /\ phase' \in [Runs -> Phases] /\ phase'[r] = to
      /\ \A q \in Runs : q # r => phase'[q] = phase[q]
  BY Moves DEF IInv
<1>1. /\ saving' \in [Runs -> Saves \cup {None}] /\ todo' \in [Runs -> SUBSET Declared]
      /\ \A q \in Runs : saving'[q] = saving[q] \/ saving'[q] = None
  BY DEF IInv, TypeOK
<1>2. table' \in [Ids -> Records \cup {None}]
  BY DEF IInv, TypeOK, Arrives
<1>3. TypeOK'
  BY <1>0, <1>1, <1>2 DEF IInv, TypeOK
<1>4. Down' /\ Places'
  BY <1>0, <1>1 DEF IInv, Down, Places
<1>5. Copies'
  BY <1>1, StillCopies DEF IInv, Copies
<1> QED BY <1>3, <1>4, <1>5, RunMoves DEF IInv

LEMMA StartRunKeeps ==
    ASSUME IInv, NEW r \in Runs, StartRun(r)
    PROVE  IInv'
<1>1. /\ MoveTo(r, "spawned") /\ state' = "running" /\ current' = r /\ state # "gone"
      /\ early' = (early \/ \E q \in Runs : Seeder(q))
      /\ phase[r] = "none" /\ server # "down"
      /\ UNCHANGED <<artifacts, made, table, late, rows, stop, saving, todo, whole, calm>>
  BY DEF StartRun, Open
<1>2. saving[r] = None
  BY <1>1 DEF IInv, Places
<1>3. "spawned" \in Phases /\ "running" \in States \ {"gone"}
  BY DEF Phases, States
<1>4. /\ early \in BOOLEAN /\ whole \in BOOLEAN /\ calm \in BOOLEAN
  BY DEF IInv, TypeOK
<1> QED BY <1>1, <1>2, <1>3, <1>4, RunKeeps

\* The head of the loop, reached when nothing is left to seed.
LEMMA WorkKeeps ==
    ASSUME IInv, NEW r \in Runs, phase[r] \in {"spawned", "seeding"}, saving[r] = None,
           ~Unseeded, Work(r),
           UNCHANGED <<todo, saving, artifacts, made, walk, settled>>,
           UNCHANGED <<agent, rows, table, server, storing, history>>
    PROVE  IInv'
<1>1. PICK to \in {"none", "working"} : MoveTo(r, to)
  BY DEF Work
<1>2. server # "down" /\ state # "gone"
  BY DEF IInv, Down, NoRun
<1>3. to \in Phases
  BY DEF Phases
<1> QED BY <1>1, <1>2, <1>3, RunKeeps DEF IInv, TypeOK

LEMMA SeedKeeps ==
    ASSUME IInv, NEW r \in Runs, NEW f \in Declared, NEW fs \in SUBSET Declared,
           Seed(r, f, fs), phase[r] = "seeding" \/ (phase[r] = "spawned" /\ Unseeded),
           saving[r] = None,
           UNCHANGED <<agent, rows, table, server, storing, history>>
    PROVE  IInv'
<1>1. /\ Record(f, "expected") /\ MoveTo(r, "seeding") /\ settled' = FALSE
      /\ saving' = [saving EXCEPT ![r] =
                       [id |-> made + 1, record |-> [file |-> f, status |-> "expected"]]]
      /\ todo' = [todo EXCEPT ![r] = fs \ {f}]
  BY DEF Seed, Record
<1>2. "expected" \in Statuses /\ "seeding" \in Phases
  BY DEF Statuses, Phases
<1>3. PICK q : q = [file |-> f, status |-> "expected"]
  OBVIOUS
<1>4. /\ Grown /\ made' = made + 1 /\ made + 1 \in Ids
      /\ artifacts'[made + 1] = q /\ q \in Records /\ q # None
      /\ \A i \in Ids : i # made + 1 => artifacts'[i] = artifacts[i]
      /\ walk' \subseteq walk \cup {made + 1}
      /\ server # "stopping" => walk' = walk
  BY <1>1, <1>2, <1>3, RecordKeeps DEF IInv
<1>5. PICK s : s = [id |-> made + 1, record |-> q]
  OBVIOUS
<1>6. s \in Saves /\ s # None /\ s.id = made + 1 /\ s.record = q
  BY <1>4, <1>5 DEF Saves
<1>7. /\ saving' \in [Runs -> Saves \cup {None}] /\ saving'[r] = s
      /\ \A p \in Runs : p # r => saving'[p] = saving[p]
  BY <1>1, <1>3, <1>5, <1>6 DEF IInv, TypeOK
<1>8. /\ phase' \in [Runs -> Phases] /\ phase'[r] = "seeding"
      /\ \A p \in Runs : p # r => phase'[p] = phase[p]
  BY <1>1, <1>2, Moves DEF IInv
<1>9. server # "down" /\ state # "gone"
  BY DEF IInv, Down, NoRun
<1>10. walk' \subseteq Recorded' /\ made + 1 \in Recorded'
  BY <1>4 DEF IInv, Copies, Recorded
<1>11. TypeOK'
  <2>1. walk' \subseteq Ids /\ todo' \in [Runs -> SUBSET Declared]
    BY <1>1, <1>10 DEF IInv, TypeOK, Recorded
  <2>2. artifacts' \in [Ids -> Records \cup {None}] /\ made' \in 0..MaxRecord
    BY <1>4 DEF Grown
  <2> QED BY <1>1, <1>7, <1>8, <2>1, <2>2 DEF IInv, TypeOK
<1>12. Down' /\ Places'
  BY <1>4, <1>7, <1>8, <1>9 DEF IInv, Down, Places
<1>13. Copies'
  BY <1>4, <1>6, <1>7, <1>9, <1>10, GrownCopies
<1>14. Order'
  <2>1. ~Unseeded'
    BY <1>10 DEF Unseeded
  <2> QED BY <1>7, <1>8, <2>1 DEF IInv, Order
<1>15. Alone'
  <2> SUFFICES ASSUME ~early, NEW p \in Runs, Seeder(p)'
               PROVE  /\ ~late /\ state # "idle"
                      /\ \A t \in Runs : t # p => phase'[t] = "none"
                      /\ saving'[p] # None => artifacts'[saving'[p].id] = saving'[p].record
    BY DEF Alone
  <2>1. ~late /\ state # "idle" /\ \A t \in Runs : t # r => phase[t] = "none"
    BY DEF IInv, Alone, Seeder
  <2>2. p = r
    BY <1>8, <2>1 DEF Seeder
  <2> QED BY <1>4, <1>6, <1>7, <1>8, <2>1, <2>2
<1> QED BY <1>11, <1>12, <1>13, <1>14, <1>15 DEF IInv

LEMMA BeginKeeps ==
    ASSUME IInv, NEW r \in Runs, Begin(r) \/ SeedNext(r)
    PROVE  IInv'
<1>1. CASE Begin(r)
  <2>1. phase[r] = "spawned" /\ saving[r] = None
    BY <1>1 DEF Begin, IInv, Places
  <2>2. CASE Unseeded /\ \E f \in Declared : Seed(r, f, Declared)
    BY <1>1, <2>1, <2>2, SeedKeeps DEF Begin
  <2>3. CASE ~Unseeded /\ Work(r) /\ UNCHANGED <<todo, saving, artifacts, made, walk, settled>>
    BY <1>1, <2>1, <2>3, WorkKeeps DEF Begin
  <2> QED BY <1>1, <2>2, <2>3 DEF Begin
<1>2. CASE SeedNext(r)
  <2>1. phase[r] = "seeding" /\ saving[r] = None /\ ~Unseeded /\ todo[r] \in SUBSET Declared
    BY <1>2 DEF SeedNext, IInv, Order, TypeOK
  <2>2. CASE \E f \in todo[r] : Seed(r, f, todo[r])
    <3>1. PICK f \in todo[r] : Seed(r, f, todo[r])
      BY <2>2
    <3>2. f \in Declared
      BY <2>1, <3>1
    <3> QED BY <1>2, <2>1, <3>1, <3>2, SeedKeeps DEF SeedNext
  <2>3. CASE Work(r) /\ UNCHANGED <<todo, saving, artifacts, made, walk, settled>>
    BY <1>2, <2>1, <2>3, WorkKeeps DEF SeedNext
  <2> QED BY <1>2, <2>2, <2>3 DEF SeedNext
<1> QED BY <1>1, <1>2

LEMMA SavedKeeps ==
    ASSUME IInv, NEW r \in Runs, Saved(r)
    PROVE  IInv'
<1>1. /\ table' = [table EXCEPT ![saving[r].id] = saving[r].record] /\ saving[r] # None
      /\ saving' = [saving EXCEPT ![r] = None]
      /\ UNCHANGED <<agent, phase, todo, rows, artifacts, made, stop, history>>
  BY DEF Saved
<1>2. Arrives(saving[r].record, saving[r].id) /\ server # "down"
  BY <1>1, SaveArrives, SavingFacts
<1>3. /\ saving' \in [Runs -> Saves \cup {None}] /\ table' \in [Ids -> Records \cup {None}]
      /\ \A q \in Runs : saving'[q] = saving[q] \/ saving'[q] = None
  BY <1>1, <1>2 DEF IInv, TypeOK, Arrives
<1>4. TypeOK'
  BY <1>1, <1>3 DEF IInv, TypeOK
<1>5. Down' /\ Places'
  <2>1. state # "gone"
    BY <1>1 DEF IInv, Down, NoSaving
  <2> QED BY <1>1, <1>2, <1>3, <2>1 DEF IInv, Down, Places
<1>6. Copies'
  BY <1>1, <1>2, <1>3, StillCopies DEF IInv, Copies
<1> QED BY <1>1, <1>3, <1>4, <1>5, <1>6, RunStays DEF IInv

LEMMA SaveFailsKeeps ==
    ASSUME IInv, NEW r \in Runs, SaveFails(r)
    PROVE  IInv'
<1>1. /\ saving[r] # None /\ saving' = [saving EXCEPT ![r] = None]
      /\ todo' = [todo EXCEPT ![r] = {}] /\ MoveTo(r, "none")
      /\ state' \in {state, "suspended"}
      /\ UNCHANGED <<current, late, rows, records, stop, early>>
      /\ whole' \in BOOLEAN /\ calm' \in BOOLEAN
  BY DEF SaveFails, IInv, TypeOK
<1>2. server # "down" /\ state # "gone" /\ phase[r] # "none"
  BY <1>1 DEF IInv, Down, Places, NoSaving
<1>3. "none" \in Phases /\ saving'[r] = None /\ state' \in States \ {"gone"}
  BY <1>1, <1>2 DEF Phases, IInv, TypeOK, States
<1>4. current \in Runs \cup {None} /\ early \in BOOLEAN
  BY DEF IInv, TypeOK
<1> QED BY <1>1, <1>2, <1>3, <1>4, RunKeeps

LEMMA CheckKeeps ==
    ASSUME IInv, NEW r \in Runs, RunEnds(r) \/ Check(r) \/ RunFails(r)
    PROVE  IInv'
<1>1. /\ UNCHANGED <<current, late, todo, rows, table, made, server, storing, walk, history>>
      /\ phase[r] \in {"working", "cancelled", "checking"} /\ saving[r] = None
  BY DEF RunEnds, Check, RunFails, IInv, Places
<1>2. server # "down" /\ state # "gone"
  BY <1>1 DEF IInv, Down, NoRun
<1>3. CASE MoveTo(r, "none") /\ state' \in {state, "idle", "suspended"}
           /\ UNCHANGED <<saving, artifacts, settled>>
  <2>1. "none" \in Phases /\ state' \in States \ {"gone"}
    BY <1>2, <1>3 DEF Phases, States, IInv, TypeOK
  <2>2. /\ early \in BOOLEAN /\ whole \in BOOLEAN /\ calm \in BOOLEAN
        /\ current \in Runs \cup {None}
    BY DEF IInv, TypeOK
  <2> QED BY <1>1, <1>2, <1>3, <2>1, <2>2, RunKeeps
<1>4. ASSUME NEW i \in Expected, Settle(r, i) PROVE IInv'
  <2>1. /\ Grown /\ Recorded' = Recorded
        /\ saving' \in [Runs -> Saves \cup {None}]
        /\ saving'[r] # None /\ saving'[r].id = i /\ i \in Recorded'
        /\ saving'[r].record = artifacts'[i]
        /\ saving'[r].record.status \in {"published", "missing"}
        /\ \A q \in Runs : q # r => saving'[q] = saving[q]
        /\ MoveTo(r, "checking") /\ settled' = FALSE /\ state' = state
    BY <1>1, <1>4, SettleKeeps DEF IInv
  <2>2. /\ phase' \in [Runs -> Phases] /\ phase'[r] = "checking"
        /\ \A q \in Runs : q # r => phase'[q] = phase[q]
    BY <2>1, Moves DEF IInv, Phases
  <2>3. TypeOK'
    BY <1>1, <2>1, <2>2 DEF IInv, TypeOK, Grown
  <2>4. Down' /\ Places'
    BY <1>1, <1>2, <2>1, <2>2 DEF IInv, Down, Places
  <2>5. Copies'
    <3>1. walk' \subseteq Recorded'
      BY <1>1, <2>1 DEF IInv, Copies
    <3> QED BY <1>1, <1>2, <2>1, <3>1, GrownCopies
  <2>6. Order'
    BY <1>1, <2>1, <2>2 DEF IInv, Order, Unseeded
  <2>7. Alone'
    <3>1. ~early => \A q \in Runs : ~Seeder(q)
      BY <1>1 DEF IInv, Alone, Seeder
    <3>2. \A q \in Runs : Seeder(q)' => Seeder(q)
      BY <2>1, <2>2 DEF Seeder, Unseeded
    <3> QED BY <1>1, <3>1, <3>2 DEF Alone
  <2> QED BY <2>3, <2>4, <2>5, <2>6, <2>7 DEF IInv
<1> QED BY <1>3, <1>4 DEF RunEnds, Check, RunFails, SettleNext, GoesIdle

LEMMA PublishKeeps ==
    ASSUME IInv, NEW f \in Files, Publish(f)
    PROVE  IInv'
<1>1. /\ Published(f) /\ server # "down" /\ late' \in {late, FALSE}
      /\ UNCHANGED <<state, current, run, rows, table, server, storing, history>>
      /\ late \/ \E r \in Runs : phase[r] = "working"
  BY DEF Publish, Serving
<1>2. /\ Grown /\ settled' = FALSE
      /\ walk' \subseteq Recorded' /\ (server # "stopping" => walk' = walk)
  BY <1>1, PublishedKeeps DEF IInv
<1>3. Recorded \subseteq Recorded'
  BY <1>2 DEF Recorded, Grown
<1>4. state # "gone" /\ ~Unseeded
  BY <1>1 DEF IInv, Down, NoRun, Order
<1>5. TypeOK'
  <2>1. walk' \subseteq Ids
    BY <1>2 DEF Recorded
  <2> QED BY <1>1, <1>2, <2>1 DEF IInv, TypeOK, Grown
<1>6. Down' /\ Places'
  BY <1>1, <1>2, <1>4 DEF IInv, Down, Places
<1>7. Copies'
  BY <1>1, <1>2, <1>4, GrownCopies
<1>8. Order'
  BY <1>1, <1>3, <1>4 DEF IInv, Order, Unseeded
<1>9. Alone'
  <2>1. ~early => \A r \in Runs : ~Seeder(r)
    <3> SUFFICES ASSUME ~early, NEW r \in Runs, Seeder(r) PROVE FALSE
      OBVIOUS
    <3>1. ~late /\ \A q \in Runs : q # r => phase[q] = "none"
      BY DEF IInv, Alone
    <3> QED BY <1>1, <1>4, <3>1 DEF Seeder
  <2>2. \A r \in Runs : Seeder(r)' => Seeder(r)
    BY <1>1, <1>3, <1>4 DEF Seeder, Unseeded
  <2> QED BY <1>1, <2>1, <2>2 DEF Alone
<1> QED BY <1>5, <1>6, <1>7, <1>8, <1>9 DEF IInv

LEMMA CutShortKeeps ==
    ASSUME IInv, NEW tool \in BOOLEAN, CutShort(tool)
    PROVE  IInv'
<1>0. /\ state # "gone" /\ state' = "suspended" /\ current' = None /\ server = "up"
      /\ UNCHANGED <<rows, artifacts, made, stop, early>>
  BY DEF CutShort, Open
<1>1. CASE current = None
  <2>1. UNCHANGED <<late, run, table, whole, calm>>
    BY <1>1 DEF CutShort
  <2>2. TypeOK' /\ Down' /\ Places'
    BY <1>0, <2>1 DEF IInv, TypeOK, Down, Places, States
  <2>3. Copies'
    BY <1>0, <2>1, StillCopies DEF IInv, Copies
  <2> QED BY <1>0, <2>1, <2>2, <2>3, RunStays DEF IInv
<1>2. CASE current # None
  <2>0. PICK r \in Runs : r = current
    BY <1>2 DEF IInv, TypeOK
  <2>1. Cancel(r, tool)
    BY <1>2, <2>0 DEF CutShort
  <2>2. PICK to \in {"none", "cancelled"} :
          MoveTo(r, to) /\ (to = "cancelled" => phase[r] \in {"seeding", "working"})
    BY <2>1 DEF Cancel
  <2>3. /\ phase' \in [Runs -> Phases] /\ phase'[r] = to
        /\ \A q \in Runs : q # r => phase'[q] = phase[q]
    BY <2>2, Moves DEF IInv, Phases
  <2>4. /\ saving' \in [Runs -> Saves \cup {None}] /\ todo' \in [Runs -> SUBSET Declared]
        /\ saving'[r] = None /\ \A q \in Runs : q # r => saving'[q] = saving[q]
    BY <2>1 DEF Cancel, IInv, TypeOK
  <2>5. table' = table \/ \E q, i : Arrives(q, i)
    <3>1. \/ table' = table
          \/ saving[r] # None /\ table' = [table EXCEPT ![saving[r].id] = saving[r].record]
      BY <2>1 DEF Cancel
    <3> QED BY <3>1, SaveArrives
  <2>6. late' \in BOOLEAN /\ whole' \in BOOLEAN /\ calm' \in BOOLEAN
        /\ (late' => late \/ phase[r] = "working")
    BY <2>1 DEF Cancel, IInv, TypeOK
  <2>7. TypeOK'
    BY <1>0, <2>3, <2>4, <2>5, <2>6 DEF IInv, TypeOK, States, Arrives
  <2>8. Down' /\ Places'
    BY <1>0, <2>3, <2>4 DEF IInv, Down, Places
  <2>9. Copies'
    BY <1>0, <2>4, <2>5, StillCopies DEF IInv, Copies
  <2>10. Order'
    BY <1>0, <2>2, <2>3, <2>4, <2>6 DEF IInv, Order, Unseeded, Recorded
  <2>11. Alone'
    <3> SUFFICES ASSUME ~early, NEW q \in Runs, Seeder(q)'
                 PROVE  /\ ~late'
                        /\ \A p \in Runs : p # q => phase'[p] = "none"
                        /\ saving'[q] # None => artifacts[saving'[q].id] = saving'[q].record
      BY <1>0 DEF Alone
    <3>1. q # r /\ Seeder(q)
      BY <1>0, <2>2, <2>3 DEF Seeder, Unseeded, Recorded
    <3>2. /\ ~late /\ \A p \in Runs : p # q => phase[p] = "none"
          /\ saving[q] # None => artifacts[saving[q].id] = saving[q].record
      BY <3>1 DEF IInv, Alone
    <3> QED BY <2>2, <2>3, <2>4, <2>6, <3>1, <3>2
  <2> QED BY <2>7, <2>8, <2>9, <2>10, <2>11 DEF IInv
<1> QED BY <1>1, <1>2

LEMMA StopKeeps ==
    ASSUME IInv, Stored \/ StopFails \/ \E i \in Ids : Store(i)
    PROVE  IInv'
<1>1. ASSUME NEW i \in Ids, Store(i) PROVE IInv'
  <2>1. /\ server = "stopping" /\ i \in walk /\ walk' = walk \ {i}
        /\ storing' = [id |-> i, record |-> artifacts[i]]
        /\ UNCHANGED <<agent, run, rows, records, server, settled, history>>
    BY <1>1 DEF Store
  <2>2. i \in Recorded /\ artifacts[i] \in Records
    BY <2>1 DEF IInv, Copies, Recorded, TypeOK
  <2>3. storing' \in Saves /\ storing'.id = i /\ storing'.record = artifacts[i]
    BY <2>1, <2>2 DEF Saves, Recorded
  <2>4. TypeOK' /\ Down' /\ Places'
    BY <2>1, <2>3 DEF IInv, TypeOK, Down, Places
  <2>5. Copies'
    <3>1. Behind(storing'.record, storing'.id)
      BY <2>2, <2>3 DEF Behind
    <3> QED BY <2>1, <3>1, StillCopies DEF IInv, Copies
  <2> QED BY <2>1, <2>4, <2>5, RunStays DEF IInv
<1>2. CASE Stored \/ StopFails
  <2>1. /\ storing # None /\ storing' = None /\ walk' \in {walk, {}}
        /\ server' \in {server, "stopped"} /\ server = "stopping"
        /\ walk' # {} => server' = server
        /\ settled' \in BOOLEAN /\ calm' \in BOOLEAN
        /\ table' = table \/ Arrives(storing.record, storing.id)
        /\ UNCHANGED <<agent, run, rows, artifacts, made, whole, early>>
    BY <1>2, StoringFacts, StoreArrives DEF Stored, StopFails, IInv, TypeOK
  <2>2. TypeOK' /\ Down' /\ Places'
    BY <2>1 DEF IInv, TypeOK, Down, Places, Arrives
  <2>3. Copies'
    BY <2>1, StillCopies DEF IInv, Copies
  <2> QED BY <2>1, <2>2, <2>3, RunStays DEF IInv
<1> QED BY <1>1, <1>2

\* Whatever is lost in memory, the table has no more than was ever recorded.
LEMMA RestartKeeps ==
    ASSUME IInv, Exit \/ Start
    PROVE  IInv'
<1>0. /\ NoRun \in [Runs -> Phases] /\ NoTodo \in [Runs -> SUBSET Declared]
      /\ NoSaving \in [Runs -> Saves \cup {None}] /\ Nothing \in [Ids -> Records \cup {None}]
  BY DEF NoRun, NoTodo, NoSaving, Nothing, Phases
<1>1. CASE Exit
  <2>1. TypeOK'
    BY <1>0, <1>1 DEF Exit, IInv, TypeOK, States
  <2>2. Down' /\ Places'
    BY <1>1 DEF Exit, Down, Places, NoSaving
  <2>3. Copies'
    BY <1>1 DEF Exit, IInv, Copies, Nothing, NoSaving
  <2>4. Order' /\ Alone'
    BY <1>1 DEF Exit, Order, Alone, Seeder, NoRun, NoSaving
  <2> QED BY <2>1, <2>2, <2>3, <2>4 DEF IInv
<1>2. CASE Start
  <2>1. /\ server = "down" /\ phase = NoRun /\ saving = NoSaving /\ storing = None
        /\ walk = {} /\ ~late /\ filed = {}
    BY <1>2 DEF Start, IInv, Down, Places
  <2>0. /\ server' = "up"
        /\ UNCHANGED <<current, late, run, rows, table, made, storing, walk, settled, history>>
        /\ artifacts' = IF state' = "gone" THEN Nothing ELSE table
    BY <1>2 DEF Start
  <2>7. row = None \/ row = "suspended" \/ row \in States \ {"gone", "suspended"}
    BY DEF IInv, TypeOK, States
  <2>8. state' \in States /\ (state' = "gone" => row # "idle")
    <3>1. CASE row = None
      BY <1>2, <3>1 DEF Start, States, IInv, TypeOK
    <3>2. CASE row = "suspended" /\ row # None
      BY <1>2, <3>2 DEF Start, States
    <3>3. CASE row # None /\ row # "suspended"
      BY <1>2, <2>7, <3>3 DEF Start, States
    <3> QED BY <3>1, <3>2, <3>3
  <2>2. /\ server' = "up" /\ state' \in States /\ (state' = "gone" => row # "idle")
        /\ artifacts' = IF state' = "gone" THEN Nothing ELSE table
        /\ UNCHANGED <<current, late, run, rows, table, made, storing, walk, settled, history>>
    BY <2>0, <2>8
  <2>3. TypeOK'
    BY <1>0, <2>2 DEF IInv, TypeOK
  <2>4. Down' /\ Places'
    BY <2>1, <2>2 DEF Down, Places, NoSaving
  <2>6. Order' /\ Alone'
    BY <2>1, <2>2 DEF Order, Alone, Seeder, NoRun, NoSaving
  <2>5. Copies'
    <3>1. CASE state' # "gone"
      BY <2>1, <2>2, <3>1 DEF IInv, Copies, Behind, Recorded, NoSaving
    <3>2. CASE state' = "gone"
      BY <2>1, <2>2, <3>2 DEF IInv, Copies, NoSaving, Nothing
    <3> QED BY <3>1, <3>2
  <2> QED BY <2>3, <2>4, <2>5, <2>6 DEF IInv
<1> QED BY <1>1, <1>2

LEMMA StepKeeps == IInv /\ [Next]_vars => IInv'
<1> SUFFICES ASSUME IInv, [Next]_vars PROVE IInv'
  OBVIOUS
<1>1. ASSUME NEW r \in Runs, Run(r) PROVE IInv'
  BY <1>1, StartRunKeeps, BeginKeeps, SavedKeeps, SaveFailsKeeps, CheckKeeps DEF Run
<1>2. CASE Agent
  BY <1>2, AgentKeeps, CutShortKeeps, PublishKeeps DEF Agent
<1>3. CASE Server
  BY <1>3, AgentKeeps, StopKeeps, RestartKeeps DEF Server
<1>4. CASE UNCHANGED vars
  BY <1>4 DEF vars, IInv, TypeOK, Down, Places, Copies, Behind, Order, Alone, Seeder, Unseeded,
              Recorded
<1> QED BY <1>1, <1>2, <1>3, <1>4 DEF Next

\* However many runs an agent has, and whatever fails, stops or is lost: the table
\* is behind memory, nobody publishes before the first artifact is seeded, and what
\* a run saves while it is the only one is what is in memory (executor.py:428-445,
\* workspace_tools.py:193-281).
THEOREM Invariance == Spec => []IInv
BY InitHolds, StepKeeps, PTL DEF Spec

-----------------------------------------------------------------------------
\* Seeding.

Covered == \A f \in Declared : \E i \in Ids : table[i] # None /\ table[i].file = f

\* Nothing has happened yet, or the server was gone before anything had.
Fresh ==
    /\ Recorded = {} /\ table = Nothing /\ ~late
    /\ state # "idle" /\ row # "idle" /\ "idle" \notin filed
    /\ \A r \in Runs : phase[r] \in {"none", "spawned"}

\* A declared path is to be seeded, or being saved, or in the table.
Seeds ==
    whole =>
        /\ Covered \/ Fresh \/ \E r \in Runs : phase[r] = "seeding"
        /\ \A r \in Runs : phase[r] = "seeding" => \A f \in Declared :
              \/ f \in todo[r]
              \/ saving[r] # None /\ saving[r].record.file = f
              \/ \E i \in Ids : table[i] # None /\ table[i].file = f

LEMMA SeedsStart == Init => Seeds
<1> SUFFICES ASSUME Init PROVE Seeds
  OBVIOUS
<1>1. \A r \in Runs : phase[r] \in {"none", "spawned"}
  BY DEF Init, NoRun
<1> QED BY <1>1 DEF Init, Seeds, Fresh, Recorded, Nothing, States

\* The table keeps the paths it has.
Kept == \A i \in Ids : table[i] # None => table'[i] # None /\ table'[i].file = table[i].file

\* No run begins to seed, goes on to seed, or ends it, and the table keeps its paths.
LEMMA SeedsStay ==
    ASSUME Seeds, whole' => whole, Kept, Fresh => Fresh',
           whole' => \A r \in Runs :
               /\ phase'[r] = "seeding" <=> phase[r] = "seeding"
               /\ phase[r] = "seeding" => todo'[r] = todo[r] /\ saving'[r] = saving[r]
    PROVE  Seeds'
<1>1. Covered => Covered'
  BY DEF Covered, Kept
<1>2. ASSUME whole', NEW r \in Runs, phase'[r] = "seeding", NEW f \in Declared
      PROVE  \/ f \in todo'[r]
             \/ saving'[r] # None /\ saving'[r].record.file = f
             \/ \E i \in Ids : table'[i] # None /\ table'[i].file = f
  <2>1. phase[r] = "seeding" /\ todo'[r] = todo[r] /\ saving'[r] = saving[r]
    BY <1>2
  <2>2. \/ f \in todo[r]
        \/ saving[r] # None /\ saving[r].record.file = f
        \/ \E i \in Ids : table[i] # None /\ table[i].file = f
    BY <1>2, <2>1 DEF Seeds
  <2> QED BY <2>1, <2>2 DEF Kept
<1>3. whole' => Covered \/ Fresh \/ \E r \in Runs : phase[r] = "seeding"
  BY DEF Seeds
<1> QED BY <1>1, <1>2, <1>3 DEF Seeds

\* A save that arrives while nothing is fresh.
LEMMA NotFresh ==
    ASSUME IInv, (\E r \in Runs : phase[r] \notin {"none", "spawned"}) \/ storing # None \/ late
    PROVE  ~Fresh
BY StoringFacts DEF Fresh

LEMMA SeedsRecord ==
    ASSUME IInv, Seeds, NEW r \in Runs, NEW f \in Declared, NEW fs \in SUBSET Declared,
           Seed(r, f, fs), saving[r] = None,
           fs = Declared \/ (phase[r] = "seeding" /\ fs = todo[r]),
           UNCHANGED <<agent, rows, table, server, storing, history>>
    PROVE  Seeds'
<1>1. PICK s : s = [id |-> made + 1, record |-> [file |-> f, status |-> "expected"]]
  OBVIOUS
<1>2. s.record.file = f /\ s \in Saves
  BY <1>1 DEF Seed, Record, IInv, TypeOK, Ids, Saves, Records, Statuses
<1>3. /\ saving'[r] = s /\ saving'[r] # None /\ todo'[r] = fs \ {f}
      /\ \A q \in Runs : q # r => saving'[q] = saving[q] /\ todo'[q] = todo[q]
  BY <1>1, <1>2 DEF Seed, IInv, TypeOK
<1>4. phase'[r] = "seeding" /\ \A q \in Runs : q # r => phase'[q] = phase[q]
  BY Moves DEF Seed, IInv, Phases
<1>5. whole' = whole /\ table' = table
  OBVIOUS
<1> QED BY <1>2, <1>3, <1>4, <1>5 DEF Seeds

LEMMA SeedsWork ==
    ASSUME IInv, Seeds, NEW r \in Runs, Work(r), saving[r] = None, ~Unseeded,
           phase[r] = "spawned" \/ (phase[r] = "seeding" /\ todo[r] = {}),
           UNCHANGED <<todo, saving, artifacts, made, walk, settled>>,
           UNCHANGED <<agent, rows, table, server, storing, history>>
    PROVE  Seeds'
<1>1. PICK to \in {"none", "working"} : MoveTo(r, to)
  BY DEF Work
<1>2. phase'[r] = to /\ \A q \in Runs : q # r => phase'[q] = phase[q]
  BY <1>1, Moves DEF IInv, Phases
<1>3. CASE phase[r] = "seeding" /\ todo[r] = {}
  <2>1. whole => Covered
    BY <1>3 DEF Seeds, Covered
  <2> QED BY <1>2, <2>1 DEF Seeds, Covered
<1>4. CASE phase[r] = "spawned"
  <2>1. Fresh => Covered
    BY DEF Fresh, Unseeded, Covered
  <2> QED BY <1>2, <1>4, <2>1 DEF Seeds, Covered
<1> QED BY <1>3, <1>4

LEMMA SeedsRun ==
    ASSUME IInv, Seeds, NEW r \in Runs, Run(r)
    PROVE  Seeds'
<1>1. CASE StartRun(r)
  <2>1. /\ phase[r] = "none" /\ phase'[r] = "spawned"
        /\ \A q \in Runs : q # r => phase'[q] = phase[q]
    BY <1>1, Moves DEF StartRun, IInv, Phases
  <2>2. Fresh => Fresh'
    BY <1>1, <2>1 DEF StartRun, Fresh, Recorded
  <2> QED BY <1>1, <2>1, <2>2, SeedsStay DEF StartRun, Kept
<1>2. CASE Begin(r)
  <2>1. phase[r] = "spawned" /\ saving[r] = None
    BY <1>2 DEF Begin, IInv, Places
  <2>2. CASE \E f \in Declared : Seed(r, f, Declared)
    BY <1>2, <2>1, <2>2, SeedsRecord DEF Begin
  <2>3. CASE ~Unseeded /\ Work(r) /\ UNCHANGED <<todo, saving, artifacts, made, walk, settled>>
    BY <1>2, <2>1, <2>3, SeedsWork DEF Begin
  <2> QED BY <1>2, <2>2, <2>3 DEF Begin
<1>3. CASE SeedNext(r)
  <2>1. phase[r] = "seeding" /\ saving[r] = None /\ ~Unseeded /\ todo[r] \in SUBSET Declared
    BY <1>3 DEF SeedNext, IInv, Order, TypeOK
  <2>2. CASE \E f \in todo[r] : Seed(r, f, todo[r])
    BY <1>3, <2>1, <2>2, SeedsRecord DEF SeedNext
  <2>3. CASE /\ todo[r] = {} /\ Work(r)
             /\ UNCHANGED <<todo, saving, artifacts, made, walk, settled>>
    BY <1>3, <2>1, <2>3, SeedsWork DEF SeedNext
  <2> QED BY <1>3, <2>2, <2>3 DEF SeedNext
<1>4. CASE Saved(r)
  <2>1. Arrives(saving[r].record, saving[r].id) /\ saving[r] # None
    BY <1>4, SaveArrives DEF Saved
  <2>2. /\ UNCHANGED <<phase, todo, whole>> /\ saving'[r] = None
        /\ \A q \in Runs : q # r => saving'[q] = saving[q]
    BY <1>4 DEF Saved, IInv, TypeOK
  <2>3. ~Fresh /\ Kept
    BY <2>1, NotFresh DEF IInv, Places, Arrives, Kept
  <2>4. table'[saving[r].id] = saving[r].record /\ saving[r].id \in Ids
        /\ saving[r].record # None
    BY <2>1, SavingFacts DEF Arrives
  <2> QED BY <2>2, <2>3, <2>4 DEF Seeds, Covered, Kept
<1>5. CASE SaveFails(r)
  <2>1. /\ ~Fresh /\ Kept /\ whole' = (whole /\ phase[r] # "seeding")
        /\ phase'[r] = "none" /\ \A q \in Runs : q # r => phase'[q] = phase[q]
        /\ \A q \in Runs : q # r => saving'[q] = saving[q] /\ todo'[q] = todo[q]
    BY <1>5, NotFresh, Moves DEF SaveFails, IInv, Places, TypeOK, Kept, Phases
  <2> QED BY <2>1, SeedsStay
<1>6. CASE RunEnds(r) \/ Check(r) \/ RunFails(r)
  <2>1. ~Fresh /\ phase[r] \in {"working", "cancelled", "checking"}
    BY <1>6, NotFresh DEF RunEnds, Check, RunFails
  <2>2. UNCHANGED <<todo, table, whole>>
    BY <1>6 DEF RunEnds, Check, RunFails
  <2>3. /\ \E to \in {"none", "checking"} : MoveTo(r, to)
        /\ \A q \in Runs : q # r => saving'[q] = saving[q]
    <3>1. CASE MoveTo(r, "none") /\ saving' = saving
      BY <3>1
    <3>2. ASSUME NEW i \in Expected, Settle(r, i)
          PROVE  MoveTo(r, "checking") /\ \A q \in Runs : q # r => saving'[q] = saving[q]
      BY <3>2 DEF Settle, IInv, TypeOK
    <3> QED BY <1>6, <3>1, <3>2 DEF RunEnds, Check, RunFails, SettleNext, GoesIdle
  <2>4. phase'[r] # "seeding" /\ \A q \in Runs : q # r => phase'[q] = phase[q]
    BY <2>3, Moves DEF IInv, Phases
  <2> QED BY <2>1, <2>2, <2>3, <2>4, SeedsStay DEF Kept
<1> QED BY <1>1, <1>2, <1>3, <1>4, <1>5, <1>6 DEF Run

LEMMA SeedsAgent ==
    ASSUME IInv, Seeds, Agent
    PROVE  Seeds'
<1>1. CASE SaveAgent \/ Wake \/ \E s \in States : AgentSaved(s) \/ AgentUnsaved(s)
  <2>1. UNCHANGED <<phase, todo, saving, table, whole, late, artifacts>>
    BY <1>1 DEF SaveAgent, Wake, AgentSaved, AgentUnsaved
  <2>2. Fresh => Fresh'
    BY <1>1, <2>1 DEF SaveAgent, Wake, AgentSaved, AgentUnsaved, Fresh, Recorded
  <2> QED BY <2>1, <2>2, SeedsStay DEF Kept
<1>2. ASSUME NEW tool \in BOOLEAN, CutShort(tool) PROVE Seeds'
  <2>0. state' = "suspended" /\ UNCHANGED <<rows, artifacts>>
    BY <1>2 DEF CutShort
  <2>1. CASE current = None
    <3>1. UNCHANGED <<phase, todo, saving, table, whole, late>>
      BY <1>2, <2>1 DEF CutShort
    <3> QED BY <2>0, <3>1, SeedsStay DEF Kept, Fresh, Recorded
  <2>2. CASE current # None
    <3>1. PICK r \in Runs : Cancel(r, tool)
      BY <1>2, <2>2 DEF CutShort, IInv, TypeOK
    <3>2. /\ \E to \in {"none", "cancelled"} :
               MoveTo(r, to) /\ (to = "cancelled" => phase[r] \in {"seeding", "working"})
          /\ whole' = (whole /\ phase[r] # "seeding")
          /\ \A q \in Runs : q # r => saving'[q] = saving[q] /\ todo'[q] = todo[q]
          /\ late' => late \/ phase[r] = "working"
      BY <3>1 DEF Cancel, IInv, TypeOK
    <3>3. /\ phase'[r] # "seeding" /\ \A q \in Runs : q # r => phase'[q] = phase[q]
          /\ phase'[r] = "cancelled" => phase[r] \in {"seeding", "working"}
          /\ phase'[r] \in {"none", "cancelled"}
      BY <3>2, Moves DEF IInv, Phases
    <3>4. CASE table' = table
      <4>1. Fresh => Fresh'
        BY <2>0, <3>2, <3>3, <3>4 DEF Fresh, Recorded
      <4> QED BY <3>2, <3>3, <3>4, <4>1, SeedsStay DEF Kept
    <3>5. CASE saving[r] # None /\ table' = [table EXCEPT ![saving[r].id] = saving[r].record]
      <4>1. ~Fresh
        BY <3>5, NotFresh DEF IInv, Places
      <4>2. Kept
        BY <3>5, SaveArrives DEF Arrives, Kept
      <4> QED BY <3>2, <3>3, <4>1, <4>2, SeedsStay
    <3> QED BY <3>1, <3>4, <3>5 DEF Cancel
  <2> QED BY <2>1, <2>2
<1>3. ASSUME NEW f \in Files, Publish(f) PROVE Seeds'
  <2>1. ~Fresh
    BY <1>3, NotFresh DEF Publish
  <2> QED BY <1>3, <2>1, SeedsStay DEF Publish, Kept
<1> QED BY <1>1, <1>2, <1>3 DEF Agent

LEMMA SeedsServer ==
    ASSUME IInv, Seeds, Server
    PROVE  Seeds'
<1>1. CASE BeginStop \/ StopDone \/ StopFails \/ \E i \in Ids : Store(i)
  <2>1. UNCHANGED <<phase, todo, saving, table, whole, late, artifacts, state, filed>>
        /\ row' \in {row, state}
    BY <1>1 DEF BeginStop, StopDone, StopFails, Store
  <2> QED BY <2>1, SeedsStay DEF Kept, Fresh, Recorded
<1>2. CASE Stored
  <2>1. ~Fresh /\ Kept
    BY <1>2, NotFresh, StoreArrives DEF Stored, Arrives, Kept
  <2> QED BY <1>2, <2>1, SeedsStay DEF Stored
<1>3. CASE Exit
  <2>1. /\ whole' = (whole /\ \A r \in Runs : phase[r] # "seeding") /\ table' = table
        /\ row' = row /\ \A r \in Runs : phase'[r] = "none"
    BY <1>3 DEF Exit, NoRun
  <2>2. Fresh => Fresh'
    BY <1>3, <2>1 DEF Exit, Fresh, Recorded, Nothing
  <2> QED BY <2>1, <2>2, SeedsStay DEF Kept
<1>4. CASE Start
  <2>1. UNCHANGED <<phase, todo, saving, table, whole, late, row, filed>>
    BY <1>4 DEF Start
  <2>2. table = Nothing => Recorded' = {}
    BY <1>4 DEF Start, Recorded, Nothing
  <2>3. row # "idle" => state' # "idle"
    BY <1>4 DEF Start
  <2> QED BY <2>1, <2>2, <2>3, SeedsStay DEF Kept, Fresh
<1> QED BY <1>1, <1>2, <1>3, <1>4 DEF Server

LEMMA SeedsStep == IInv /\ Seeds /\ [Next]_vars => Seeds'
<1> SUFFICES ASSUME IInv, Seeds, [Next]_vars PROVE Seeds'
  OBVIOUS
<1>1. CASE UNCHANGED vars
  BY <1>1 DEF vars, Seeds, Covered, Fresh, Recorded
<1> QED BY <1>1, SeedsRun, SeedsAgent, SeedsServer DEF Next

\* Whatever restarts, stops and crashes there were, a seeding that is not cut short
\* loses no declared path: it is to be seeded, being saved, or in the table
\* (executor.py:428-445, registry.py:256-285, api.py:102-112).
THEOREM SeedInvariance == Spec => [](IInv /\ Seeds)
BY InitHolds, StepKeeps, SeedsStart, SeedsStep, PTL DEF Spec

LEMMA SeedsSuffice == IInv /\ Seeds => AllDeclared
<1> SUFFICES ASSUME IInv, Seeds, whole, \A r \in Runs : phase[r] # "seeding",
                    state = "idle" \/ \E r \in Runs : phase[r] \in {"working", "checking"},
                    NEW f \in Declared
             PROVE  \E i \in Recorded : artifacts[i].file = f
  BY DEF AllDeclared
<1>1. ~Fresh
  BY NotFresh DEF Fresh
<1>2. PICK i \in Ids : table[i] # None /\ table[i].file = f
  BY <1>1 DEF Seeds, Covered
<1>3. state # "gone"
  BY DEF IInv, Down, NoRun
<1>4. Behind(table[i], i)
  BY <1>2, <1>3 DEF IInv, Copies
<1> QED BY <1>2, <1>4 DEF Behind

\* An agent that works, or has worked, knows every path its spec declares once
\* seeding is done, unless a seeding was cut short, whatever was restarted
\* meanwhile (executor.py:428-445).
THEOREM DeclaredAreThere == Spec => []AllDeclared
BY SeedInvariance, SeedsSuffice, PTL

-----------------------------------------------------------------------------
\* The stop, and what idle agents have settled.

\* The table has the artifact as it is, or the stop has still to save it so.
InTable(i) == table[i] = artifacts[i] \/ i \in walk \/ (storing # None /\ storing.id = i)

Orderly ==
    settled =>
        /\ server \in {"stopping", "stopped"}
        /\ phase = NoRun /\ ~late /\ state # "gone"
        /\ \A i \in Recorded : InTable(i)
        /\ storing # None => storing.record = artifacts[storing.id]

NoneExpected == \A i \in Ids : table[i] # None => table[i].status # "expected"

Quiet ==
    calm /\ ~early =>
        /\ state = "idle" => Expected = {}
        /\ server = "down" /\ row = "idle" => NoneExpected
        /\ settled /\ (row = "idle" \/ "idle" \in filed) => Expected = {}

LEMMA QuietStarts == Init => Orderly /\ Quiet
<1> SUFFICES ASSUME Init PROVE Orderly /\ Quiet
  OBVIOUS
<1>1. Expected = {}
  BY DEF Init, Expected, Recorded, Nothing
<1> QED BY <1>1 DEF Init, Orderly, Quiet

\* Something that a stop which began at rest cannot see.
LEMMA Unsettled ==
    ASSUME IInv, Orderly, Quiet, ~settled', server' # "down",
           calm' /\ ~early' => calm /\ ~early,
           calm' /\ ~early' => (state' = "idle" => Expected' = {})
    PROVE  Orderly' /\ Quiet'
BY DEF Orderly, Quiet

\* Rows, messages, runs and saves that leave artifacts and the stop alone.
LEMMA SameRecords ==
    ASSUME IInv, Orderly, Quiet, UNCHANGED <<artifacts, server, settled>>,
           calm' /\ ~early' => calm /\ ~early, server # "down",
           calm' /\ ~early' => (state' = "idle" => state = "idle" \/ Expected = {}),
           row' = "idle" \/ "idle" \in filed'
               => state = "idle" \/ row = "idle" \/ "idle" \in filed,
           settled => /\ UNCHANGED <<phase, late, walk, storing, table>>
                      /\ state # "gone" => state' # "gone"
    PROVE  Orderly' /\ Quiet'
<1>1. Recorded' = Recorded /\ Expected' = Expected
  BY DEF Recorded, Expected
<1>2. Orderly'
  BY <1>1 DEF Orderly, InTable
<1>3. Quiet'
  BY <1>1 DEF Quiet
<1> QED BY <1>2, <1>3

\* An agent at rest has no run to go on.
LEMMA NotSettled ==
    ASSUME IInv, Orderly, (\E r \in Runs : phase[r] # "none" \/ saving[r] # None) \/ late
    PROVE  ~settled
BY DEF Orderly, NoRun, IInv, Places

\* Whoever seeds records while the agent is not idle.
LEMMA QuietSeeds ==
    ASSUME IInv, Orderly, Quiet, NEW r \in Runs, Seeder(r), ~settled',
           UNCHANGED <<state, server, history>>
    PROVE  Orderly' /\ Quiet'
<1>1. server # "down"
  BY DEF Seeder, IInv, Down, NoRun
<1>2. ~early => state # "idle"
  BY DEF IInv, Alone
<1> QED BY <1>1, <1>2, Unsettled

LEMMA QuietRun ==
    ASSUME IInv, Orderly, Quiet, NEW r \in Runs, Run(r)
    PROVE  Orderly' /\ Quiet'
<1>1. CASE StartRun(r)
  <2>1. ~settled /\ server = "up"
    BY <1>1 DEF StartRun, Open, Orderly
  <2> QED BY <1>1, <2>1, SameRecords DEF StartRun
<1>2. CASE Begin(r) \/ SeedNext(r)
  <2>1. ~settled /\ server # "down" /\ UNCHANGED <<agent, rows, table, server, storing, history>>
    BY <1>2, NotSettled DEF Begin, SeedNext, IInv, Down, NoRun
  <2>2. CASE Seeder(r) /\ ~settled'
    BY <2>1, <2>2, QuietSeeds
  <2>3. CASE UNCHANGED <<artifacts, settled>>
    BY <2>1, <2>3, SameRecords
  <2> QED BY <1>2, <2>2, <2>3 DEF Begin, SeedNext, Seed, Record, Seeder
<1>3. CASE Saved(r) \/ SaveFails(r) \/ RunFails(r)
  <2>1. ~settled /\ server # "down"
    BY <1>3, NotSettled DEF Saved, SaveFails, RunFails, IInv, Places, Down, NoRun
  <2>2. /\ UNCHANGED <<artifacts, server, settled, rows, early>> /\ (calm' => calm)
        /\ state' = "idle" => state = "idle"
    <3>1. CASE Saved(r)
      BY <3>1 DEF Saved
    <3>2. CASE SaveFails(r)
      BY <3>2 DEF SaveFails
    <3>3. CASE RunFails(r)
      BY <3>3 DEF RunFails
    <3> QED BY <1>3, <3>1, <3>2, <3>3
  <2> QED BY <2>1, <2>2, SameRecords
<1>4. CASE RunEnds(r) \/ Check(r)
  <2>1. ~settled /\ server # "down" /\ UNCHANGED <<rows, server, history>>
        /\ made' = made
    BY <1>4, NotSettled DEF RunEnds, Check, IInv, Places, Down, NoRun
  <2>2. CASE /\ UNCHANGED <<artifacts, settled>>
             /\ state' = "idle" => state = "idle" \/ Expected = {}
    BY <2>1, <2>2, SameRecords
  <2>3. ASSUME NEW i \in Expected, Settle(r, i) PROVE Orderly' /\ Quiet'
    <3>1. /\ ~settled' /\ state' = state
          /\ Recorded' = Recorded
          /\ \A j \in Ids : artifacts'[j] # artifacts[j] => artifacts'[j].status # "expected"
      BY <2>1, <2>3, SettleKeeps DEF IInv
    <3>2. Expected' \subseteq Expected
      BY <3>1 DEF Expected, Recorded
    <3> QED BY <2>1, <3>1, <3>2, Unsettled DEF Quiet
  <2> QED BY <1>4, <2>2, <2>3 DEF RunEnds, Check, SettleNext, GoesIdle
<1> QED BY <1>1, <1>2, <1>3, <1>4 DEF Run

LEMMA QuietAgent ==
    ASSUME IInv, Orderly, Quiet, Agent
    PROVE  Orderly' /\ Quiet'
<1>1. CASE SaveAgent \/ Wake
  BY <1>1, SameRecords DEF SaveAgent, Wake, Serving
<1>2. CASE \E s \in States : AgentSaved(s) \/ AgentUnsaved(s)
  <2>1. server # "down"
    BY <1>2 DEF AgentSaved, AgentUnsaved, IInv, Down
  <2> QED BY <1>2, <2>1, SameRecords DEF AgentSaved, AgentUnsaved
<1>3. ASSUME NEW tool \in BOOLEAN, CutShort(tool) PROVE Orderly' /\ Quiet'
  <2>1. ~settled /\ server = "up"
    BY <1>3 DEF CutShort, Open, Orderly
  <2>2. calm' => calm
    BY <1>3 DEF CutShort, Cancel
  <2> QED BY <1>3, <2>1, <2>2, SameRecords DEF CutShort
<1>4. ASSUME NEW f \in Files, Publish(f) PROVE Orderly' /\ Quiet'
  <2>1. /\ Published(f) /\ server # "down"
        /\ UNCHANGED <<state, current, run, rows, table, server, storing, history>>
    BY <1>4 DEF Publish, Serving
  <2>2. /\ ~settled'
        /\ \A i \in Ids : artifacts'[i] # artifacts[i] => artifacts'[i].status = "published"
    BY <2>1, PublishedKeeps DEF IInv
  <2>3. Expected' \subseteq Expected
    BY <2>2 DEF Expected, Recorded
  <2> QED BY <2>1, <2>2, <2>3, Unsettled DEF Quiet
<1> QED BY <1>1, <1>2, <1>3, <1>4 DEF Agent

LEMMA QuietServer ==
    ASSUME IInv, Orderly, Quiet, Server
    PROVE  Orderly' /\ Quiet'
<1>1. CASE BeginStop
  <2>1. /\ server' = "stopping" /\ walk' = Recorded /\ settled' = AtRest
        /\ row' = (IF state = "gone" THEN row ELSE state)
        /\ UNCHANGED <<agent, run, filed, records, storing, history>> /\ server = "up"
    BY <1>1 DEF BeginStop, Open
  <2>2. Recorded' = Recorded /\ Expected' = Expected
    BY <2>1 DEF Recorded, Expected
  <2>3. storing = None
    BY <2>1 DEF IInv, Places
  <2>4. Orderly'
    BY <2>1, <2>2, <2>3 DEF Orderly, InTable, AtRest
  <2>5. settled' /\ (row' = "idle" \/ "idle" \in filed') => state = "idle"
    BY <2>1 DEF AtRest
  <2>6. Quiet'
    BY <2>1, <2>2, <2>5 DEF Quiet
  <2> QED BY <2>4, <2>6
<1>2. ASSUME NEW i \in Ids, Store(i) PROVE Orderly' /\ Quiet'
  <2>1. /\ server = "stopping" /\ storing = None /\ walk' = walk \ {i} /\ i \in walk
        /\ storing' = [id |-> i, record |-> artifacts[i]]
        /\ UNCHANGED <<agent, run, rows, records, server, settled, history>>
    BY <1>2 DEF Store
  <2>2. Recorded' = Recorded /\ Expected' = Expected
    BY <2>1 DEF Recorded, Expected
  <2>3. storing' # None /\ storing'.id = i /\ storing'.record = artifacts[i]
    BY <2>1 DEF IInv, TypeOK, Copies, Recorded, Saves
  <2>4. Orderly'
    BY <2>1, <2>2, <2>3 DEF Orderly, InTable
  <2>5. Quiet'
    BY <2>1, <2>2 DEF Quiet
  <2> QED BY <2>4, <2>5
<1>3. CASE Stored
  <2>1. /\ storing # None /\ storing' = None
        /\ table' = [table EXCEPT ![storing.id] = storing.record]
        /\ UNCHANGED <<agent, run, rows, artifacts, made, server, walk, settled, history>>
    BY <1>3 DEF Stored
  <2>2. Arrives(storing.record, storing.id) /\ server = "stopping"
    BY <2>1, StoreArrives, StoringFacts
  <2>3. Recorded' = Recorded /\ Expected' = Expected
    BY <2>1 DEF Recorded, Expected
  <2>4. Orderly'
    BY <2>1, <2>2, <2>3 DEF Orderly, InTable, Arrives
  <2>5. Quiet'
    BY <2>1, <2>2, <2>3 DEF Quiet
  <2> QED BY <2>4, <2>5
<1>4. CASE StopFails
  BY <1>4, Unsettled DEF StopFails
<1>5. CASE StopDone
  <2>1. /\ server' = "stopped"
        /\ UNCHANGED <<agent, run, rows, records, storing, walk, settled, history>>
    BY <1>5 DEF StopDone
  <2>2. Recorded' = Recorded /\ Expected' = Expected
    BY <2>1 DEF Recorded, Expected
  <2>3. Orderly'
    BY <2>1, <2>2 DEF Orderly, InTable
  <2>4. Quiet'
    BY <2>1, <2>2 DEF Quiet
  <2> QED BY <2>3, <2>4
<1>6. CASE Exit
  <2>1. /\ server' = "down" /\ state' = "gone" /\ ~settled' /\ row' = row /\ early' = early
        /\ table' = table /\ calm' = (calm /\ server = "stopped" /\ settled)
    BY <1>6 DEF Exit
  <2>2. ASSUME calm', ~early', row = "idle" PROVE NoneExpected
    <3>1. Expected = {} /\ server = "stopped" /\ settled
      BY <2>1, <2>2 DEF Quiet
    <3>2. \A i \in Recorded : table[i] = artifacts[i]
      BY <3>1 DEF Orderly, InTable, IInv, Places
    <3>3. \A i \in Ids : table[i] # None => i \in Recorded
      BY <3>1 DEF Orderly, IInv, Copies, Behind
    <3> QED BY <3>1, <3>2, <3>3 DEF NoneExpected, Expected
  <2> QED BY <2>1, <2>2 DEF Orderly, Quiet, NoneExpected
<1>7. CASE Start
  <2>1. server = "down" /\ ~settled /\ UNCHANGED <<row, table, settled, history>> /\ server' = "up"
    BY <1>7 DEF Start, IInv, Down
  <2>2. state' = "idle" => row = "idle" /\ artifacts' = table
    BY <1>7 DEF Start
  <2>3. ASSUME calm', ~early', state' = "idle" PROVE Expected' = {}
    <3>1. NoneExpected /\ artifacts' = table
      BY <2>1, <2>2, <2>3 DEF Quiet
    <3> QED BY <3>1 DEF NoneExpected, Expected, Recorded
  <2> QED BY <2>1, <2>3, Unsettled
<1> QED BY <1>1, <1>2, <1>3, <1>4, <1>5, <1>6, <1>7 DEF Server

LEMMA QuietStep == IInv /\ Orderly /\ Quiet /\ [Next]_vars => Orderly' /\ Quiet'
<1> SUFFICES ASSUME IInv, Orderly, Quiet, [Next]_vars PROVE Orderly' /\ Quiet'
  OBVIOUS
<1>1. CASE UNCHANGED vars
  BY <1>1 DEF vars, Orderly, InTable, Quiet, NoneExpected, Expected, Recorded
<1> QED BY <1>1, QuietRun, QuietAgent, QuietServer DEF Next

\* While a stop that began at rest walks over the artifacts, each is in the table,
\* on its way, or still to be saved; and what an idle agent has is settled, in
\* memory and in the table it is loaded from (executor.py:187-201, api.py:102-137).
THEOREM StopInvariance == Spec => [](IInv /\ Orderly /\ Quiet)
BY InitHolds, StepKeeps, QuietStarts, QuietStep, PTL DEF Spec

\* No artifact of an idle agent is still expected, whichever of its runs has ended
\* (executor.py:187-203, 266-293).
THEOREM IdleAreSettled == Spec => []IdleIsSettled
<1>1. Quiet => IdleIsSettled
  BY DEF Quiet, IdleIsSettled
<1> QED BY <1>1, StopInvariance, PTL

LEMMA StopSuffices == IInv /\ Orderly => StopKeepsArtifacts
<1> SUFFICES ASSUME IInv, Orderly, server = "stopped", settled PROVE table = artifacts
  BY DEF StopKeepsArtifacts
<1>1. \A i \in Recorded : table[i] = artifacts[i]
  BY DEF Orderly, InTable, IInv, Places
<1>2. \A i \in Ids : i \notin Recorded => table[i] = None /\ artifacts[i] = None
  BY DEF Orderly, IInv, Copies, Behind, Recorded
<1> QED BY <1>1, <1>2 DEF IInv, TypeOK

\* A stop that begins at rest, and goes through, leaves the artifacts in the table
\* as they are in memory (api.py:120-137).
THEOREM StopIsWhole == Spec => []StopKeepsArtifacts
BY StopInvariance, StopSuffices, PTL

LEMMA PublishedStep ==
    ASSUME IInv, Orderly, [Next]_vars, NEW i \in Ids,
           table[i] # None, table[i].status = "published",
           ~early, server # "stopping" \/ settled
    PROVE  table'[i] = table[i]
<1>1. ASSUME NEW r \in Runs, saving[r] # None,
             table' = [table EXCEPT ![saving[r].id] = saving[r].record]
      PROVE  table'[i] = table[i]
  <2>1. /\ Arrives(saving[r].record, saving[r].id) /\ state # "gone"
        /\ Behind(saving[r].record, saving[r].id)
    BY <1>1, SaveArrives, SavingFacts
  <2>2. saving[r].record = artifacts[saving[r].id]
    <3>1. CASE phase[r] = "seeding"
      BY <1>1, <3>1 DEF IInv, Alone, Seeder
    <3>2. CASE phase[r] = "checking"
      BY <1>1, <2>1, <3>2 DEF IInv, Order, Behind
    <3> QED BY <1>1, <3>1, <3>2 DEF IInv, Places
  <2>3. table[i] = artifacts[i]
    BY <2>1 DEF IInv, Copies, Behind
  <2> QED BY <2>1, <2>2, <2>3 DEF Arrives
<1>2. CASE Stored
  <2>1. /\ Arrives(storing.record, storing.id) /\ state # "gone" /\ server = "stopping"
        /\ storing # None
    BY <1>2, StoreArrives, StoringFacts DEF Stored
  <2>2. storing.record = artifacts[storing.id]
    BY <2>1 DEF Orderly
  <2>3. table[i] = artifacts[i]
    BY <2>1 DEF IInv, Copies, Behind
  <2> QED BY <2>1, <2>2, <2>3 DEF Arrives
<1>3. ASSUME NEW r \in Runs, Run(r) PROVE table'[i] = table[i]
  BY <1>1, <1>3 DEF Run, StartRun, Begin, SeedNext, Saved, SaveFails, RunEnds, Check, RunFails
<1>4. CASE Agent
  <2>1. ASSUME NEW tool \in BOOLEAN, CutShort(tool) PROVE table'[i] = table[i]
    BY <1>1, <2>1 DEF CutShort, Cancel, IInv, TypeOK
  <2>2. CASE ~\E tool \in BOOLEAN : CutShort(tool)
    BY <1>4, <2>2 DEF Agent, SaveAgent, Wake, AgentSaved, AgentUnsaved, Publish
  <2> QED BY <2>1, <2>2
<1>5. CASE Server
  BY <1>2, <1>5 DEF Server, BeginStop, StopFails, StopDone, Exit, Start, Store
<1>6. CASE UNCHANGED vars
  BY <1>6 DEF vars
<1> QED BY <1>3, <1>4, <1>5, <1>6 DEF Next

\* No save that arrives late takes back that an artifact is published
\* (executor.py:266-293, 430-445, db.py:310-346).
THEOREM PublishedForGood == Spec => PublishedStays
<1>1. IInv /\ Orderly /\ [Next]_vars =>
          [\A i \in Ids :
              /\ table[i] # None /\ table[i].status = "published"
              /\ ~early /\ (server # "stopping" \/ settled)
              => table'[i] = table[i]]_vars
  BY PublishedStep
<1> QED BY <1>1, StopInvariance, PTL DEF Spec, PublishedStays

\* Every variable has its type.
THEOREM TypeCorrect == Spec => []TypeOK
BY Invariance, PTL DEF IInv
=============================================================================
