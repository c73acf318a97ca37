------------------------- MODULE PersistenceProofs -------------------------
(***************************************************************************)
(* Proofs about Persistence, for every tree of places, every staff and     *)
(* every number of saves in flight.                                        *)
(***************************************************************************)
EXTENDS Persistence, TLAPS

USE NoneAssumption

-----------------------------------------------------------------------------
\* The inductive invariant, part by part.

\* A save that waits for its turn has an agent to read, the server's own saves are
\* those of its walk, one at a time, and there are none of a server that is down.
Flight ==
    /\ \A s \in Slots : saves[s] # None =>
          /\ mode \notin {"down", "loading"}
          /\ saves[s].row = None => Present(saves[s].at)
          /\ saves[s].last => mode = "stopping"
    /\ \A s, t \in Slots :
          saves[s] # None /\ saves[t] # None /\ saves[s].last /\ saves[t].last => s = t

\* What is still to be saved or restored, and when.
Pending ==
    /\ mode = "down" => nodes = Empty
    /\ mode # "loading" => loading = {}
    /\ mode # "stopping" => walk = {}
    /\ \A l \in walk : Present(l)
    /\ \A i \in loading : Live(rows[i])

\* An agent's row is the one of its id.
Keyed == \A i \in Ids : rows[i] # None => Id(rows[i].home) = i

IInv == TypeOK /\ Flight /\ Pending /\ Keyed


-----------------------------------------------------------------------------
\* Ids, places and rows.

LEMMA IdOfRoot == \A i : Id(<<i>>) = i /\ Len(<<i>>) = 1
BY DEF Id

LEMMA HomesArePlaces ==
    /\ Homes \subseteq Places /\ Paths \subseteq Homes
    /\ \A h \in Homes : Id(h) \in Ids
    /\ \A i \in Ids : <<i>> \in Places
BY IdOfRoot DEF Homes, Places, Ids

\* What an agent is saved as is a row.
LEMMA RowKeeps ==
    \A n \in Nodes : /\ Row(n) \in Rows /\ Row(n) # None
                     /\ Row(n).home = n.home /\ Row(n).state = n.state
BY DEF Row, Nodes, Rows

LEMMA SaveParts ==
    \A v \in Saves :
        /\ v.row = None => v.at \in Places /\ v.last = FALSE
        /\ v.row # None => v.row \in Rows /\ v.at = None
        /\ v.last \in BOOLEAN
BY DEF Saves

LEMMA SaveOfRow ==
    \A r \in Rows, last \in BOOLEAN :
        LET v == [at |-> None, row |-> r, last |-> last]
        IN  v \in Saves /\ v # None /\ v.row = r /\ v.row # None /\ v.last = last
<1> SUFFICES ASSUME NEW r \in Rows, NEW last \in BOOLEAN,
                    NEW v, v = [at |-> None, row |-> r, last |-> last]
             PROVE  v \in Saves /\ v # None /\ v.row = r /\ v.row # None /\ v.last = last
  OBVIOUS
<1>1. v \in [at : {None}, row : Rows, last : BOOLEAN]
  OBVIOUS
<1>2. v \in Saves
  BY <1>1 DEF Saves
<1> QED BY <1>2

LEMMA SaveOfPlace ==
    \A l \in Places :
        LET v == [at |-> l, row |-> None, last |-> FALSE]
        IN  v \in Saves /\ v # None /\ v.at = l /\ v.row = None /\ v.last = FALSE
<1> SUFFICES ASSUME NEW l \in Places,
                    NEW v, v = [at |-> l, row |-> None, last |-> FALSE]
             PROVE  v \in Saves /\ v # None /\ v.at = l /\ v.row = None /\ v.last = FALSE
  OBVIOUS
<1>1. v \in [at : Places, row : {None}, last : {FALSE}]
  OBVIOUS
<1>2. v \in Saves
  BY <1>1 DEF Saves
<1> QED BY <1>2

LEMMA StatusKeeps == \A t \in DOMAIN StateMap : StateMap[t] \in States
BY DEF StateMap, States

LEMMA InitHolds == Init => IInv
<1> SUFFICES ASSUME Init PROVE IInv
  OBVIOUS
<1>1. TypeOK
  BY DEF Init, TypeOK, Modes, Empty
<1>2. Flight /\ Pending /\ Keyed
  BY DEF Init, Flight, Pending, Keyed, Empty
<1> QED BY <1>1, <1>2 DEF IInv

-----------------------------------------------------------------------------
\* Steps of agents: none disappears.

NodesKept ==
    /\ nodes' \in [Places -> Nodes \cup {None}]
    /\ \A l \in Places : nodes'[l] = None <=> nodes[l] = None

\* A save that is sent in its agent's step.
LEMMA SendKeeps ==
    ASSUME IInv, NodesKept, NEW s \in Slots, NEW n \in Nodes, NEW last \in BOOLEAN,
           Send(s, n, last), mode \notin {"down", "loading"}, mode' = mode,
           last => mode = "stopping" /\ ~Walking
    PROVE  saves' \in [Slots -> Saves \cup {None}] /\ Flight'
<1>1. PICK v : v = [at |-> None, row |-> Row(n), last |-> last]
  OBVIOUS
<1>2. v \in Saves /\ v # None /\ v.row # None /\ v.last = last
  BY <1>1, RowKeeps, SaveOfRow
<1>3. saves' = [saves EXCEPT ![s] = v]
  BY <1>1 DEF Send
<1>4. saves' \in [Slots -> Saves \cup {None}]
  BY <1>2, <1>3 DEF IInv, TypeOK
<1>5. saves'[s] = v /\ \A t \in Slots : t # s => saves'[t] = saves[t]
  BY <1>3 DEF IInv, TypeOK
<1>6. ASSUME NEW t \in Slots, saves'[t] # None
      PROVE  /\ mode' \notin {"down", "loading"}
             /\ saves'[t].row = None => nodes'[saves'[t].at] # None
             /\ saves'[t].last => mode' = "stopping"
  <2>1. CASE t = s
    BY <2>1, <1>2, <1>5
  <2>2. CASE t # s
    <3>1. saves[t] \in Saves /\ saves'[t] = saves[t]
      BY <1>5, <1>6, <2>2 DEF IInv, TypeOK
    <3>2. saves[t].row = None => saves[t].at \in Places
      BY <3>1, SaveParts
    <3> QED BY <1>6, <3>1, <3>2 DEF IInv, Flight, NodesKept, Present
  <2> QED BY <2>1, <2>2
<1>7. \A t, u \in Slots :
         saves'[t] # None /\ saves'[u] # None /\ saves'[t].last /\ saves'[u].last => t = u
  <2>1. CASE last
    <3>1. \A t \in Slots : saves[t] # None => ~saves[t].last
      BY <2>1 DEF Walking
    <3> QED BY <1>5, <3>1
  <2>2. CASE ~last
    <3>1. ~v.last
      BY <1>2, <2>2
    <3>2. \A t, u \in Slots :
             saves[t] # None /\ saves[u] # None /\ saves[t].last /\ saves[u].last => t = u
      BY DEF IInv, Flight
    <3>3. ASSUME NEW t \in Slots, NEW u \in Slots, saves'[t] # None, saves'[u] # None,
                 saves'[t].last, saves'[u].last
          PROVE  t = u
      <4>1. t # s /\ u # s
        BY <1>5, <3>1, <3>3
      <4>2. saves'[t] = saves[t] /\ saves'[u] = saves[u]
        BY <1>5, <4>1
      <4> QED BY <3>2, <3>3, <4>2
    <3> QED BY <3>3
  <2> QED BY <2>1, <2>2
<1> QED BY <1>4, <1>6, <1>7 DEF Flight, Present

\* Steps in which no save begins or ends.
LEMMA AgentStep ==
    ASSUME IInv, NodesKept, UNCHANGED <<mode, rows, saves, walk, loading, clean>>,
           mode \notin {"down", "loading"}
    PROVE  IInv'
<1>1. TypeOK'
  BY DEF IInv, TypeOK, NodesKept
<1>2. Flight'
  <2>1. \A s \in Slots : saves[s] # None /\ saves[s].row = None => saves[s].at \in Places
    BY SaveParts DEF IInv, TypeOK
  <2> QED BY <2>1 DEF IInv, Flight, NodesKept, Present
<1>3. Pending'
  BY DEF IInv, Pending, NodesKept, Present, TypeOK
<1>4. Keyed'
  BY DEF IInv, Keyed
<1> QED BY <1>1, <1>2, <1>3, <1>4 DEF IInv

\* ... in which one is sent.
LEMMA SendingStep ==
    ASSUME IInv, NodesKept, UNCHANGED <<mode, rows, loading, clean>>,
           NEW s \in Slots, NEW n \in Nodes, NEW last \in BOOLEAN, Send(s, n, last),
           mode \notin {"down", "loading"}, walk' \subseteq walk,
           last => mode = "stopping" /\ ~Walking
    PROVE  IInv'
<1>1. saves' \in [Slots -> Saves \cup {None}] /\ Flight'
  BY SendKeeps
<1>2. TypeOK'
  BY <1>1 DEF IInv, TypeOK, NodesKept
<1>3. Pending'
  BY DEF IInv, Pending, NodesKept, Present, TypeOK
<1>4. Keyed'
  BY DEF IInv, Keyed
<1> QED BY <1>1, <1>2, <1>3, <1>4 DEF IInv

-----------------------------------------------------------------------------
\* The agents' operations, one by one.

LEMMA BecomesKeeps ==
    ASSUME IInv, NEW l \in Places, NEW from, NEW to \in States, NEW busy \in BOOLEAN,
           mode \in Serving, Becomes(l, from, to, busy)
    PROVE  IInv'
<1>1. nodes[l] \in Nodes
  BY DEF Becomes, Present, IInv, TypeOK
<1>2. PICK n : n = [nodes[l] EXCEPT !.state = to, !.busy = @ \/ busy]
  OBVIOUS
<1>3. n \in Nodes
  BY <1>1, <1>2 DEF Nodes
<1>4. nodes' = [nodes EXCEPT ![l] = n]
  BY <1>1, <1>2 DEF Becomes, IInv, TypeOK
<1>5. NodesKept
  BY <1>1, <1>3, <1>4 DEF IInv, TypeOK, NodesKept
<1> QED BY <1>5, AgentStep DEF Becomes, Serving

LEMMA TerminateKeeps == ASSUME IInv, NEW l \in Places, Terminate(l) PROVE IInv'
<1>1. \A k \in Places : Present(k) =>
         [nodes[k] EXCEPT !.state = "dead"] \in Nodes
  BY DEF Present, IInv, TypeOK, Nodes, States
<1>2. NodesKept
  BY <1>1 DEF Terminate, NodesKept, IInv, TypeOK, Present
<1> QED BY <1>2, AgentStep DEF Terminate

LEMMA RunDroppedKeeps == ASSUME IInv, NEW l \in Places, RunDropped(l) PROVE IInv'
<1>1. nodes[l] \in Nodes
  BY DEF RunDropped, Present, IInv, TypeOK
<1>2. PICK n : n = [nodes[l] EXCEPT !.busy = FALSE]
  OBVIOUS
<1>3. n \in Nodes /\ nodes' = [nodes EXCEPT ![l] = n]
  BY <1>1, <1>2 DEF Nodes, RunDropped, IInv, TypeOK
<1>4. NodesKept
  BY <1>1, <1>3 DEF IInv, TypeOK, NodesKept
<1> QED BY <1>4, AgentStep DEF RunDropped, Serving

LEMMA RunEndsKeeps ==
    ASSUME IInv, NEW l \in Places, NEW to \in {"idle", "suspended"}, NEW s \in Slots,
           RunEnds(l, to, s)
    PROVE  IInv'
<1>1. nodes[l] \in Nodes
  BY DEF RunEnds, Present, IInv, TypeOK
<1>2. PICK n : n = [nodes[l] EXCEPT !.state = IF @ = "running" THEN to ELSE @,
                                   !.busy = FALSE]
  OBVIOUS
<1>3. n \in Nodes
  BY <1>1, <1>2 DEF Nodes, States
<1>4. nodes' = [nodes EXCEPT ![l] = n] /\ Send(s, n, FALSE)
  BY <1>2 DEF RunEnds
<1>5. NodesKept
  BY <1>1, <1>3, <1>4 DEF IInv, TypeOK, NodesKept
<1> QED BY <1>3, <1>4, <1>5, SendingStep DEF RunEnds, Serving

LEMMA SavesOfAgents ==
    ASSUME IInv, NEW l \in Places, NEW s \in Slots, SaveInRun(l, s) \/ SaveNode(l, s)
    PROVE  IInv'
<1>1. NodesKept
  BY DEF SaveInRun, SaveNode, NodesKept, IInv, TypeOK
<1>2. nodes[l] \in Nodes
  BY DEF SaveInRun, SaveNode, Present, IInv, TypeOK, Pending
<1>3. CASE SaveInRun(l, s)
  BY <1>1, <1>2, <1>3, SendingStep DEF SaveInRun
<1>4. CASE SaveNode(l, s)
  BY <1>1, <1>2, <1>4, SendingStep DEF SaveNode
<1> QED BY <1>3, <1>4

\* A new agent is there before its save is due.
LEMMA SpawnKeeps == ASSUME IInv, NEW l \in Places, NEW s \in Slots, Spawn(l, s) PROVE IInv'
<1>0. PICK h : h = HomeAt(l)
  OBVIOUS
<1>1. PICK n : n = [home |-> h, state |-> "running", busy |-> TRUE]
  OBVIOUS
<1>2. n \in Nodes /\ n # None
  <2>1. h \in Homes
    BY <1>0, HomesArePlaces DEF Spawn
  <2>2. "running" \in States
    BY DEF States
  <2>3. n \in Nodes
    BY <1>1, <2>1, <2>2 DEF Nodes
  <2> QED BY <2>3
<1>3. nodes' = [nodes EXCEPT ![l] = n]
  BY <1>0, <1>1 DEF Spawn
<1>4. nodes' \in [Places -> Nodes \cup {None}] /\ nodes'[l] = n
      /\ \A k \in Places : k # l => nodes'[k] = nodes[k]
  BY <1>2, <1>3 DEF IInv, TypeOK
<1>5. PICK v : v = [at |-> l, row |-> None, last |-> FALSE]
  OBVIOUS
<1>6. v \in Saves /\ v # None /\ v.at = l /\ v.row = None /\ v.last = FALSE
  BY <1>5, SaveOfPlace
<1>7. saves' = [saves EXCEPT ![s] = v]
  BY <1>5 DEF Spawn
<1>8. saves' \in [Slots -> Saves \cup {None}] /\ saves'[s] = v
      /\ \A t \in Slots : t # s => saves'[t] = saves[t]
  BY <1>6, <1>7 DEF IInv, TypeOK
<1>9. mode' = mode /\ mode \in {"up", "stopping"} /\ walk' \subseteq walk \cup {l}
      /\ rows' = rows /\ loading' = loading
      /\ clean' \in {clean, Empty} /\ (mode # "stopping" => walk' = walk)
  BY DEF Spawn
<1>10. TypeOK'
  BY <1>4, <1>8, <1>9 DEF IInv, TypeOK, Empty
<1>11. Flight'
  <2>1. ASSUME NEW t \in Slots, saves'[t] # None
        PROVE  /\ saves'[t].row = None => nodes'[saves'[t].at] # None
               /\ saves'[t].last => mode' = "stopping"
    <3>1. CASE t = s
      BY <3>1, <1>2, <1>4, <1>6, <1>8 DEF Present
    <3>2. CASE t # s
      <4>1. saves[t] \in Saves /\ saves'[t] = saves[t]
        BY <2>1, <3>2, <1>8 DEF IInv, TypeOK
      <4>2. saves[t].row = None => saves[t].at \in Places
        BY <4>1, SaveParts
      <4> QED BY <1>2, <1>4, <1>9, <2>1, <4>1, <4>2 DEF IInv, Flight, Present
    <3> QED BY <3>1, <3>2
  <2>2. \A t, u \in Slots :
           saves'[t] # None /\ saves'[u] # None /\ saves'[t].last /\ saves'[u].last => t = u
    <3>1. ~v.last
      BY <1>6
    <3>2. \A t, u \in Slots :
             saves[t] # None /\ saves[u] # None /\ saves[t].last /\ saves[u].last => t = u
      BY DEF IInv, Flight
    <3>3. ASSUME NEW t \in Slots, NEW u \in Slots, saves'[t] # None, saves'[u] # None,
                 saves'[t].last, saves'[u].last
          PROVE  t = u
      <4>1. t # s /\ u # s
        BY <1>8, <3>1, <3>3
      <4>2. saves'[t] = saves[t] /\ saves'[u] = saves[u]
        BY <1>8, <4>1
      <4> QED BY <3>2, <3>3, <4>2
    <3> QED BY <3>3
  <2> QED BY <1>9, <2>1, <2>2 DEF Flight, Present
<1>12. Pending'
  BY <1>2, <1>4, <1>9 DEF IInv, Pending, Present, TypeOK
<1>13. Keyed'
  BY <1>9 DEF IInv, Keyed
<1> QED BY <1>10, <1>11, <1>12, <1>13 DEF IInv

-----------------------------------------------------------------------------
\* The steps of saves, the dashboard's and the server's.

LEMMA ReadAgentKeeps == ASSUME IInv, NEW s \in Slots, ReadAgent(s) PROVE IInv'
<1>1. saves[s] \in Saves /\ saves[s].at \in Places /\ saves[s].last = FALSE
  BY SaveParts DEF ReadAgent, IInv, TypeOK
<1>2. nodes[saves[s].at] \in Nodes
  BY <1>1 DEF ReadAgent, IInv, Flight, TypeOK, Present
<1>3. PICK v : v = [saves[s] EXCEPT !.at = None, !.row = Row(nodes[saves[s].at])]
  OBVIOUS
<1>4. v = [at |-> None, row |-> Row(nodes[saves[s].at]), last |-> FALSE]
  BY <1>1, <1>3 DEF Saves
<1>5. v \in Saves /\ v # None /\ v.row # None /\ v.last = FALSE
  BY <1>2, <1>4, RowKeeps, SaveOfRow
<1>6. saves' = [saves EXCEPT ![s] = v]
  BY <1>3 DEF ReadAgent, IInv, TypeOK
<1>7. saves' \in [Slots -> Saves \cup {None}] /\ saves'[s] = v
      /\ \A t \in Slots : t # s => saves'[t] = saves[t]
  BY <1>5, <1>6 DEF IInv, TypeOK
<1>8. TypeOK'
  BY <1>7 DEF ReadAgent, IInv, TypeOK
<1>9. Flight'
  BY <1>5, <1>7 DEF ReadAgent, IInv, Flight, Present
<1>10. Pending' /\ Keyed'
  BY DEF ReadAgent, IInv, Pending, Keyed, Present
<1> QED BY <1>8, <1>9, <1>10 DEF IInv

LEMMA CommitKeeps == ASSUME IInv, NEW s \in Slots, Commit(s) PROVE IInv'
<1>1. PICK r : r = saves[s].row
  OBVIOUS
<1>2. r \in Rows /\ Id(r.home) \in Ids
  BY <1>1, SaveParts, HomesArePlaces DEF Commit, IInv, TypeOK, Rows
<1>3. rows' = [rows EXCEPT ![Id(r.home)] = r] /\ saves' = [saves EXCEPT ![s] = None]
  BY <1>1 DEF Commit
<1>4. TypeOK'
  BY <1>2, <1>3 DEF Commit, IInv, TypeOK
<1>5. Keyed'
  BY <1>2, <1>3 DEF IInv, Keyed, TypeOK
<1>6. Flight' /\ Pending'
  BY <1>3 DEF Commit, IInv, Flight, Pending, TypeOK, Present
<1> QED BY <1>4, <1>5, <1>6 DEF IInv

LEMMA SaveFailsKeeps == ASSUME IInv, NEW s \in Slots, SaveFails(s) PROVE IInv'
<1>1. saves' = [saves EXCEPT ![s] = None] /\ UNCHANGED <<nodes, rows, loading>>
  BY DEF SaveFails
<1>2. saves[s] # None /\ saves[s] \in Saves /\ saves[s].last \in BOOLEAN
  BY SaveParts DEF SaveFails, IInv, TypeOK
<1>3. CASE saves[s].last
  <2>1. mode' = "cancelling" /\ walk' = {} /\ clean' = Empty /\ mode = "stopping"
    BY <1>2, <1>3 DEF SaveFails, IInv, Flight
  <2>2. TypeOK'
    BY <1>1, <2>1 DEF IInv, TypeOK, Empty, Modes
  <2>3. Flight'
    BY <1>1, <1>2, <1>3, <2>1 DEF IInv, Flight, TypeOK, Present
  <2>4. Pending' /\ Keyed'
    BY <1>1, <2>1 DEF IInv, Pending, Keyed, Present
  <2> QED BY <2>2, <2>3, <2>4 DEF IInv
<1>4. CASE ~saves[s].last
  <2>1. UNCHANGED <<mode, walk, clean>>
    BY <1>4 DEF SaveFails
  <2>2. TypeOK'
    BY <1>1, <2>1 DEF IInv, TypeOK
  <2>3. Flight' /\ Pending' /\ Keyed'
    BY <1>1, <2>1 DEF IInv, Flight, Pending, Keyed, TypeOK, Present
  <2> QED BY <2>2, <2>3 DEF IInv
<1> QED BY <1>2, <1>3, <1>4

\* The dashboard writes an employee's row under the employee's id.
LEMMA HireKeeps == ASSUME IInv, NEW i \in Ids, Hire(i) PROVE IInv'
<1>1. PICK r : r = [home |-> <<i>>, state |-> "idle"]
  OBVIOUS
<1>2. r \in Rows /\ Id(r.home) = i
  BY <1>1, IdOfRoot DEF Hire, Rows, Homes, States
<1>3. rows' = [rows EXCEPT ![i] = r] /\ UNCHANGED <<mode, nodes, saves, walk, loading, clean>>
      /\ mode = "up"
  BY <1>1 DEF Hire
<1>4. TypeOK' /\ Keyed'
  BY <1>2, <1>3 DEF IInv, TypeOK, Keyed
<1>5. Flight' /\ Pending'
  BY <1>3 DEF IInv, Flight, Pending, Present
<1> QED BY <1>4, <1>5 DEF IInv

LEMMA SetStatusKeeps ==
    ASSUME IInv, NEW i \in Ids, NEW t \in DOMAIN StateMap, SetStatus(i, t) PROVE IInv'
<1>1. rows[i] \in Rows /\ Id(rows[i].home) = i
  BY DEF SetStatus, IInv, TypeOK, Keyed
<1>2. PICK r : r = [rows[i] EXCEPT !.state = StateMap[t]]
  OBVIOUS
<1>3. r \in Rows /\ r.home = rows[i].home
  BY <1>1, <1>2, StatusKeeps DEF Rows
<1>4. rows' = [rows EXCEPT ![i] = r] /\ UNCHANGED <<mode, nodes, saves, walk, loading, clean>>
      /\ mode = "up"
  BY <1>2 DEF SetStatus, IInv, TypeOK
<1>5. TypeOK' /\ Keyed'
  BY <1>1, <1>3, <1>4 DEF IInv, TypeOK, Keyed
<1>6. Flight' /\ Pending'
  BY <1>4 DEF IInv, Flight, Pending, Present
<1> QED BY <1>5, <1>6 DEF IInv

\* A row is restored as an agent at its path or, without a parent, as a root.
Back(i) == [home |-> rows[i].home, state |-> rows[i].state, busy |-> FALSE]

LEMMA RestoreAdds ==
    ASSUME IInv, NEW i \in Ids, Restore(i)
    PROVE  /\ Back(i) \in Nodes /\ Back(i) # None
           /\ Row(Back(i)) = rows[i] /\ Id(Back(i).home) = i
           /\ \E l \in Places : Id(l) = i /\ nodes' = [nodes EXCEPT ![l] = Back(i)]
<1>1. rows[i] \in Rows /\ Id(rows[i].home) = i
  BY DEF Restore, IInv, TypeOK, Keyed, Pending, Live
<1>2. Back(i) \in Nodes /\ Back(i).home = rows[i].home
  BY <1>1 DEF Back, Rows, Nodes
<1>3. Row(Back(i)) = rows[i]
  BY <1>1 DEF Row, Back, Rows
<1>4. rows[i].home \in Places /\ <<i>> \in Places /\ Id(<<i>>) = i
  BY <1>1, IdOfRoot, HomesArePlaces DEF Rows
<1>5. \/ nodes' = [nodes EXCEPT ![rows[i].home] = Back(i)]
      \/ nodes' = [nodes EXCEPT ![<<i>>] = Back(i)]
  BY DEF Restore, Back
<1> QED BY <1>1, <1>2, <1>3, <1>4, <1>5

LEMMA RestoreKeeps ==
    ASSUME IInv, NEW i \in Ids, Restore(i)
    PROVE  IInv'
<1>1. mode = "loading" /\ i \in loading /\ loading' = loading \ {i}
      /\ UNCHANGED <<mode, rows, saves, walk, clean>>
  BY DEF Restore
<1>2. Back(i) \in Nodes
  BY <1>1, RestoreAdds
<1>3. PICK l \in Places : nodes' = [nodes EXCEPT ![l] = Back(i)]
  BY <1>1, RestoreAdds
<1>4. TypeOK'
  BY <1>1, <1>2, <1>3 DEF IInv, TypeOK
<1>5. Flight' /\ Pending' /\ Keyed'
  BY <1>1, <1>2, <1>3 DEF IInv, Flight, Pending, Keyed, TypeOK
<1> QED BY <1>4, <1>5 DEF IInv

LEMMA ServerKeeps == ASSUME IInv, Server PROVE IInv'
<1> USE DEF IInv
<1>1. CASE BeginStop
  <2>1. TypeOK'
    BY <1>1 DEF BeginStop, TypeOK, Modes, Empty
  <2> QED BY <1>1, <2>1 DEF BeginStop, Flight, Pending, Keyed, Present
<1>2. CASE CancelTasks
  <2>1. TypeOK'
    BY <1>2 DEF CancelTasks, TypeOK, Modes
  <2>2. Flight'
    BY <1>2 DEF CancelTasks, Flight, Walking, Present
  <2> QED BY <1>2, <2>1, <2>2 DEF CancelTasks, Pending, Keyed
<1>3. CASE Exit
  <2>1. TypeOK'
    BY <1>3 DEF Exit, TypeOK, Modes, Empty
  <2>2. Flight'
    BY <1>3 DEF Exit, Flight
  <2> QED BY <1>3, <2>1, <2>2 DEF Exit, Pending, Keyed, Empty
<1>4. CASE Crash
  <2>1. TypeOK'
    BY <1>4 DEF Crash, TypeOK, Modes, Empty
  <2>2. Flight'
    BY <1>4 DEF Crash, Flight
  <2> QED BY <1>4, <2>1, <2>2 DEF Crash, Pending, Keyed, Empty
<1>5. CASE Start
  <2>1. TypeOK'
    BY <1>5 DEF Start, TypeOK, Modes
  <2>2. Flight'
    BY <1>5 DEF Start, Flight
  <2> QED BY <1>5, <2>1, <2>2 DEF Start, Pending, Keyed, Empty, Present
<1>6. CASE Open
  <2>1. TypeOK'
    BY <1>6 DEF Open, TypeOK, Modes, Empty
  <2>2. Flight'
    BY <1>6 DEF Open, Flight
  <2> QED BY <1>6, <2>1, <2>2 DEF Open, Pending, Keyed, Present
<1> QED BY <1>1, <1>2, <1>3, <1>4, <1>5, <1>6 DEF Server

LEMMA NextKeeps == ASSUME IInv, [Next]_vars PROVE IInv'
<1>1. CASE UNCHANGED vars
  BY <1>1 DEF vars, IInv, TypeOK, Flight, Pending, Keyed, Present
<1>2. ASSUME NEW l \in Places, Operation(l) PROVE IInv'
  <2>1. CASE Suspend(l) \/ Resume(l) \/ Restart(l) \/ Trigger(l) \/ SendMessage(l)
    <3>1. "suspended" \in States /\ "running" \in States
      BY DEF States
    <3> QED BY <2>1, <3>1, BecomesKeeps
           DEF Suspend, Resume, Restart, Trigger, SendMessage, Serving
  <2>2. CASE Terminate(l) \/ RunDropped(l)
    BY <2>2, TerminateKeeps, RunDroppedKeeps
  <2>3. ASSUME NEW s \in Slots, Spawn(l, s) \/ SaveInRun(l, s) \/ SaveNode(l, s) PROVE IInv'
    BY <2>3, SpawnKeeps, SavesOfAgents
  <2>4. ASSUME NEW s \in Slots, NEW to \in {"idle", "suspended"}, RunEnds(l, to, s) PROVE IInv'
    BY <2>4, RunEndsKeeps
  <2> QED BY <1>2, <2>1, <2>2, <2>3, <2>4 DEF Operation
<1>3. ASSUME NEW s \in Slots, ReadAgent(s) \/ Commit(s) \/ SaveFails(s) PROVE IInv'
  BY <1>3, ReadAgentKeeps, CommitKeeps, SaveFailsKeeps
<1>4. ASSUME NEW i \in Ids, Hire(i) \/ Restore(i) \/ \E t \in DOMAIN StateMap : SetStatus(i, t)
      PROVE  IInv'
  BY <1>4, HireKeeps, RestoreKeeps, SetStatusKeeps
<1>5. CASE Server
  BY <1>5, ServerKeeps
<1> QED BY <1>1, <1>2, <1>3, <1>4, <1>5 DEF Next

-----------------------------------------------------------------------------
\* What the start brings back.

\* While the rows are restored: each place holds the agent of a live row that had
\* its turn, under that row's id, and every such row has its place, one only.
Restored ==
    mode = "loading" =>
        /\ \A l \in Places : Present(l) =>
              LET i == Id(nodes[l].home)
              IN  i \notin loading /\ i = Id(l) /\ Live(rows[i]) /\ Row(nodes[l]) = rows[i]
        /\ OneRowEach(nodes)
        /\ \A i \in Ids : Live(rows[i]) /\ i \notin loading =>
              \E l \in Places : Present(l) /\ Id(nodes[l].home) = i


\* While the server loads, nothing else changes the tree and the table.
LEMMA LoadingSteps ==
    ASSUME IInv, [Next]_vars, mode' = "loading"
    PROVE  UNCHANGED vars \/ Start \/ \E i \in Ids : Restore(i)
<1>1. mode \in {"down", "loading"} => \A s \in Slots : saves[s] = None
  BY DEF IInv, Flight
<1>2. ASSUME NEW l \in Places, Operation(l) PROVE FALSE
  BY <1>2 DEF Operation, Suspend, Resume, Restart, Trigger, SendMessage, Becomes,
     Terminate, RunDropped, Serving, Spawn, SaveInRun, SaveNode, RunEnds
<1>3. ASSUME NEW s \in Slots, ReadAgent(s) \/ Commit(s) \/ SaveFails(s) PROVE FALSE
  <2>1. mode' = mode \/ mode' = "cancelling"
    BY <1>3 DEF ReadAgent, Commit, SaveFails
  <2>2. saves[s] # None
    BY <1>3 DEF ReadAgent, Commit, SaveFails
  <2> QED BY <1>1, <2>1, <2>2
<1>4. ASSUME NEW i \in Ids, Hire(i) \/ \E t \in DOMAIN StateMap : SetStatus(i, t) PROVE FALSE
  BY <1>4 DEF Hire, SetStatus
<1>5. Server => Start
  BY DEF Server, BeginStop, CancelTasks, Exit, Crash, Open
<1> QED BY <1>2, <1>3, <1>4, <1>5 DEF Next

LEMMA RestoredKeeps == ASSUME IInv, Restored, [Next]_vars PROVE Restored'
<1> SUFFICES ASSUME mode' = "loading" PROVE Restored'
  BY DEF Restored
<1>1. CASE UNCHANGED vars
  BY <1>1 DEF vars, Restored, Present, OneRowEach
<1>2. CASE Start
  <2>1. nodes' = Empty /\ loading' = {i \in Ids : Live(rows[i])} /\ rows' = rows
    BY <1>2 DEF Start, IInv, Pending
  <2> QED BY <2>1 DEF Restored, Empty, Present, OneRowEach, Live
<1>3. ASSUME NEW i \in Ids, Restore(i) PROVE Restored'
  <2>1. mode = "loading" /\ i \in loading /\ loading' = loading \ {i} /\ rows' = rows
    BY <1>3 DEF Restore
  <2>2. PICK n : n = Back(i)
    OBVIOUS
  <2>3. n \in Nodes /\ n # None /\ Row(n) = rows[i] /\ Id(n.home) = i
    BY <1>3, <2>2, RestoreAdds
  <2>4. PICK l \in Places : Id(l) = i /\ nodes' = [nodes EXCEPT ![l] = n]
    BY <1>3, <2>2, RestoreAdds
  <2>5. nodes'[l] = n /\ \A k \in Places : k # l => nodes'[k] = nodes[k]
    BY <2>4 DEF IInv, TypeOK
  <2>6. nodes[l] = None
    BY <2>1, <2>4 DEF Restored, Present
  <2>7. Live(rows[i])
    BY <2>1 DEF IInv, Pending
  <2>8. \A k \in Places : nodes[k] # None => Id(nodes[k].home) # i
    BY <2>1 DEF Restored, Present
  <2>9. ASSUME NEW k \in Places, nodes'[k] # None
        PROVE  /\ Id(nodes'[k].home) \notin loading' /\ Id(nodes'[k].home) = Id(k)
               /\ Live(rows'[Id(nodes'[k].home)]) /\ Row(nodes'[k]) = rows'[Id(nodes'[k].home)]
    <3>1. CASE k = l
      BY <3>1, <2>1, <2>3, <2>4, <2>5, <2>7
    <3>2. CASE k # l
      BY <3>2, <2>1, <2>5, <2>9 DEF Restored, Present
    <3> QED BY <3>1, <3>2
  <2>10. OneRowEach(nodes')
    BY <2>1, <2>3, <2>5, <2>8 DEF Restored, OneRowEach
  <2>11. ASSUME NEW j \in Ids, Live(rows'[j]), j \notin loading'
         PROVE  \E k \in Places : nodes'[k] # None /\ Id(nodes'[k].home) = j
    <3>1. CASE j = i
      BY <3>1, <2>3, <2>5
    <3>2. CASE j # i
      <4>1. PICK k \in Places : nodes[k] # None /\ Id(nodes[k].home) = j
        BY <3>2, <2>1, <2>11 DEF Restored, Present
      <4>2. k # l
        BY <4>1, <2>6
      <4> QED BY <4>1, <4>2, <2>5
    <3> QED BY <3>1, <3>2
  <2> QED BY <2>9, <2>10, <2>11 DEF Restored, Present
<1> QED BY <1>1, <1>2, <1>3, LoadingSteps

LEMMA BackOnce == IInv /\ Restored => LiveRowsReturn
<1> SUFFICES ASSUME IInv, Restored, Loaded, NEW i \in Ids, Live(rows[i])
             PROVE  \E l \in Places :
                       /\ Present(l) /\ Row(nodes[l]) = rows[i]
                       /\ \A k \in Places : Present(k) /\ Id(nodes[k].home) = i => k = l
  BY DEF LiveRowsReturn
<1>1. PICK l \in Places : Present(l) /\ Id(nodes[l].home) = i
  BY DEF Loaded, Restored
<1>2. Row(nodes[l]) = rows[i]
  BY <1>1 DEF Loaded, Restored
<1>3. \A k \in Places : Present(k) /\ Id(nodes[k].home) = i => k = l
  BY <1>1 DEF Loaded, Restored, OneRowEach, Present
<1> QED BY <1>1, <1>2, <1>3

-----------------------------------------------------------------------------
\* What an orderly stop leaves.
\* A row from which the agent that was at l when the stop began comes back.
Faithful(r, l) ==
    /\ r # None /\ clean[l] # None
    /\ r.home = clean[l].home
    /\ r.state = "dead" <=> clean[l].state = "dead"
    /\ ~clean[l].busy => KeepsState(l, r.state)

RowOf(l) == rows[Id(clean[l].home)]

\* In the order of the modes: agents and saves are as they were, or as work under
\* way makes them; an agent is still to be saved, is being saved, or is saved; and
\* then all of them are.
Stopped ==
    /\ OneRowEach(clean)
    /\ mode \in {"stopping", "cancelling"} /\ clean # Empty =>
          /\ \A l \in Places :
                /\ nodes[l] = None <=> clean[l] = None
                /\ clean[l] # None => Faithful(Row(nodes[l]), l) /\ (nodes[l].busy => clean[l].busy)
          /\ \A s \in Slots : saves[s] # None =>
                saves[s].row # None /\ \E l \in Places : Faithful(saves[s].row, l)
    /\ mode = "stopping" => \A l \in Places : clean[l] # None =>
          \/ l \in walk
          \/ \E s \in Slots :
                saves[s] # None /\ saves[s].last /\ saves[s].row.home = clean[l].home
          \/ Faithful(RowOf(l), l)
    /\ mode \in {"cancelling", "down", "loading"} =>
          \A l \in Places : clean[l] # None => Faithful(RowOf(l), l)

\* Nothing is promised of a stop that was not orderly.
LEMMA Forgotten == ASSUME clean' = Empty PROVE Stopped'
<1>1. \A l \in Places : clean'[l] = None
  BY DEF Empty
<1> QED BY <1>1 DEF Stopped, OneRowEach

\* ... nor before the server stops.
LEMMA BeforeStop == ASSUME Stopped, mode' = "up", clean' = clean PROVE Stopped'
BY DEF Stopped

\* A row from which one agent comes back is that agent's.
LEMMA OneFaithful ==
    ASSUME Stopped, NEW k \in Places, NEW l \in Places, NEW r, Faithful(r, k), Faithful(r, l)
    PROVE  k = l
BY DEF Stopped, Faithful, OneRowEach

\* What happens to an agent while the server stops: it stays at its path, as what
\* it was may become, and its save is true.
LEMMA WorkStops ==
    ASSUME IInv, Stopped, mode \in {"stopping", "cancelling"}, clean # Empty,
           UNCHANGED <<mode, rows, walk, clean>>,
           NEW l \in Places, nodes[l] # None,
           NEW n \in Nodes, nodes' = [nodes EXCEPT ![l] = n],
           n.busy => nodes[l].busy, Faithful(Row(n), l),
           saves' = saves \/ \E s \in Slots : Send(s, n, FALSE)
    PROVE  Stopped'
<1>1. nodes'[l] = n /\ n # None /\ \A k \in Places : k # l => nodes'[k] = nodes[k]
  BY DEF IInv, TypeOK
<1>2. clean[l] # None /\ (n.busy => clean[l].busy)
  BY DEF Stopped
<1>3. Faithful(Row(n), l)
  OBVIOUS
<1>4. \A k \in Places :
         /\ nodes'[k] = None <=> clean[k] = None
         /\ clean[k] # None => Faithful(Row(nodes'[k]), k) /\ (nodes'[k].busy => clean[k].busy)
  BY <1>1, <1>2, <1>3 DEF Stopped
<1>5. /\ \A s \in Slots : saves'[s] # None =>
            saves'[s].row # None /\ \E k \in Places : Faithful(saves'[s].row, k)
      /\ \A s \in Slots : saves[s] # None => saves'[s] = saves[s]
  <2>1. CASE saves' = saves
    BY <2>1 DEF Stopped
  <2>2. ASSUME NEW s \in Slots, Send(s, n, FALSE)
        PROVE  /\ \A t \in Slots : saves'[t] # None =>
                     saves'[t].row # None /\ \E k \in Places : Faithful(saves'[t].row, k)
               /\ \A t \in Slots : saves[t] # None => saves'[t] = saves[t]
    <3>1. PICK r : r = Row(n)
      OBVIOUS
    <3>2. PICK v : v = [at |-> None, row |-> r, last |-> FALSE]
      OBVIOUS
    <3>3. v.row = r /\ r # None /\ Faithful(r, l)
      BY <1>3, <3>1, <3>2 DEF Faithful
    <3>4. saves' = [saves EXCEPT ![s] = v] /\ saves[s] = None
      BY <2>2, <3>1, <3>2 DEF Send
    <3>5. saves'[s] = v /\ \A t \in Slots : t # s => saves'[t] = saves[t]
      BY <3>4 DEF IInv, TypeOK
    <3> QED BY <3>3, <3>4, <3>5 DEF Stopped
  <2> QED BY <2>1, <2>2
<1>6. mode = "stopping" => \A k \in Places : clean[k] # None =>
         \/ k \in walk
         \/ \E s \in Slots :
               saves'[s] # None /\ saves'[s].last /\ saves'[s].row.home = clean[k].home
         \/ Faithful(RowOf(k), k)
  BY <1>5 DEF Stopped
<1> QED BY <1>4, <1>5, <1>6 DEF Stopped, Faithful, KeepsState, RowOf

LEMMA AgentsStop ==
    ASSUME IInv, Stopped, NEW l \in Places, Operation(l), ~\E s \in Slots : SaveNode(l, s)
    PROVE  Stopped'
<1> SUFFICES ASSUME clean' # Empty, mode' # "up" PROVE Stopped'
  <2>1. mode' = "up" => clean' = clean
    BY DEF Operation, Suspend, Resume, Restart, Trigger, SendMessage, Becomes,
       Terminate, RunDropped, Spawn, SaveInRun, RunEnds
  <2> QED BY <2>1, Forgotten, BeforeStop
<1>1. \/ RunDropped(l) \/ SendMessage(l)
      \/ \E s \in Slots : SaveInRun(l, s)
      \/ \E s \in Slots, to \in {"idle", "suspended"} : RunEnds(l, to, s)
  BY DEF Operation, Suspend, Resume, Restart, Trigger, SendMessage, Becomes, Terminate, Spawn
<1>2. mode \in {"stopping", "cancelling"} /\ clean # Empty
      /\ UNCHANGED <<mode, rows, walk, clean>> /\ nodes[l] # None
  BY <1>1 DEF RunDropped, SendMessage, Becomes, SaveInRun, RunEnds, Serving, Present
<1>3. nodes[l] \in Nodes /\ Faithful(Row(nodes[l]), l) /\ (nodes[l].busy => clean[l].busy)
  BY <1>2 DEF IInv, TypeOK, Stopped
<1>8. ASSUME NEW n \in Nodes, nodes[l].busy, n.home = nodes[l].home,
             n.state = "dead" <=> nodes[l].state = "dead"
      PROVE  Faithful(Row(n), l)
  BY <1>3, <1>8, RowKeeps DEF Faithful
<1>7. CASE SendMessage(l)
  <2>1. PICK n : n = [nodes[l] EXCEPT !.state = "running", !.busy = @ \/ FALSE]
    OBVIOUS
  <2>2. n \in Nodes /\ n.home = nodes[l].home /\ n.state = "running"
        /\ n.busy = nodes[l].busy
    BY <1>3, <2>1 DEF Nodes, States
  <2>3. nodes' = [nodes EXCEPT ![l] = n] /\ saves' = saves /\ nodes[l].state = "idle"
    BY <1>3, <1>7, <2>1 DEF SendMessage, Becomes, IInv, TypeOK
  <2>4. \E k \in Places : clean[k] # None /\ clean[k].busy
    BY <1>2, <1>7 DEF SendMessage, Present, Stopped
  <2>5. Faithful(Row(n), l)
    BY <1>3, <2>2, <2>3, <2>4, RowKeeps DEF Faithful, KeepsState
  <2> QED BY <1>2, <2>2, <2>3, <2>5, WorkStops
<1>4. CASE RunDropped(l)
  <2>1. PICK n : n = [nodes[l] EXCEPT !.busy = FALSE]
    OBVIOUS
  <2>2. n \in Nodes /\ n.home = nodes[l].home /\ n.state = nodes[l].state
    BY <1>3, <2>1 DEF Nodes
  <2>3. nodes' = [nodes EXCEPT ![l] = n] /\ saves' = saves
    BY <1>4, <2>1 DEF RunDropped, IInv, TypeOK
  <2>4. nodes[l].busy
    BY <1>4 DEF RunDropped
  <2> QED BY <1>2, <1>8, <2>2, <2>3, <2>4, WorkStops
<1>5. ASSUME NEW s \in Slots, SaveInRun(l, s) PROVE Stopped'
  <2>1. nodes' = [nodes EXCEPT ![l] = nodes[l]]
    BY <1>5 DEF SaveInRun, IInv, TypeOK
  <2>2. Send(s, nodes[l], FALSE)
    BY <1>5 DEF SaveInRun
  <2> QED BY <1>2, <1>3, <2>1, <2>2, WorkStops
<1>6. ASSUME NEW s \in Slots, NEW to \in {"idle", "suspended"}, RunEnds(l, to, s)
      PROVE  Stopped'
  <2>1. PICK n : n = [nodes[l] EXCEPT !.state = IF @ = "running" THEN to ELSE @,
                                     !.busy = FALSE]
    OBVIOUS
  <2>2. n \in Nodes /\ n.home = nodes[l].home
        /\ (n.state = "dead" <=> nodes[l].state = "dead")
    BY <1>3, <2>1 DEF Nodes, States
  <2>3. nodes' = [nodes EXCEPT ![l] = n] /\ Send(s, n, FALSE) /\ nodes[l].busy
    BY <1>6, <2>1 DEF RunEnds
  <2> QED BY <1>2, <1>8, <2>2, <2>3, WorkStops
<1> QED BY <1>1, <1>4, <1>5, <1>6, <1>7

\* The walk hands each agent over to a save, as it is.
LEMMA SaveNodeStops ==
    ASSUME IInv, Stopped, NEW l \in Places, NEW s \in Slots, SaveNode(l, s)
    PROVE  Stopped'
<1> SUFFICES ASSUME clean # Empty PROVE Stopped'
  BY Forgotten DEF SaveNode
<1>1. mode = "stopping" /\ l \in walk /\ walk' = walk \ {l}
      /\ UNCHANGED <<mode, nodes, rows, clean>>
  BY DEF SaveNode
<1>2. nodes[l] \in Nodes
  BY <1>1 DEF IInv, TypeOK, Pending, Present
<1>3. Faithful(Row(nodes[l]), l)
  BY <1>1, <1>2 DEF Stopped
<1>4. PICK r : r = Row(nodes[l])
  OBVIOUS
<1>5. PICK v : v = [at |-> None, row |-> r, last |-> TRUE]
  OBVIOUS
<1>6. v.row = r /\ r # None /\ r.home = clean[l].home /\ v.last /\ v # None
  BY <1>2, <1>3, <1>4, <1>5, RowKeeps, SaveOfRow DEF Faithful
<1>7. saves' = [saves EXCEPT ![s] = v] /\ saves[s] = None
  BY <1>4, <1>5 DEF SaveNode, Send
<1>8. saves'[s] = v /\ \A t \in Slots : t # s => saves'[t] = saves[t]
  BY <1>7 DEF IInv, TypeOK
<1>9. \A t \in Slots : saves'[t] # None =>
         saves'[t].row # None /\ \E k \in Places : Faithful(saves'[t].row, k)
  BY <1>1, <1>3, <1>4, <1>6, <1>8 DEF Stopped
<1>10. ASSUME NEW k \in Places, clean[k] # None
       PROVE  \/ k \in walk'
              \/ \E t \in Slots :
                    saves'[t] # None /\ saves'[t].last /\ saves'[t].row.home = clean[k].home
              \/ Faithful(RowOf(k), k)
  <2>1. CASE k = l
    BY <1>6, <1>8, <2>1
  <2>2. CASE k # l
    BY <1>1, <1>7, <1>8, <1>10, <2>2 DEF Stopped
  <2> QED BY <2>1, <2>2
<1> QED BY <1>1, <1>9, <1>10 DEF Stopped, Faithful, KeepsState, RowOf

\* Whatever commits is true of an agent, and writes that agent's row.
LEMMA CommitStops == ASSUME IInv, Stopped, NEW s \in Slots, Commit(s) PROVE Stopped'
<1> SUFFICES ASSUME clean # Empty, mode \in {"stopping", "cancelling"} PROVE Stopped'
  BY Forgotten, BeforeStop DEF Commit, IInv, Flight, TypeOK, Modes
<1>1. PICK r : r = saves[s].row
  OBVIOUS
<1>2. r \in Rows /\ Id(r.home) \in Ids /\ saves[s] # None
  BY <1>1, SaveParts, HomesArePlaces DEF Commit, IInv, TypeOK, Rows
<1>3. rows' = [rows EXCEPT ![Id(r.home)] = r] /\ saves' = [saves EXCEPT ![s] = None]
      /\ UNCHANGED <<mode, nodes, walk, clean>>
  BY <1>1 DEF Commit
<1>4. PICK l \in Places : Faithful(r, l)
  BY <1>1, <1>2 DEF Stopped
<1>5. rows'[Id(r.home)] = r /\ \A i \in Ids : i # Id(r.home) => rows'[i] = rows[i]
  BY <1>2, <1>3 DEF IInv, TypeOK
<1>6. saves'[s] = None /\ \A t \in Slots : t # s => saves'[t] = saves[t]
  BY <1>3 DEF IInv, TypeOK
<1>7. ASSUME NEW k \in Places, clean[k] # None
      PROVE  /\ Id(clean[k].home) = Id(r.home) => rows'[Id(clean[k].home)] = r /\ Faithful(r, k)
             /\ Id(clean[k].home) # Id(r.home) => rows'[Id(clean[k].home)] = RowOf(k)
  <2>1. clean[k] \in Nodes /\ Id(clean[k].home) \in Ids
    BY <1>7, HomesArePlaces DEF IInv, TypeOK, Nodes
  <2>2. Id(clean[k].home) = Id(r.home) => k = l
    BY <1>4, <1>7 DEF Stopped, OneRowEach, Faithful
  <2> QED BY <1>4, <1>5, <2>1, <2>2 DEF RowOf
<1>8. ASSUME NEW k \in Places, clean[k] # None, mode = "stopping"
      PROVE  \/ k \in walk
             \/ \E t \in Slots :
                   saves'[t] # None /\ saves'[t].last /\ saves'[t].row.home = clean[k].home
             \/ Faithful(rows'[Id(clean[k].home)], k)
  <2>1. CASE k \in walk \/ Faithful(RowOf(k), k)
    BY <1>7, <1>8, <2>1
  <2>2. ASSUME NEW t \in Slots, saves[t] # None, saves[t].last, saves[t].row.home = clean[k].home
        PROVE  \/ \E u \in Slots :
                     saves'[u] # None /\ saves'[u].last /\ saves'[u].row.home = clean[k].home
               \/ Faithful(rows'[Id(clean[k].home)], k)
    <3>1. CASE t = s
      BY <1>1, <1>7, <1>8, <2>2, <3>1
    <3>2. CASE t # s
      BY <1>6, <2>2, <3>2
    <3> QED BY <3>1, <3>2
  <2> QED BY <1>8, <2>1, <2>2 DEF Stopped
<1>9. mode = "cancelling" =>
         \A k \in Places : clean[k] # None => Faithful(rows'[Id(clean[k].home)], k)
  BY <1>7 DEF Stopped
<1>10. \A t \in Slots : saves'[t] # None =>
          saves'[t].row # None /\ \E k \in Places : Faithful(saves'[t].row, k)
  BY <1>6 DEF Stopped
<1> QED BY <1>3, <1>8, <1>9, <1>10 DEF Stopped, Faithful, KeepsState, RowOf

LEMMA SaveStops ==
    ASSUME IInv, Stopped, NEW s \in Slots, ReadAgent(s) \/ SaveFails(s)
    PROVE  Stopped'
<1>1. CASE ReadAgent(s)
  <2>1. clean' = clean /\ mode' = mode
    BY <1>1 DEF ReadAgent
  <2>2. clean = Empty \/ mode = "up"
    BY <1>1 DEF ReadAgent, Stopped
  <2> QED BY <2>1, <2>2, Forgotten, BeforeStop
<1>2. CASE SaveFails(s)
  <2>1. CASE saves[s].last
    BY <1>2, <2>1, Forgotten DEF SaveFails
  <2>2. CASE ~saves[s].last
    <3>1. UNCHANGED <<mode, walk, clean, nodes, rows>> /\ saves' = [saves EXCEPT ![s] = None]
      BY <1>2, <2>2 DEF SaveFails
    <3>2. saves'[s] = None /\ \A t \in Slots : t # s => saves'[t] = saves[t]
      BY <3>1 DEF IInv, TypeOK
    <3>3. \A t \in Slots : saves'[t] # None => t # s /\ saves'[t] = saves[t]
      BY <3>2
    <3>4. \A t \in Slots : saves[t] # None /\ saves[t].last => saves'[t] = saves[t]
      BY <2>2, <3>2
    <3>5. mode = "stopping" => \A k \in Places : clean[k] # None =>
             \/ k \in walk
             \/ \E t \in Slots :
                   saves'[t] # None /\ saves'[t].last /\ saves'[t].row.home = clean[k].home
             \/ Faithful(RowOf(k), k)
      BY <3>4 DEF Stopped
    <3>6. mode \in {"stopping", "cancelling"} /\ clean # Empty =>
             \A t \in Slots : saves'[t] # None =>
                saves'[t].row # None /\ \E k \in Places : Faithful(saves'[t].row, k)
      BY <3>3 DEF Stopped
    <3> QED BY <3>1, <3>5, <3>6 DEF Stopped, Faithful, KeepsState, RowOf
  <2> QED BY <2>1, <2>2
<1> QED BY <1>1, <1>2

LEMMA ServerStops == ASSUME IInv, Stopped, Server PROVE Stopped'
<1>1. CASE BeginStop
  <2> SUFFICES ASSUME clean' # Empty PROVE Stopped'
    BY Forgotten
  <2>1. clean' = nodes /\ OneRowEach(nodes) /\ \A s \in Slots : saves[s] = None
    BY <1>1 DEF BeginStop
  <2>2. mode' = "stopping" /\ walk' = {l \in Places : nodes[l] # None}
        /\ UNCHANGED <<nodes, rows, saves>>
    BY <1>1 DEF BeginStop, Present
  <2>3. OneRowEach(clean')
    BY <2>1
  <2>4. \A l \in Places : nodes[l] # None =>
           /\ Row(nodes[l]) # None
           /\ Row(nodes[l]).home = nodes[l].home /\ Row(nodes[l]).state = nodes[l].state
    BY RowKeeps DEF IInv, TypeOK
  <2> QED BY <2>1, <2>2, <2>3, <2>4 DEF Stopped, Faithful, KeepsState
<1>2. CASE CancelTasks
  <2>1. \A l \in Places : clean[l] # None => Faithful(RowOf(l), l)
    BY <1>2 DEF CancelTasks, Walking, Stopped
  <2> QED BY <1>2, <2>1 DEF CancelTasks, Stopped, Faithful, KeepsState, RowOf
<1>3. CASE Exit
  BY <1>3 DEF Exit, Stopped, Faithful, KeepsState, RowOf
<1>4. CASE Crash
  BY <1>4, Forgotten DEF Crash
<1>5. CASE Start
  BY <1>5 DEF Start, Stopped, Faithful, KeepsState, RowOf
<1>6. CASE Open
  BY <1>6, Forgotten DEF Open
<1> QED BY <1>1, <1>2, <1>3, <1>4, <1>5, <1>6 DEF Server

LEMMA StoppedKeeps == ASSUME IInv, Stopped, [Next]_vars PROVE Stopped'
<1>1. CASE UNCHANGED vars
  BY <1>1 DEF vars, Stopped, Faithful, KeepsState, RowOf
<1>2. ASSUME NEW l \in Places, Operation(l) PROVE Stopped'
  BY <1>2, AgentsStop, SaveNodeStops
<1>3. ASSUME NEW s \in Slots, ReadAgent(s) \/ Commit(s) \/ SaveFails(s) PROVE Stopped'
  BY <1>3, CommitStops, SaveStops
<1>4. ASSUME NEW i \in Ids, Hire(i) \/ \E t \in DOMAIN StateMap : SetStatus(i, t)
      PROVE  Stopped'
  <2>1. mode' = "up" /\ clean' = clean
    BY <1>4 DEF Hire, SetStatus
  <2> QED BY <2>1, BeforeStop
<1>5. ASSUME NEW i \in Ids, Restore(i) PROVE Stopped'
  <2>1. mode = "loading" /\ UNCHANGED <<mode, rows, clean>>
    BY <1>5 DEF Restore
  <2> QED BY <2>1 DEF Stopped, Faithful, KeepsState, RowOf
<1>6. CASE Server
  BY <1>6, ServerStops
<1> QED BY <1>1, <1>2, <1>3, <1>4, <1>5, <1>6 DEF Next

LEMMA StopBringsBack == IInv /\ Restored /\ Stopped => StopKeepsTree
<1> SUFFICES ASSUME IInv, Restored, Stopped, Loaded, NEW l \in Places, clean[l] # None
             PROVE  LET back == {k \in Places : Present(k) /\ nodes[k].home = clean[l].home}
                    IN  IF clean[l].state = "dead" THEN back = {}
                        ELSE \E k \in back : ~clean[l].busy => KeepsState(l, nodes[k].state)
  BY DEF StopKeepsTree
<1>1. clean[l] \in Nodes /\ Id(clean[l].home) \in Ids
  BY HomesArePlaces DEF IInv, TypeOK, Nodes
<1>2. PICK r : r = RowOf(l)
  OBVIOUS
<1>3. Faithful(r, l) /\ r = rows[Id(clean[l].home)]
  BY <1>2 DEF Loaded, Stopped, RowOf
<1>4. CASE clean[l].state = "dead"
  <2>1. ~Live(r)
    BY <1>3, <1>4 DEF Faithful, Live
  <2>2. ASSUME NEW k \in Places, Present(k), nodes[k].home = clean[l].home PROVE FALSE
    BY <1>3, <2>1, <2>2 DEF Loaded, Restored
  <2> QED BY <1>4, <2>2
<1>5. CASE clean[l].state # "dead"
  <2>1. Live(r)
    BY <1>3, <1>5 DEF Faithful, Live
  <2>2. PICK k \in Places : Present(k) /\ Row(nodes[k]) = r
    BY <1>1, <1>3, <2>1 DEF Loaded, Restored
  <2>3. nodes[k].home = r.home /\ nodes[k].state = r.state
    BY <2>2, RowKeeps DEF IInv, TypeOK, Present
  <2> QED BY <1>3, <1>5, <2>2, <2>3 DEF Faithful
<1> QED BY <1>4, <1>5

-----------------------------------------------------------------------------
\* The theorems.

\* What holds of saves, walks, loads and rows after any number of stops, crashes
\* and starts.
THEOREM Invariance == Spec => []IInv
BY InitHolds, NextKeeps, PTL DEF Spec

\* Every state of the registry, the saves and the table is well typed.
THEOREM TypeCorrect == Spec => []TypeOK
<1>1. IInv => TypeOK
  BY DEF IInv
<1> QED BY <1>1, Invariance, PTL

\* While the server loads, in whatever order the rows come (api.py:84-112), each
\* agent in memory is the one of a row that had its turn.
THEOREM LoadInvariance == Spec => []Restored
<1>1. Init => Restored
  BY DEF Init, Restored
<1> QED BY <1>1, RestoredKeeps, Invariance, PTL DEF Spec

\* Every agent that the table has alive is in memory when the server is up again,
\* with its path and state, and only once.
THEOREM LiveAreBack == Spec => []LiveRowsReturn
BY BackOnce, Invariance, LoadInvariance, PTL

\* From the first step of an orderly stop to the next start: each agent is still to
\* be saved, is being saved, or has a row from which it comes back.
THEOREM StopInvariance == Spec => []Stopped
<1>1. Init => Stopped
  <2> SUFFICES ASSUME Init PROVE Stopped
    OBVIOUS
  <2>1. \A l \in Places : clean[l] = None
    BY DEF Init, Empty
  <2> QED BY <2>1 DEF Init, Stopped, OneRowEach
<1> QED BY <1>1, StoppedKeeps, Invariance, PTL DEF Spec

\* An orderly stop of agents with different ids loses nothing (api.py:120-137), with
\* executors at work and their saves overtaking the server's.
THEOREM StopIsWhole == Spec => []StopKeepsTree
BY StopBringsBack, Invariance, LoadInvariance, StopInvariance, PTL

=============================================================================
