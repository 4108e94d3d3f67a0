---------------------------- MODULE CatalogProofs ----------------------------
(* Theorems about WorkflowCatalog, ToolRegistry, WorkflowDoctor and WorkflowBuilder. *)
EXTENDS WorkflowCatalog, ToolRegistry, WorkflowDoctor, WorkflowBuilder,
        FiniteSetTheorems, TLAPS

----------------------------------------------------------------------------
(* Workflows and agents *)

\* What a request has read still holds: the counts because it has the tenant's
\* row, the executions of a workflow that is about to go because later ones are
\* strays.
EditorKnows ==
    \A e \in Editors :
        /\ At(e, "insert") \/ At(e, "configure") \/ At(e, "start") => tenant = e
        /\ At(e, "insert") => Cardinality(Active) < MaxWorkflows
        /\ editor[e].at \in {"agent", "configure", "run", "start", "delete", "drop"} =>
               editor[e].wf \in Workflows
        /\ editor[e].at \in {"agent", "configure"} => editor[e].node \in Nodes
        /\ At(e, "configure") => Cardinality(agents[editor[e].wf]) < MaxAgents
        /\ At(e, "drop") => runs[editor[e].wf] = 0

CatalogInv == CatalogTypeOK /\ PlanLimitsHold /\ DeletedIsIdle /\ EditorKnows

LEMMA Counts ==
  ASSUME CatalogTypeOK
  PROVE  /\ IsFiniteSet(Active) /\ Cardinality(Active) \in Nat
         /\ \A w \in Workflows : IsFiniteSet(agents[w]) /\ Cardinality(agents[w]) \in Nat
<1> USE CatalogAssumption DEF CatalogAssumption
<1>1. Active \subseteq Workflows
  BY DEF Active
<1>2. \A w \in Workflows : agents[w] \subseteq Nodes
  BY DEF CatalogTypeOK
<1> QED BY <1>1, <1>2, FS_Subset, FS_CardinalityType

LEMMA CatalogInvInit == CatalogInit => CatalogInv
<1> SUFFICES ASSUME CatalogInit PROVE CatalogInv
  OBVIOUS
<1> USE CatalogAssumption DEF CatalogAssumption
<1>1. CatalogTypeOK /\ DeletedIsIdle /\ EditorKnows
  BY DEF CatalogInit, CatalogTypeOK, DeletedIsIdle, EditorKnows, At, AtRest
<1>2. Active = {} /\ \A w \in Workflows : agents[w] = {}
  BY DEF CatalogInit, Active
<1>3. PlanLimitsHold
  BY <1>2, FS_EmptySet DEF PlanLimitsHold
<1> QED BY <1>1, <1>3 DEF CatalogInv

\* A step of one request that writes no table and knows what it has read.
EditorPlaces ==
    [at : {"idle", "new", "insert", "agent", "configure", "run", "start", "delete", "drop"},
     wf : Workflows \cup {Nobody}, node : Nodes \cup {Nobody}]

Prepared(e, to) ==
    /\ to \in EditorPlaces
    /\ to.at \in {"insert", "configure", "start"} => tenant' = e
    /\ to.at = "insert" => Cardinality(Active) < MaxWorkflows
    /\ to.at \in {"agent", "configure", "run", "start", "delete", "drop"} => to.wf \in Workflows
    /\ to.at \in {"agent", "configure"} => to.node \in Nodes
    /\ to.at = "configure" => Cardinality(agents[to.wf]) < MaxAgents
    /\ to.at = "drop" => runs[to.wf] = 0

LEMMA EditorMoves ==
  ASSUME CatalogInv, NEW e \in Editors, NEW STATE to,
         Turn(e, to), UNCHANGED <<stage, agents, runs, strays>>,
         to \in EditorPlaces,
         tenant' = tenant \/ (tenant = e /\ tenant' = Nobody) \/ (tenant = Nobody /\ tenant' = e),
         Prepared(e, to)
  PROVE  CatalogInv'
<1> USE CatalogAssumption DEF CatalogAssumption
<1>0. CatalogTypeOK /\ PlanLimitsHold /\ DeletedIsIdle /\ EditorKnows
  BY DEF CatalogInv
<1>1. editor' \in [Editors -> EditorPlaces]
  BY <1>0 DEF CatalogTypeOK, Turn, EditorPlaces
<1>2. CatalogTypeOK'
  BY <1>0, <1>1 DEF CatalogTypeOK, EditorPlaces
<1>3. Active' = Active /\ PlanLimitsHold' /\ DeletedIsIdle'
  BY <1>0 DEF Active, PlanLimitsHold, DeletedIsIdle
<1>4. \A f \in Editors : f # e => editor'[f] = editor[f]
  BY <1>0 DEF CatalogTypeOK, Turn
<1>5. editor'[e] = to
  BY <1>0 DEF CatalogTypeOK, Turn
<1>6. EditorKnows'
  <2> SUFFICES ASSUME NEW f \in Editors
               PROVE  /\ editor'[f].at \in {"insert", "configure", "start"} => tenant' = f
                      /\ editor'[f].at = "insert" => Cardinality(Active) < MaxWorkflows
                      /\ editor'[f].at \in
                             {"agent", "configure", "run", "start", "delete", "drop"} =>
                             editor'[f].wf \in Workflows
                      /\ editor'[f].at \in {"agent", "configure"} => editor'[f].node \in Nodes
                      /\ editor'[f].at = "configure" =>
                             Cardinality(agents[editor'[f].wf]) < MaxAgents
                      /\ editor'[f].at = "drop" => runs[editor'[f].wf] = 0
    BY <1>3 DEF EditorKnows, At
  <2>1. CASE f = e
    BY <1>5, <2>1 DEF Prepared
  <2>2. CASE f # e
    BY <1>0, <1>4, <2>2 DEF EditorKnows, At
  <2> QED BY <2>1, <2>2
<1> QED BY <1>2, <1>3, <1>6 DEF CatalogInv

LEMMA RestIsPrepared == \A e \in Editors : Prepared(e, AtRest)
  BY DEF Prepared, AtRest, EditorPlaces

LEMMA CatalogInvStep == CatalogInv /\ [CatalogNext]_catalogVars => CatalogInv'
<1> SUFFICES ASSUME CatalogInv, [CatalogNext]_catalogVars PROVE CatalogInv'
  OBVIOUS
<1>0. CatalogTypeOK /\ PlanLimitsHold /\ DeletedIsIdle /\ EditorKnows
  BY DEF CatalogInv
<1> USE CatalogAssumption DEF CatalogAssumption
<1>1. CASE UNCHANGED catalogVars
  BY <1>0, <1>1 DEF catalogVars, CatalogInv, CatalogTypeOK, PlanLimitsHold, DeletedIsIdle,
     EditorKnows, At, Active
<1>2. ASSUME NEW w \in Workflows, RunEnds(w) PROVE CatalogInv'
  <2>1. CatalogTypeOK'
    BY <1>0, <1>2 DEF RunEnds, CatalogTypeOK
  <2>2. Active' = Active /\ PlanLimitsHold'
    BY <1>0, <1>2 DEF RunEnds, Active, PlanLimitsHold
  <2>3. \A v \in Workflows : runs[v] = 0 => runs'[v] = 0
    BY <1>0, <1>2 DEF RunEnds, CatalogTypeOK
  <2>4. DeletedIsIdle'
    BY <1>0, <1>2, <2>3 DEF RunEnds, DeletedIsIdle
  <2>5. EditorKnows'
    BY <1>0, <1>2, <2>2, <2>3 DEF RunEnds, EditorKnows, At
  <2> QED BY <2>1, <2>2, <2>4, <2>5 DEF CatalogInv
<1>3. ASSUME NEW e \in Editors, NewWorkflow(e) PROVE CatalogInv'
  <2>1. Prepared(e, [AtRest EXCEPT !.at = "new"])
    BY DEF Prepared, AtRest, EditorPlaces
  <2> QED BY <1>3, <2>1, EditorMoves DEF NewWorkflow, Prepared
<1>4. ASSUME NEW e \in Editors, NEW w \in Workflows, NEW n \in Nodes \cup {Nobody},
             NEW what \in {"run", "delete", "agent"}, Opens(e, w, n, what),
             what = "agent" => n \in Nodes
      PROVE  CatalogInv'
  <2>1. Prepared(e, [at |-> what, wf |-> w, node |-> n])
    BY <1>4 DEF Prepared, EditorPlaces
  <2> QED BY <1>4, <2>1, EditorMoves DEF Opens, Prepared
<1>5. ASSUME NEW e \in Editors, CountWorkflows(e) PROVE CatalogInv'
  <2>1. CASE Cardinality(Active) < MaxWorkflows
    <3>1. Prepared(e, [editor[e] EXCEPT !.at = "insert"])
      BY <1>0, <1>5, <2>1 DEF CountWorkflows, Locks, Prepared, CatalogTypeOK, EditorPlaces
    <3> QED BY <1>5, <2>1, <3>1, EditorMoves DEF CountWorkflows, Locks, Prepared
  <2>2. CASE ~(Cardinality(Active) < MaxWorkflows)
    BY <1>5, <2>2, RestIsPrepared, EditorMoves DEF CountWorkflows, Locks, Prepared
  <2> QED BY <2>1, <2>2
<1>6. ASSUME NEW e \in Editors, CountAgents(e) PROVE CatalogInv'
  <2>1. At(e, "agent")
    BY <1>6 DEF CountAgents, Locks
  <2>2. PICK room \in BOOLEAN :
           /\ room => Cardinality(agents[editor[e].wf]) < MaxAgents
           /\ Locks(e, "agent", room, "configure")
    BY <1>6 DEF CountAgents
  <2>3. CASE room
    <3>1. Prepared(e, [editor[e] EXCEPT !.at = "configure"])
      BY <1>0, <2>1, <2>2, <2>3
         DEF At, Locks, Prepared, CatalogTypeOK, EditorPlaces, EditorKnows
    <3> QED BY <2>2, <2>3, <3>1, EditorMoves DEF Locks, Prepared
  <2>4. CASE ~room
    BY <2>2, <2>4, RestIsPrepared, EditorMoves DEF Locks, Prepared
  <2> QED BY <2>3, <2>4
<1>7. ASSUME NEW e \in Editors, AdmitRun(e) PROVE CatalogInv'
  <2>1. Prepared(e, [editor[e] EXCEPT !.at = "start"])
    BY <1>0, <1>7 DEF AdmitRun, At, Locks, Prepared, CatalogTypeOK, EditorPlaces, EditorKnows
  <2> QED BY <1>7, <2>1, EditorMoves DEF AdmitRun, Locks, Prepared
<1>8. ASSUME NEW e \in Editors, CountRuns(e) PROVE CatalogInv'
  <2>1. At(e, "delete") /\ editor[e].wf \in Workflows
    BY <1>0, <1>8 DEF CountRuns, EditorKnows, At
  <2>2. CASE runs[editor[e].wf] + strays[editor[e].wf] > 0
    BY <1>8, <2>2, RestIsPrepared, EditorMoves DEF CountRuns, Prepared
  <2>3. CASE ~(runs[editor[e].wf] + strays[editor[e].wf] > 0)
    <3>1. runs[editor[e].wf] = 0
      BY <1>0, <2>1, <2>3 DEF CatalogTypeOK
    <3>2. Prepared(e, [editor[e] EXCEPT !.at = "drop"])
      BY <1>0, <2>1, <3>1 DEF Prepared, CatalogTypeOK, EditorPlaces
    <3> QED BY <1>8, <2>3, <3>2, EditorMoves DEF CountRuns, Prepared
  <2> QED BY <2>2, <2>3
<1>9. ASSUME NEW e \in Editors, Fails(e) PROVE CatalogInv'
  BY <1>9, RestIsPrepared, EditorMoves DEF Fails, Prepared
<1>10. ASSUME NEW e \in Editors, NEW w \in Workflows, InsertWorkflow(e, w)
       PROVE  CatalogInv'
  <2>1. tenant = e /\ Cardinality(Active) < MaxWorkflows
    BY <1>0, <1>10 DEF InsertWorkflow, EditorKnows
  <2>2. CatalogTypeOK'
    BY <1>0, <1>10 DEF InsertWorkflow, Turn, CatalogTypeOK, AtRest
  <2>3. Active' = Active \cup {w} /\ w \notin Active
    BY <1>0, <1>10 DEF InsertWorkflow, Active, CatalogTypeOK
  <2>4. Cardinality(Active') <= MaxWorkflows
    <3>1. Cardinality(Active \cup {w}) = Cardinality(Active) + 1
      BY ONLY <1>0, <2>3, Counts, FS_AddElement
    <3> QED BY <1>0, <2>1, <2>3, <3>1, Counts
  <2>5. PlanLimitsHold'
    BY <1>0, <1>10, <2>4 DEF InsertWorkflow, PlanLimitsHold
  <2>6. DeletedIsIdle'
    BY <1>0, <1>10 DEF InsertWorkflow, DeletedIsIdle, CatalogTypeOK
  <2>7. \A f \in Editors : /\ f # e => editor'[f] = editor[f] /\ editor[f].at # "insert"
                           /\ editor'[e].at = "idle"
    BY <1>0, <1>10, <2>1 DEF InsertWorkflow, Turn, CatalogTypeOK, AtRest, EditorKnows, At
  <2>8. EditorKnows'
    BY <1>0, <1>10, <2>1, <2>7 DEF InsertWorkflow, EditorKnows, At
  <2> QED BY <2>2, <2>5, <2>6, <2>8 DEF CatalogInv
<1>11. ASSUME NEW e \in Editors, InsertAgent(e) PROVE CatalogInv'
  <2>1. PICK w \in Workflows, n \in Nodes :
           /\ agents' = [agents EXCEPT ![w] = @ \cup {n}]
           /\ Cardinality(agents[w]) < MaxAgents
           /\ tenant = e
    BY <1>0, <1>11 DEF InsertAgent, EditorKnows, At
  <2>2. CatalogTypeOK'
    <3>1. agents' \in [Workflows -> SUBSET Nodes]
      BY <1>0, <2>1 DEF CatalogTypeOK
    <3> QED BY <1>0, <1>11, <3>1 DEF InsertAgent, Turn, CatalogTypeOK, AtRest
  <2>3. Cardinality(agents'[w]) <= MaxAgents
    <3>1. agents'[w] = agents[w] \cup {n}
      BY <1>0, <2>1 DEF CatalogTypeOK
    <3>2. CASE n \in agents[w]
      BY <2>1, <3>1, <3>2, Counts, <1>0 DEF PlanLimitsHold
    <3>3. CASE n \notin agents[w]
      <4>1. Cardinality(agents[w] \cup {n}) = Cardinality(agents[w]) + 1
        BY ONLY <1>0, <3>3, Counts, FS_AddElement
      <4> QED BY <1>0, <2>1, <3>1, <4>1, Counts
    <3> QED BY <3>2, <3>3
  <2>4. Active' = Active /\ \A v \in Workflows : v # w => agents'[v] = agents[v]
    BY <1>0, <1>11, <2>1 DEF InsertAgent, Active, CatalogTypeOK
  <2>5. PlanLimitsHold' /\ DeletedIsIdle'
    BY <1>0, <1>11, <2>3, <2>4 DEF InsertAgent, PlanLimitsHold, DeletedIsIdle
  <2>6. \A f \in Editors : /\ f # e => editor'[f] = editor[f] /\ editor[f].at # "configure"
                           /\ editor'[e].at = "idle"
    BY <1>0, <1>11, <2>1 DEF InsertAgent, Turn, CatalogTypeOK, AtRest, EditorKnows, At
  <2>7. EditorKnows'
    BY <1>0, <1>11, <2>1, <2>4, <2>6 DEF InsertAgent, EditorKnows, At
  <2> QED BY <2>2, <2>5, <2>7 DEF CatalogInv
<1>12. ASSUME NEW e \in Editors, NEW w \in Workflows, NEW n \in Nodes, DeleteAgent(e, w, n)
       PROVE  CatalogInv'
  <2>1. CatalogTypeOK'
    BY <1>0, <1>12 DEF DeleteAgent, CatalogTypeOK
  <2>2. \A v \in Workflows : /\ Cardinality(agents'[v]) \in Nat
                             /\ Cardinality(agents'[v]) <= Cardinality(agents[v])
    <3>1. \A v \in Workflows : agents'[v] \subseteq agents[v]
      BY <1>0, <1>12 DEF DeleteAgent, CatalogTypeOK
    <3> QED BY <1>0, <3>1, Counts, FS_Subset, FS_CardinalityType
  <2>3. Active' = Active
    BY <1>12 DEF DeleteAgent, Active
  <2>4. PlanLimitsHold' /\ DeletedIsIdle'
    BY <1>0, <1>12, <2>2, <2>3, Counts DEF DeleteAgent, PlanLimitsHold, DeletedIsIdle
  <2>5. EditorKnows'
    BY <1>0, <1>12, <2>2, <2>3, Counts DEF DeleteAgent, EditorKnows, At
  <2> QED BY <2>1, <2>4, <2>5 DEF CatalogInv
<1>13. ASSUME NEW e \in Editors, InsertRun(e) PROVE CatalogInv'
  <2>1. editor[e].wf \in Workflows /\ tenant = e /\ At(e, "start")
    BY <1>0, <1>13 DEF InsertRun, EditorKnows, At
  <2>2. CatalogTypeOK'
    <3>1. runs' \in [Workflows -> 0..MaxRuns] /\ strays' \in [Workflows -> 0..MaxRuns]
      BY <1>0, <1>13, <2>1 DEF InsertRun, CatalogTypeOK
    <3> QED BY <1>0, <1>13, <3>1 DEF InsertRun, Turn, CatalogTypeOK, AtRest
  <2>3. Active' = Active /\ PlanLimitsHold'
    BY <1>0, <1>13 DEF InsertRun, Active, PlanLimitsHold
  <2>4. \A w \in Workflows : Deleting(w) => runs'[w] = runs[w]
    BY <1>0, <1>13 DEF InsertRun, CatalogTypeOK
  <2>5. DeletedIsIdle'
    BY <1>0, <1>13, <2>4 DEF InsertRun, DeletedIsIdle, Deleting
  <2>6. \A f \in Editors : /\ f # e => editor'[f] = editor[f] /\ ~At(f, "start")
                                       /\ ~At(f, "insert") /\ ~At(f, "configure")
                           /\ editor'[e].at = "idle"
    BY <1>0, <1>13, <2>1 DEF InsertRun, Turn, CatalogTypeOK, AtRest, EditorKnows
  <2>7. \A f \in Editors : At(f, "drop") => runs'[editor[f].wf] = 0
    BY <1>0, <2>4 DEF EditorKnows, Deleting, At
  <2>8. EditorKnows'
    BY <1>0, <1>13, <2>6, <2>7 DEF InsertRun, EditorKnows, At
  <2> QED BY <2>2, <2>3, <2>5, <2>8 DEF CatalogInv
<1>14. ASSUME NEW e \in Editors, DropWorkflow(e) PROVE CatalogInv'
  <2>1. PICK w \in Workflows : stage' = [stage EXCEPT ![w] = "deleted"] /\ runs[w] = 0
    BY <1>0, <1>14 DEF DropWorkflow, EditorKnows, At
  <2>2. CatalogTypeOK'
    BY <1>0, <1>14, <2>1 DEF DropWorkflow, Turn, CatalogTypeOK, AtRest
  <2>3. Active' \subseteq Active
    BY <1>0, <2>1 DEF Active, CatalogTypeOK
  <2>4. Cardinality(Active') \in Nat /\ Cardinality(Active') <= Cardinality(Active)
    BY <1>0, <2>3, Counts, FS_Subset, FS_CardinalityType
  <2>5. PlanLimitsHold'
    BY <1>0, <1>14, <2>4, Counts DEF DropWorkflow, PlanLimitsHold
  <2>6. DeletedIsIdle'
    BY <1>0, <1>14, <2>1 DEF DropWorkflow, DeletedIsIdle, CatalogTypeOK
  <2>7. \A f \in Editors : /\ f # e => editor'[f] = editor[f]
                           /\ editor'[e].at = "idle"
    BY <1>0, <1>14 DEF DropWorkflow, Turn, CatalogTypeOK, AtRest
  <2>8. EditorKnows'
    BY <1>0, <1>14, <2>4, <2>7, Counts DEF DropWorkflow, EditorKnows, At
  <2> QED BY <2>2, <2>5, <2>6, <2>8 DEF CatalogInv
<1> QED
  BY <1>1, <1>2, <1>3, <1>4, <1>5, <1>6, <1>7, <1>8, <1>9, <1>10, <1>11, <1>12, <1>13, <1>14
     DEF CatalogNext, CopyWorkflow

\* The tables, the lock and the requests keep their types.
THEOREM CatalogTypeCorrect == CatalogSpec => []CatalogTypeOK
<1>1. CatalogInv => CatalogTypeOK
  BY DEF CatalogInv
<1> QED BY CatalogInvInit, CatalogInvStep, <1>1, PTL DEF CatalogSpec

\* Counting under the tenant's lock is enough for max_workflows and
\* max_agents_per_workflow, for any number of requests at once.
THEOREM PlanLimitsAlwaysHold == CatalogSpec => []PlanLimitsHold
<1>1. CatalogInv => PlanLimitsHold
  BY DEF CatalogInv
<1> QED BY CatalogInvInit, CatalogInvStep, <1>1, PTL DEF CatalogSpec

\* delete_workflow leaves an execution behind only if create_execution
\* overlapped with it.
THEOREM DeletedIsAlwaysIdle == CatalogSpec => []DeletedIsIdle
<1>1. CatalogInv => DeletedIsIdle
  BY DEF CatalogInv
<1> QED BY CatalogInvInit, CatalogInvStep, <1>1, PTL DEF CatalogSpec

----------------------------------------------------------------------------
(* Tools *)

\* The mask a client was shown stood for a header that is there, or was removed
\* since; what the service has loaded for it is as the client was shown it, or
\* the header was removed in between.
Knows(c) ==
    /\ client[c].at = "insert" => client[c].header \in Secrets \cup {None}
                                  /\ client[c].name \in Names
    /\ client[c].at \in {"shown", "merge"} => client[c].id \in Tools /\ Exists(client[c].id)
    /\ client[c].at = "shown" /\ client[c].shown = Mask =>
           tool[client[c].id].header # None \/ client[c].id \in removed
    /\ client[c].at = "merge" =>
           /\ client[c].loaded \in Rows
           /\ client[c].loaded.header = Mask => client[c].id \in removed
           /\ client[c].header = Mask =>
                  client[c].loaded.header # None \/ client[c].id \in removed

ClientsKnow == \A c \in Clients : Knows(c)

ToolInv == ToolTypeOK /\ MaskNeedsRemoval /\ ClientsKnow

LEMMA ToolInvInit == ToolInit => ToolInv
  BY ToolsAssumption DEF ToolsAssumption, ToolInit, ToolInv, ToolTypeOK, MaskNeedsRemoval,
     ClientsKnow, Knows, Idle, Exists, Headers

\* What a step does to the rows without upsetting what the clients know.
Benign(t) ==
    /\ tool'[t] \in Rows
    /\ tool'[t].header = None => tool[t].header = None \/ t \in removed'
    /\ tool'[t].header = Mask => t \in removed'

LEMMA ClientsStillKnow ==
  ASSUME ToolInv, removed \subseteq removed',
         \A t \in Tools : Exists(t) => Benign(t),
         NEW c \in Clients, client'[c] = client[c]
  PROVE  Knows(c)'
<1> USE ToolsAssumption DEF ToolsAssumption
<1>1. Knows(c)
  BY DEF ToolInv, ClientsKnow
<1>2. CASE client[c].at \in {"shown", "merge"}
  <2>1. PICK t \in Tools : t = client[c].id /\ Exists(t) /\ Benign(t)
    BY <1>1, <1>2 DEF Knows
  <2>2. Exists(t)'
    BY <2>1 DEF Benign, Exists
  <2>3. tool[t].header # None \/ t \in removed => tool'[t].header # None \/ t \in removed'
    BY <2>1 DEF Benign
  <2> QED BY <1>1, <1>2, <2>1, <2>2, <2>3 DEF Knows
<1>3. CASE client[c].at \notin {"shown", "merge"}
  BY <1>1, <1>3 DEF Knows
<1> QED BY <1>2, <1>3

LEMMA ToolInvStep == ToolInv /\ [ToolNext]_toolVars => ToolInv'
<1> SUFFICES ASSUME ToolInv, [ToolNext]_toolVars PROVE ToolInv'
  OBVIOUS
<1>0. ToolTypeOK /\ MaskNeedsRemoval /\ ClientsKnow
  BY DEF ToolInv
<1> USE ToolsAssumption DEF ToolsAssumption
<1>1. CASE UNCHANGED toolVars
  BY <1>0, <1>1 DEF toolVars, ToolInv, ToolTypeOK, MaskNeedsRemoval, ClientsKnow, Knows, Exists
<1>2. ASSUME NEW t \in Tools, Deletes(t) PROVE ToolInv'
  <2>1. ToolTypeOK'
    <3>1. tool[t] \in Rows
      BY <1>0, <1>2 DEF Deletes, Listed, Exists, ToolTypeOK
    <3>2. [tool[t] EXCEPT !.active = FALSE] \in Rows
      BY <3>1 DEF Rows
    <3>3. tool' = [tool EXCEPT ![t] = [tool[t] EXCEPT !.active = FALSE]]
      BY <1>2 DEF Deletes
    <3>4. tool' \in [Tools -> Rows \cup {None}]
      BY <1>0, <3>2, <3>3 DEF ToolTypeOK
    <3> QED BY <1>0, <1>2, <3>4 DEF Deletes, ToolTypeOK
  <2>2. \A u \in Tools : Exists(u) => Exists(u)' /\ tool'[u].header = tool[u].header
    BY <1>0, <1>2, <2>1 DEF Deletes, Listed, Exists, ToolTypeOK, Rows
  <2>3. \A u \in Tools : Exists(u)' => Exists(u)
    BY <1>0, <1>2 DEF Deletes, Listed, Exists, ToolTypeOK
  <2>4. MaskNeedsRemoval'
    BY <1>0, <1>2, <2>2, <2>3 DEF Deletes, MaskNeedsRemoval
  <2>5. ClientsKnow'
    BY <1>0, <1>2, <2>2 DEF Deletes, ClientsKnow, Knows
  <2> QED BY <2>1, <2>4, <2>5 DEF ToolInv
<1>3. ASSUME NEW c \in Clients, NEW name \in Names, NEW h \in Secrets \cup {None},
             ChecksName(c, name, h)
      PROVE  ToolInv'
  <2>1. ToolTypeOK'
    BY <1>0, <1>3 DEF ChecksName, To, Idle, ToolTypeOK, Headers
  <2>2. MaskNeedsRemoval' /\ ClientsKnow'
    BY <1>0, <1>3 DEF ChecksName, To, Idle, ToolTypeOK, MaskNeedsRemoval, ClientsKnow, Knows,
       Exists
  <2> QED BY <2>1, <2>2 DEF ToolInv
<1>4. ASSUME NEW c \in Clients, NEW name \in Names \cup {None}, NEW h \in Headers,
             Loads(c, name, h)
      PROVE  ToolInv'
  <2>1. PICK t \in Tools :
           /\ t = client[c].id /\ Exists(t) /\ tool[t] \in Rows
           /\ client' = [client EXCEPT ![c] =
                 [client[c] EXCEPT !.at = "merge", !.name = name, !.header = h,
                                   !.loaded = tool[t]]]
           /\ UNCHANGED <<tool, removed>>
           /\ client[c].at = "shown" /\ h \in Secrets \cup {client[c].shown, None}
    BY <1>0, <1>4 DEF Loads, To, ToolTypeOK, ClientsKnow, Knows, Exists
  <2>2. ToolTypeOK'
    <3>1. PICK row \in Rows :
             client' = [client EXCEPT ![c] =
                [client[c] EXCEPT !.at = "merge", !.name = name, !.header = h, !.loaded = row]]
      BY <2>1
    <3> DEFINE after == [client[c] EXCEPT !.at = "merge", !.name = name, !.header = h,
                                          !.loaded = row]
    <3>2. after \in [at : {"idle", "insert", "shown", "merge"}, id : Tools \cup {None},
                     shown : {Mask, None}, name : Names \cup {None}, header : Headers,
                     loaded : Rows \cup {None}]
      BY <1>0 DEF ToolTypeOK
    <3> HIDE DEF after
    <3>3. client' = [client EXCEPT ![c] = after]
      BY <3>1 DEF after
    <3> QED BY <1>0, <2>1, <3>2, <3>3 DEF ToolTypeOK
  <2>3. /\ client'[c].at = "merge" /\ client'[c].id = t /\ client'[c].header = h
        /\ client'[c].loaded = tool[t]
        /\ \A d \in Clients : d # c => client'[d] = client[d]
    BY <1>0, <2>1 DEF ToolTypeOK
  <2>4. h = Mask => tool[t].header # None \/ t \in removed
    BY <1>0, <2>1 DEF ClientsKnow, Knows
  <2>5. tool[t].header = Mask => t \in removed
    BY <1>0, <2>1 DEF MaskNeedsRemoval
  <2>6. ClientsKnow'
    BY <1>0, <2>1, <2>3, <2>4, <2>5 DEF ClientsKnow, Knows, Exists
  <2>7. MaskNeedsRemoval'
    BY <1>0, <2>1 DEF MaskNeedsRemoval, Exists
  <2> QED BY <2>2, <2>6, <2>7 DEF ToolInv
<1>5. ASSUME NEW c \in Clients, NEW t \in Tools, InsertsTool(c, t) PROVE ToolInv'
  <2>1. /\ client[c].name \in Names /\ client[c].header \in Secrets \cup {None}
        /\ removed' = removed /\ client' = [client EXCEPT ![c] = Idle]
        /\ ~Exists(t)
    BY <1>0, <1>5 DEF InsertsTool, To, ClientsKnow, Knows
  <2>2. \/ tool' = tool
        \/ tool' = [tool EXCEPT ![t] = [name |-> client[c].name, active |-> TRUE,
                                        header |-> client[c].header]]
    BY <1>5 DEF InsertsTool
  <2>3. ToolTypeOK'
    <3>1. tool' \in [Tools -> Rows \cup {None}]
      <4>1. [name |-> client[c].name, active |-> TRUE, header |-> client[c].header] \in Rows
        BY <2>1 DEF Rows, Headers
      <4> QED BY <1>0, <2>2, <4>1 DEF ToolTypeOK
    <3> QED BY <1>0, <2>1, <3>1 DEF ToolTypeOK, Idle, Headers
  <2>4. \A u \in Tools : Exists(u) => tool'[u] = tool[u]
    BY <1>0, <2>1, <2>2 DEF ToolTypeOK
  <2>5. MaskNeedsRemoval'
    BY <1>0, <2>1, <2>2 DEF ToolTypeOK, MaskNeedsRemoval, Exists
  <2>6. \A d \in Clients : d # c => client'[d] = client[d]
    BY <1>0, <2>1 DEF ToolTypeOK
  <2>7. client'[c] = Idle
    BY <1>0, <2>1 DEF ToolTypeOK
  <2>8. ClientsKnow'
    BY <1>0, <2>1, <2>4, <2>6, <2>7 DEF ClientsKnow, Knows, Exists, Idle
  <2> QED BY <2>3, <2>5, <2>8 DEF ToolInv
<1>6. ASSUME NEW c \in Clients, NEW t \in Tools, Shows(c, t) PROVE ToolInv'
  <2>1. ToolTypeOK'
    BY <1>0, <1>6 DEF Shows, To, Idle, ToolTypeOK, Headers
  <2>2. MaskNeedsRemoval' /\ ClientsKnow'
    BY <1>0, <1>6 DEF Shows, To, Idle, Listed, ToolTypeOK, MaskNeedsRemoval, ClientsKnow,
       Knows, Exists
  <2> QED BY <2>1, <2>2 DEF ToolInv
<1>7. ASSUME NEW c \in Clients, Saves(c) PROVE ToolInv'
  <2>1. PICK t \in Tools : t = client[c].id /\ Exists(t) /\ tool[t] \in Rows
    BY <1>0, <1>7 DEF Saves, ClientsKnow, Knows, Exists, ToolTypeOK
  <2>2. /\ client[c].loaded \in Rows
        /\ client[c].loaded.header = Mask => t \in removed
        /\ client[c].header = Mask => client[c].loaded.header # None \/ t \in removed
        /\ client[c].name \in Names \cup {None} /\ client[c].header \in Headers
    BY <1>0, <1>7, <2>1 DEF Saves, ClientsKnow, Knows, ToolTypeOK
  <2>3. client' = [client EXCEPT ![c] = Idle]
    BY <1>7 DEF Saves, To
  <2>4. /\ Merged(c) \in Headers
        /\ Merged(c) = Mask => Merged(c) = client[c].loaded.header \/ t \in removed
    BY <2>2 DEF Merged, Rows
  <2>5. PICK name \in Names, header \in Headers :
           /\ header = tool[t].header \/ (header = Merged(c) /\ header # client[c].loaded.header)
           /\ \/ tool' = tool /\ removed' = removed
              \/ /\ tool' = [tool EXCEPT ![t].name = name, ![t].header = header]
                 /\ removed' = IF header = None /\ tool[t].header # None
                               THEN removed \cup {t} ELSE removed
    <3> DEFINE read == client[c].loaded
               name == IF client[c].name \in {None, read.name} THEN tool[t].name
                       ELSE client[c].name
               header == IF Merged(c) = read.header THEN tool[t].header ELSE Merged(c)
    <3>1. name \in Names
      BY <2>1, <2>2 DEF Rows
    <3>2. header \in Headers
      BY <2>1, <2>4 DEF Rows
    <3>3. header = tool[t].header \/ (header = Merged(c) /\ header # client[c].loaded.header)
      OBVIOUS
    <3>4. \/ tool' = tool /\ removed' = removed
          \/ /\ tool' = [tool EXCEPT ![t].name = name, ![t].header = header]
             /\ removed' = IF header = None /\ tool[t].header # None
                           THEN removed \cup {t} ELSE removed
      BY <1>7, <2>1 DEF Saves
    <3> HIDE DEF name, header
    <3> QED BY <3>1, <3>2, <3>3, <3>4
  <2>6. header = Mask => t \in removed
    BY <1>0, <2>1, <2>4, <2>5 DEF MaskNeedsRemoval
  <2>7. /\ removed \subseteq removed' /\ removed' \subseteq Tools
        /\ tool' \in [Tools -> Rows \cup {None}]
        /\ Benign(t) /\ \A u \in Tools : u # t => tool'[u] = tool[u]
    <3>1. CASE tool' = tool /\ removed' = removed
      BY <1>0, <2>1, <3>1 DEF ToolTypeOK, Benign, MaskNeedsRemoval, Exists
    <3>2. CASE /\ tool' = [tool EXCEPT ![t].name = name, ![t].header = header]
               /\ removed' = IF header = None /\ tool[t].header # None
                             THEN removed \cup {t} ELSE removed
      <4>1. /\ tool'[t] = [tool[t] EXCEPT !.name = name, !.header = header]
            /\ \A u \in Tools : u # t => tool'[u] = tool[u]
            /\ tool' = [tool EXCEPT ![t] = tool'[t]]
        BY <1>0, <2>1, <3>2 DEF ToolTypeOK
      <4>2. tool'[t] \in Rows /\ tool'[t].header = header
        BY <2>1, <4>1 DEF Rows
      <4>3. tool' \in [Tools -> Rows \cup {None}]
        BY <1>0, <4>1, <4>2 DEF ToolTypeOK
      <4> QED BY <1>0, <2>1, <2>6, <3>2, <4>1, <4>2, <4>3 DEF ToolTypeOK, Benign
    <3> QED BY <2>5, <3>1, <3>2
  <2>8. \A u \in Tools : Exists(u) => Benign(u)
    <3>1. ASSUME NEW u \in Tools, Exists(u), u # t PROVE Benign(u)
      <4>1. tool[u] \in Rows /\ tool'[u] = tool[u]
        BY <1>0, <2>7, <3>1 DEF ToolTypeOK, Exists
      <4>2. tool[u].header = Mask => u \in removed
        BY <1>0, <3>1 DEF MaskNeedsRemoval
      <4> QED BY <2>7, <4>1, <4>2 DEF Benign
    <3> QED BY <2>7, <3>1
  <2>9. ToolTypeOK'
    BY <1>0, <2>3, <2>7 DEF ToolTypeOK, Idle, Headers
  <2>10. MaskNeedsRemoval'
    <3>1. \A u \in Tools : Exists(u)' => Exists(u)
      BY <2>1, <2>7 DEF Exists
    <3> QED BY <2>8, <3>1 DEF MaskNeedsRemoval, Benign
  <2>11. /\ client'[c] = Idle
         /\ \A d \in Clients : d # c => client'[d] = client[d]
    BY <1>0, <2>3 DEF ToolTypeOK
  <2>12. ASSUME NEW d \in Clients PROVE Knows(d)'
    <3>1. CASE d = c
      BY <2>11, <3>1 DEF Knows, Idle
    <3>2. CASE d # c
      BY <2>7, <2>8, <2>11, <3>2, ClientsStillKnow
    <3> QED BY <3>1, <3>2
  <2> QED BY <2>9, <2>10, <2>12 DEF ToolInv, ClientsKnow
<1>8. ASSUME NEW c \in Clients, Leaves(c) PROVE ToolInv'
  <2>1. ToolTypeOK'
    BY <1>0, <1>8 DEF Leaves, To, Idle, ToolTypeOK, Headers
  <2>2. MaskNeedsRemoval' /\ ClientsKnow'
    BY <1>0, <1>8 DEF Leaves, To, Idle, ToolTypeOK, MaskNeedsRemoval, ClientsKnow, Knows,
       Exists
  <2> QED BY <2>1, <2>2 DEF ToolInv
<1> QED BY <1>1, <1>2, <1>3, <1>4, <1>5, <1>6, <1>7, <1>8 DEF ToolNext

\* The rows and the clients keep their types.
THEOREM ToolTypeCorrect == ToolSpec => []ToolTypeOK
<1>1. ToolInv => ToolTypeOK
  BY DEF ToolInv
<1> QED BY ToolInvInit, ToolInvStep, <1>1, PTL DEF ToolSpec

\* _merge_api_config loses no secret to its mask as long as nobody removes the
\* header between a client's GET and its edit.
THEOREM MaskAlwaysNeedsRemoval == ToolSpec => []MaskNeedsRemoval
<1>1. ToolInv => MaskNeedsRemoval
  BY DEF ToolInv
<1> QED BY ToolInvInit, ToolInvStep, <1>1, PTL DEF ToolSpec

----------------------------------------------------------------------------
(* The doctor: as long as requests do not overlap on a suggestion, what one of *)
(* them has read of it is what it is.                                          *)

Reading(d, s) == doctor[d].read[s] # Nil
IsOpen(s) == sugg[s] # Nil /\ sugg[s].status \in Patchable
Diagnosing(d, e) == doctor[d].at = "diagnose" /\ doctor[d].on = e

\* The statuses a request can have read, by what it does.
Readable(what) ==
    IF what = "idle" THEN {}
    ELSE IF what = "dismiss" THEN Statuses \ {"applied"}
    ELSE Patchable

\* A request has read rows that exist, of the execution it diagnoses, and the
\* suggestion it acts on.
ReadsFit ==
    \A d \in Doctors :
        /\ doctor[d].at = "diagnose" => doctor[d].on \in Execs
        /\ doctor[d].at \in {"replay", "apply"} =>
               doctor[d].on \in Suggs /\ Reading(d, doctor[d].on)
        /\ \A s \in Suggs : Reading(d, s) =>
               /\ sugg[s] # Nil
               /\ doctor[d].read[s] \in Readable(doctor[d].at)
               /\ doctor[d].at = "diagnose" => sugg[s].exec = doctor[d].on

\* Without an overlap a suggestion has one reader, whose reading is true.
ReadsHold ==
    \A s \in Suggs \ overlap : \A d \in Doctors : Reading(d, s) =>
        /\ sugg[s].status = doctor[d].read[s]
        /\ \A c \in Doctors : Reading(c, s) => c = d

\* A retry goes with the status.
RetriesFit ==
    \A s \in Suggs :
        /\ sugg[s] = Nil => retries[s] = 0
        /\ s \notin overlap /\ retries[s] # 0 => retries[s] = 1 /\ sugg[s].status = "applied"

\* An execution has one open suggestion, and whoever diagnoses it has read it.
OpenIsUnique ==
    \A e \in Execs \ doubled :
        /\ \A s, t \in Suggs \ overlap :
              IsOpen(s) /\ sugg[s].exec = e /\ IsOpen(t) /\ sugg[t].exec = e => s = t
        /\ \A d \in Doctors : Diagnosing(d, e) =>
              /\ \A c \in Doctors : Diagnosing(c, e) => c = d
              /\ \A s \in Suggs \ overlap : IsOpen(s) /\ sugg[s].exec = e => Reading(d, s)

Core == ReadsFit /\ ReadsHold /\ RetriesFit /\ OpenIsUnique
DoctorInv == DoctorTypeOK /\ Core

LEMMA DoctorInvInit == DoctorInit => DoctorInv
<1> SUFFICES ASSUME DoctorInit PROVE DoctorInv
  OBVIOUS
<1> USE DoctorAssumption DEF DoctorAssumption
<1>1. DoctorTypeOK
  BY DEF DoctorInit, DoctorTypeOK, Away, Execs, Suggs
<1>2. ReadsFit /\ ReadsHold /\ RetriesFit
  BY DEF DoctorInit, ReadsFit, ReadsHold, RetriesFit, Reading, Away
<1>3. OpenIsUnique
  BY DEF DoctorInit, OpenIsUnique, IsOpen, Diagnosing, Away
<1> QED BY <1>1, <1>2, <1>3 DEF DoctorInv, Core

----------------------------------------------------------------------------
(* The kinds of steps: the world around the doctor moves, a request reads,     *)
(* returns with nothing written, or writes a status.                           *)

\* What may become of a suggestion that no two requests overlap on.
SettledStays ==
    \A s \in Suggs :
        /\ sugg[s] # Nil /\ sugg[s].status \in {"applied", "dismissed"}
        /\ s \notin overlap'
        => sugg'[s] = sugg[s]

LEMMA WorldMoves ==
  ASSUME Core, UNCHANGED <<retries, sugg, overlap, doubled, doctor>>
  PROVE  Core' /\ SettledStays
<1>1. ReadsFit' /\ ReadsHold'
  BY DEF Core, ReadsFit, ReadsHold, Reading
<1>2. RetriesFit'
  BY DEF Core, RetriesFit
<1>3. OpenIsUnique'
  BY DEF Core, OpenIsUnique, IsOpen, Diagnosing, Reading
<1> QED BY <1>1, <1>2, <1>3 DEF Core, SettledStays

LEMMA AwayReadsNothing == \A s \in Suggs : Away.read[s] = Nil
  BY DEF Away

\* The request of d is over: nobody else's place has changed.
LEMMA ReturnFacts ==
  ASSUME DoctorTypeOK, NEW d \in Doctors, Returns(d)
  PROVE  /\ overlap' = overlap /\ doubled' = doubled
         /\ doctor' \in [Doctors ->
               [at : {"idle", "diagnose", "replay", "apply", "dismiss"},
                on : Execs \cup Suggs \cup {Nil}, read : [Suggs -> Statuses \cup {Nil}]]]
         /\ \A c \in Doctors : c # d => doctor'[c] = doctor[c]
         /\ doctor'[d].at = "idle" /\ \A s \in Suggs : ~Reading(d, s)'
<1>1. Away \in [at : {"idle", "diagnose", "replay", "apply", "dismiss"},
                on : Execs \cup Suggs \cup {Nil}, read : [Suggs -> Statuses \cup {Nil}]]
  BY DEF Away
<1>2. overlap' = overlap /\ doubled' = doubled /\ doctor' = [doctor EXCEPT ![d] = Away]
  BY DEF Returns, Goes
<1>3. doctor'[d] = Away
  BY <1>2 DEF DoctorTypeOK
<1>4. doctor'[d].at = "idle"
  BY <1>3 DEF Away
<1>5. \A s \in Suggs : ~Reading(d, s)'
  BY <1>3, AwayReadsNothing DEF Reading
<1> QED BY <1>1, <1>2, <1>4, <1>5 DEF DoctorTypeOK

\* A request ends and leaves the suggestions alone.
LEMMA LeavesNothing ==
  ASSUME DoctorInv, NEW d \in Doctors, Returns(d), UNCHANGED <<retries, sugg>>
  PROVE  Core' /\ SettledStays
<1>0. DoctorTypeOK /\ ReadsFit /\ ReadsHold /\ RetriesFit /\ OpenIsUnique
  BY DEF DoctorInv, Core
<1>1. /\ overlap' = overlap /\ doubled' = doubled
      /\ \A c \in Doctors : c # d => doctor'[c] = doctor[c]
      /\ doctor'[d].at = "idle" /\ \A s \in Suggs : ~Reading(d, s)'
  BY <1>0, ReturnFacts
<1>2. ReadsFit'
  BY <1>0, <1>1 DEF ReadsFit, Reading
<1>3. ReadsHold'
  BY <1>0, <1>1 DEF ReadsHold, Reading
<1>4. RetriesFit'
  BY <1>0, <1>1 DEF RetriesFit
<1>5. \A s \in Suggs : IsOpen(s)' = IsOpen(s)
  BY DEF IsOpen
<1>6. \A c \in Doctors, e \in Execs : Diagnosing(c, e)' => c # d /\ Diagnosing(c, e)
  BY <1>1 DEF Diagnosing
<1>7. \A c \in Doctors, s \in Suggs : c # d => Reading(c, s)' = Reading(c, s)
  BY <1>1 DEF Reading
<1>8. OpenIsUnique'
  BY <1>0, <1>1, <1>5, <1>6, <1>7 DEF OpenIsUnique
<1> QED BY <1>2, <1>3, <1>4, <1>8 DEF Core, SettledStays

\* A status is one of them.
LEMMA StatusType ==
  /\ "applied" \in Statuses /\ "dismissed" \in Statuses /\ "proposed" \in Statuses
  /\ "replay_passed" \in Statuses /\ "replay_failed" \in Statuses
  /\ Patchable \subseteq Statuses
  /\ "applied" \notin Patchable /\ "dismissed" \notin Patchable
  BY DEF Statuses, Patchable

\* What a request writes: the status of the rows it has read, if it differs.
LEMMA WrittenRows ==
  ASSUME DoctorInv, NEW d \in Doctors, NEW to \in Statuses
  PROVE  /\ Written(d, to) \in [Suggs -> Suggestion \cup {Nil}]
         /\ \A s \in Suggs :
               /\ Written(d, to)[s] = Nil <=> sugg[s] = Nil
               /\ sugg[s] # Nil => Written(d, to)[s].exec = sugg[s].exec
               /\ ~Reading(d, s) => Written(d, to)[s] = sugg[s]
               /\ Reading(d, s) /\ doctor[d].read[s] # to => Written(d, to)[s].status = to
               /\ doctor[d].read[s] = to => Written(d, to)[s] = sugg[s]
               /\ Reading(d, s) /\ s \notin overlap => Written(d, to)[s].status = to
<1> USE DoctorAssumption DEF DoctorAssumption
<1>0. DoctorTypeOK /\ ReadsFit /\ ReadsHold
  BY DEF DoctorInv, Core
<1>1. to # Nil
  OBVIOUS
<1>2. ASSUME NEW s \in Suggs
      PROVE  /\ Written(d, to)[s] \in Suggestion \cup {Nil}
             /\ Written(d, to)[s] = Nil <=> sugg[s] = Nil
             /\ sugg[s] # Nil => Written(d, to)[s].exec = sugg[s].exec
             /\ ~Reading(d, s) => Written(d, to)[s] = sugg[s]
             /\ Reading(d, s) /\ doctor[d].read[s] # to => Written(d, to)[s].status = to
             /\ doctor[d].read[s] = to => Written(d, to)[s] = sugg[s]
             /\ Reading(d, s) /\ s \notin overlap => Written(d, to)[s].status = to
  <2>1. CASE doctor[d].read[s] \in {Nil, to}
    <3>1. Written(d, to)[s] = sugg[s]
      BY <2>1 DEF Written
    <3>2. sugg[s] \in Suggestion \cup {Nil}
      BY <1>0 DEF DoctorTypeOK
    <3>3. Reading(d, s) /\ s \notin overlap => sugg[s].status = to
      BY <1>0, <2>1 DEF ReadsHold, Reading
    <3> QED BY <2>1, <3>1, <3>2, <3>3 DEF Reading
  <2>2. CASE doctor[d].read[s] \notin {Nil, to}
    <3>1. Reading(d, s) /\ sugg[s] # Nil
      BY <1>0, <2>2 DEF ReadsFit, Reading
    <3>2. sugg[s] \in Suggestion
      BY <1>0, <3>1 DEF DoctorTypeOK
    <3>3. Written(d, to)[s] = [sugg[s] EXCEPT !.status = to]
      BY <2>2 DEF Written
    <3>4. /\ Written(d, to)[s] \in Suggestion
          /\ Written(d, to)[s].exec = sugg[s].exec
          /\ Written(d, to)[s].status = to
      BY <3>2, <3>3 DEF Suggestion
    <3> QED BY <2>2, <3>1, <3>4
  <2> QED BY <2>1, <2>2
<1> QED BY <1>2 DEF Written

\* A request that has nothing settled to write over keeps what is settled.
LEMMA WritesOpen ==
  ASSUME DoctorInv, NEW d \in Doctors, NEW to \in Statuses,
         \A s \in Suggs : Reading(d, s) => doctor[d].read[s] \in Patchable \cup {to}
  PROVE  \A s \in Suggs \ overlap :
            sugg[s] # Nil /\ sugg[s].status \in {"applied", "dismissed"}
                => Written(d, to)[s] = sugg[s]
<1> SUFFICES ASSUME NEW s \in Suggs \ overlap, sugg[s].status \in {"applied", "dismissed"}
             PROVE  Written(d, to)[s] = sugg[s]
  OBVIOUS
<1>1. CASE ~Reading(d, s)
  BY <1>1, WrittenRows
<1>2. CASE Reading(d, s)
  <2>1. sugg[s].status = doctor[d].read[s]
    BY <1>2 DEF DoctorInv, Core, ReadsHold
  <2>2. doctor[d].read[s] = to
    BY <1>2, <2>1, StatusType
  <2> QED BY <2>2, WrittenRows
<1> QED BY <1>1, <1>2

\* A request ends and writes a status; with it goes, if it applies a suggestion, a
\* retry.
LEMMA WritesStatus ==
  ASSUME DoctorInv, NEW d \in Doctors, NEW to \in Statuses, Returns(d),
         sugg' = Written(d, to),
         \A s \in Suggs : Reading(d, s) => doctor[d].read[s] \in Patchable \cup {to},
         \/ retries' = retries
         \/ /\ to = "applied" /\ doctor[d].at = "apply"
            /\ retries' = [retries EXCEPT ![doctor[d].on] = @ + 1]
  PROVE  Core' /\ SettledStays
<1> USE DoctorAssumption DEF DoctorAssumption
<1>0. DoctorTypeOK /\ ReadsFit /\ ReadsHold /\ RetriesFit /\ OpenIsUnique
  BY DEF DoctorInv, Core
<1>1. /\ overlap' = overlap /\ doubled' = doubled
      /\ \A c \in Doctors : c # d => doctor'[c] = doctor[c]
      /\ doctor'[d].at = "idle" /\ \A s \in Suggs : ~Reading(d, s)'
  BY <1>0, ReturnFacts
<1>2. \A s \in Suggs :
         /\ sugg'[s] = Nil <=> sugg[s] = Nil
         /\ sugg[s] # Nil => sugg'[s].exec = sugg[s].exec
         /\ ~Reading(d, s) => sugg'[s] = sugg[s]
         /\ Reading(d, s) /\ s \notin overlap => sugg'[s].status = to
  BY WrittenRows
<1>3. \A s \in Suggs \ overlap :
         sugg[s] # Nil /\ sugg[s].status \in {"applied", "dismissed"} => sugg'[s] = sugg[s]
  BY WritesOpen
<1>4. SettledStays
  BY <1>1, <1>3 DEF SettledStays
<1>5. \A c \in Doctors, s \in Suggs : Reading(c, s)' => c # d /\ Reading(c, s)
  BY <1>1 DEF Reading
<1>6. ReadsFit'
  BY <1>0, <1>1, <1>2, <1>5 DEF ReadsFit, Reading
<1>7. ReadsHold'
  <2> SUFFICES ASSUME NEW s \in Suggs \ overlap, NEW c \in Doctors, Reading(c, s)'
               PROVE  /\ sugg'[s].status = doctor'[c].read[s]
                      /\ \A b \in Doctors : Reading(b, s)' => b = c
    BY <1>1 DEF ReadsHold
  <2>1. c # d /\ Reading(c, s) /\ ~Reading(d, s)
    BY <1>0, <1>5 DEF ReadsHold
  <2>2. sugg'[s] = sugg[s] /\ doctor'[c] = doctor[c]
    BY <1>1, <1>2, <2>1
  <2> QED BY <1>0, <1>5, <2>1, <2>2 DEF ReadsHold
<1>8. RetriesFit'
  <2> SUFFICES ASSUME NEW s \in Suggs
               PROVE  /\ sugg'[s] = Nil => retries'[s] = 0
                      /\ s \notin overlap /\ retries'[s] # 0 =>
                             retries'[s] = 1 /\ sugg'[s].status = "applied"
    BY <1>1 DEF RetriesFit
  <2>1. CASE retries'[s] = retries[s]
    <3>1. sugg'[s] = Nil => retries'[s] = 0
      BY <1>0, <1>2, <2>1 DEF RetriesFit
    <3>2. ASSUME s \notin overlap, retries'[s] # 0
          PROVE  retries'[s] = 1 /\ sugg'[s].status = "applied"
      <4>1. retries[s] = 1 /\ sugg[s].status = "applied" /\ sugg[s] # Nil
        BY <1>0, <2>1, <3>2 DEF RetriesFit
      <4> QED BY <1>3, <2>1, <3>2, <4>1
    <3> QED BY <3>1, <3>2
  <2>2. CASE retries'[s] # retries[s]
    <3>1. s = doctor[d].on /\ Reading(d, s) /\ to = "applied" /\ doctor[d].at = "apply"
      BY <1>0, <2>2 DEF ReadsFit, DoctorTypeOK
    <3>2. retries' = [retries EXCEPT ![s] = @ + 1]
      BY <2>2, <3>1
    <3>3. retries'[s] = retries[s] + 1
      BY <1>0, <3>2 DEF DoctorTypeOK
    <3>4. sugg[s] # Nil /\ sugg'[s] # Nil
      BY <1>0, <1>2, <3>1 DEF ReadsFit
    <3>5. ASSUME s \notin overlap PROVE retries'[s] = 1 /\ sugg'[s].status = "applied"
      <4>1. sugg[s].status = doctor[d].read[s] /\ doctor[d].read[s] \in Patchable
        BY <1>0, <3>1, <3>5 DEF ReadsHold, ReadsFit, Readable
      <4>2. sugg[s].status # "applied"
        BY <4>1, StatusType
      <4>3. retries[s] = 0
        BY <1>0, <3>5, <4>2 DEF RetriesFit
      <4> QED BY <1>2, <3>1, <3>3, <3>5, <4>3
    <3> QED BY <3>4, <3>5
  <2> QED BY <2>1, <2>2
<1>9. \A s \in Suggs \ overlap : IsOpen(s)' => IsOpen(s)
  <2> SUFFICES ASSUME NEW s \in Suggs \ overlap, IsOpen(s)', ~IsOpen(s)
               PROVE  FALSE
    OBVIOUS
  <2>1. sugg'[s] # Nil /\ sugg'[s].status \in Patchable /\ sugg[s] # Nil
    BY <1>2 DEF IsOpen
  <2>2. sugg[s].status \in Statuses /\ sugg[s].status \notin Patchable
    BY <1>0, <2>1 DEF IsOpen, DoctorTypeOK, Suggestion
  <2>3. sugg[s].status \in {"applied", "dismissed"}
    BY <2>2 DEF Statuses, Patchable
  <2> QED BY <1>3, <2>1, <2>2, <2>3
<1>10. \A c \in Doctors, e \in Execs : Diagnosing(c, e)' => c # d /\ Diagnosing(c, e)
  BY <1>1 DEF Diagnosing
<1>11. OpenIsUnique'
  <2> SUFFICES ASSUME NEW e \in Execs \ doubled
               PROVE  /\ \A s, t \in Suggs \ overlap :
                            /\ IsOpen(s)' /\ sugg'[s].exec = e
                            /\ IsOpen(t)' /\ sugg'[t].exec = e
                            => s = t
                      /\ \A c \in Doctors : Diagnosing(c, e)' =>
                            /\ \A b \in Doctors : Diagnosing(b, e)' => b = c
                            /\ \A s \in Suggs \ overlap :
                                  IsOpen(s)' /\ sugg'[s].exec = e => Reading(c, s)'
    BY <1>1 DEF OpenIsUnique
  <2>1. \A s \in Suggs \ overlap :
           IsOpen(s)' /\ sugg'[s].exec = e => IsOpen(s) /\ sugg[s].exec = e
    BY <1>2, <1>9 DEF IsOpen
  <2>2. \A c \in Doctors : Diagnosing(c, e)' => \A b \in Doctors : Diagnosing(b, e)' => b = c
    BY <1>0, <1>10 DEF OpenIsUnique
  <2>3. ASSUME NEW c \in Doctors, Diagnosing(c, e)', NEW s \in Suggs \ overlap,
               IsOpen(s)', sugg'[s].exec = e
        PROVE  Reading(c, s)'
    <3>1. c # d /\ Reading(c, s)
      BY <1>0, <1>10, <2>1, <2>3 DEF OpenIsUnique
    <3> QED BY <1>1, <3>1 DEF Reading
  <2>4. \A s, t \in Suggs \ overlap :
           IsOpen(s)' /\ sugg'[s].exec = e /\ IsOpen(t)' /\ sugg'[t].exec = e => s = t
    BY <1>0, <2>1 DEF OpenIsUnique
  <2> QED BY <2>2, <2>3, <2>4
<1> QED BY <1>4, <1>6, <1>7, <1>8, <1>11 DEF Core
\* A request begins with the suggestions of S: whoever has read one of them too
\* overlaps with it.
LEMMA BeginsReading ==
  ASSUME DoctorInv, NEW d \in Doctors, NEW what \in {"diagnose", "replay", "apply", "dismiss"},
         NEW on \in Execs \cup Suggs, NEW STATE S, S \subseteq Suggs, Begins(d, what, on, S),
         \A s \in S : sugg[s] # Nil /\ sugg[s].status \in Readable(what),
         what = "diagnose" => /\ on \in Execs
                              /\ \A s \in S : sugg[s].exec = on
                              /\ \A s \in Suggs : IsOpen(s) /\ sugg[s].exec = on => s \in S,
         what \in {"replay", "apply"} => on \in S,
         doubled' = IF what = "diagnose" /\ \E c \in Doctors : Diagnosing(c, on)
                    THEN doubled \cup {on} ELSE doubled
  PROVE  Core' /\ SettledStays
<1> USE DoctorAssumption DEF DoctorAssumption
<1>0. DoctorTypeOK /\ ReadsFit /\ ReadsHold /\ RetriesFit /\ OpenIsUnique
  BY DEF DoctorInv, Core
<1>1. /\ UNCHANGED <<World, sugg>>
      /\ doctor[d].at = "idle"
      /\ doctor' = [doctor EXCEPT ![d] = [at |-> what, on |-> on, read |-> Reads(S)]]
      /\ overlap' = overlap \cup {s \in S : Held(s)}
  BY DEF Begins, Goes
<1>2. /\ \A c \in Doctors : c # d => doctor'[c] = doctor[c]
      /\ doctor'[d].at = what /\ doctor'[d].on = on /\ doctor'[d].read = Reads(S)
  BY <1>0, <1>1 DEF DoctorTypeOK
<1>3. \A s \in Suggs : /\ Reading(d, s)' <=> s \in S
                       /\ s \in S => doctor'[d].read[s] = sugg[s].status
  <2> SUFFICES ASSUME NEW s \in Suggs
               PROVE  /\ doctor'[d].read[s] # Nil <=> s \in S
                      /\ s \in S => doctor'[d].read[s] = sugg[s].status
    BY DEF Reading
  <2>1. s \in S => sugg[s].status \in Statuses
    BY <1>0 DEF DoctorTypeOK, Suggestion
  <2> QED BY <1>2, <2>1 DEF Reads
<1>4. \A c \in Doctors, s \in Suggs : c # d => Reading(c, s)' = Reading(c, s)
  BY <1>2 DEF Reading
<1>5. \A s \in Suggs : ~Reading(d, s)
  BY <1>0, <1>1 DEF ReadsFit, Readable
<1>6. ReadsFit'
  BY <1>0, <1>1, <1>2, <1>3, <1>4 DEF ReadsFit
<1>7. \A c \in Doctors, s \in Suggs : s \in S /\ s \notin overlap' => ~Reading(c, s)
  BY <1>1 DEF Held, Reading
<1>8. ReadsHold'
  <2> SUFFICES ASSUME NEW s \in Suggs \ overlap', NEW c \in Doctors, Reading(c, s)'
               PROVE  /\ sugg'[s].status = doctor'[c].read[s]
                      /\ \A b \in Doctors : Reading(b, s)' => b = c
    BY DEF ReadsHold
  <2>1. s \notin overlap
    BY <1>1
  <2>2. CASE c = d
    BY <1>1, <1>3, <1>4, <1>7, <2>2
  <2>3. CASE c # d
    <3>1. Reading(c, s) /\ s \notin S
      BY <1>4, <1>7, <2>3
    <3> QED BY <1>0, <1>1, <1>2, <1>3, <1>4, <2>1, <2>3, <3>1 DEF ReadsHold
  <2> QED BY <2>2, <2>3
<1>9. RetriesFit'
  BY <1>0, <1>1 DEF RetriesFit, World
<1>10. \A s \in Suggs : IsOpen(s)' = IsOpen(s)
  BY <1>1 DEF IsOpen
<1>11. OpenIsUnique'
  <2> SUFFICES ASSUME NEW e \in Execs \ doubled'
               PROVE  /\ \A s, t \in Suggs \ overlap' :
                            IsOpen(s) /\ sugg[s].exec = e /\ IsOpen(t) /\ sugg[t].exec = e
                                => s = t
                      /\ \A c \in Doctors : Diagnosing(c, e)' =>
                            /\ \A b \in Doctors : Diagnosing(b, e)' => b = c
                            /\ \A s \in Suggs \ overlap' :
                                  IsOpen(s) /\ sugg[s].exec = e => Reading(c, s)'
    BY <1>1, <1>10 DEF OpenIsUnique
  <2>1. e \notin doubled /\ \A s \in Suggs \ overlap' : s \notin overlap
    BY <1>1
  <2>2. \A c \in Doctors : c # d => Diagnosing(c, e)' = Diagnosing(c, e)
    BY <1>2 DEF Diagnosing
  <2>3. \A s, t \in Suggs \ overlap' :
           IsOpen(s) /\ sugg[s].exec = e /\ IsOpen(t) /\ sugg[t].exec = e => s = t
    BY <1>0, <2>1 DEF OpenIsUnique
  <2>4. CASE what = "diagnose" /\ on = e
    <3>1. \A c \in Doctors : ~Diagnosing(c, e)
      BY <2>4
    <3> QED BY <1>3, <2>2, <2>3, <2>4, <3>1
  <2>5. CASE ~(what = "diagnose" /\ on = e)
    <3>1. ~Diagnosing(d, e)'
      BY <1>2, <2>5 DEF Diagnosing
    <3> QED BY <1>0, <1>4, <2>1, <2>2, <2>3, <3>1 DEF OpenIsUnique
  <2> QED BY <2>4, <2>5
<1> QED BY <1>1, <1>6, <1>8, <1>9, <1>11 DEF Core, SettledStays

\* A diagnosis ends: what was open is dismissed, and a new row is proposed.
LEMMA Proposes ==
  ASSUME DoctorInv, NEW d \in Doctors, NEW n \in Suggs, NEW new \in Suggestion, Returns(d),
         NewSugg(n), new.exec = doctor[d].on, new.status = "proposed",
         doctor[d].at = "diagnose", retries' = retries,
         sugg' = [Written(d, "dismissed") EXCEPT ![n] = new]
  PROVE  Core' /\ SettledStays
<1> USE DoctorAssumption DEF DoctorAssumption
<1>0. DoctorTypeOK /\ ReadsFit /\ ReadsHold /\ RetriesFit /\ OpenIsUnique
  BY DEF DoctorInv, Core
<1>1. /\ overlap' = overlap /\ doubled' = doubled
      /\ \A c \in Doctors : c # d => doctor'[c] = doctor[c]
      /\ doctor'[d].at = "idle" /\ \A s \in Suggs : ~Reading(d, s)'
  BY <1>0, ReturnFacts
<1>2. sugg[n] = Nil /\ \A c \in Doctors : ~Reading(c, n)
  <2>1. n \notin 1..(n - 1)
    BY DEF Suggs
  <2>2. sugg[n] = Nil
    BY <2>1 DEF NewSugg
  <2> QED BY <1>0, <2>2 DEF ReadsFit
<1>3. "dismissed" \in Statuses /\ \A s \in Suggs : Reading(d, s) => doctor[d].read[s] \in Patchable
  BY <1>0, StatusType DEF ReadsFit, Readable
<1>4. sugg'[n] = new /\ \A s \in Suggs : s # n => sugg'[s] = Written(d, "dismissed")[s]
  BY <1>3, WrittenRows
<1>5. \A s \in Suggs : s # n =>
         /\ sugg'[s] = Nil <=> sugg[s] = Nil
         /\ sugg[s] # Nil => sugg'[s].exec = sugg[s].exec
         /\ ~Reading(d, s) => sugg'[s] = sugg[s]
         /\ Reading(d, s) /\ s \notin overlap => sugg'[s].status = "dismissed"
  BY <1>3, <1>4, WrittenRows
<1>6. \A s \in Suggs \ overlap :
         sugg[s] # Nil /\ sugg[s].status \in {"applied", "dismissed"} => sugg'[s] = sugg[s]
  BY <1>2, <1>3, <1>4, WritesOpen
<1>7. SettledStays
  BY <1>1, <1>6 DEF SettledStays
<1>8. \A c \in Doctors, s \in Suggs : Reading(c, s)' => c # d /\ s # n /\ Reading(c, s)
  BY <1>1, <1>2 DEF Reading
<1>9. ReadsFit'
  BY <1>0, <1>1, <1>5, <1>8 DEF ReadsFit, Reading
<1>10. ReadsHold'
  <2> SUFFICES ASSUME NEW s \in Suggs \ overlap, NEW c \in Doctors, Reading(c, s)'
               PROVE  /\ sugg'[s].status = doctor'[c].read[s]
                      /\ \A b \in Doctors : Reading(b, s)' => b = c
    BY <1>1 DEF ReadsHold
  <2>1. c # d /\ s # n /\ Reading(c, s) /\ ~Reading(d, s)
    BY <1>0, <1>8 DEF ReadsHold
  <2>2. sugg'[s] = sugg[s] /\ doctor'[c] = doctor[c]
    BY <1>1, <1>5, <2>1
  <2> QED BY <1>0, <1>8, <2>1, <2>2 DEF ReadsHold
<1>11. new # Nil
  OBVIOUS
<1>12. RetriesFit'
  <2> SUFFICES ASSUME NEW s \in Suggs
               PROVE  /\ sugg'[s] = Nil => retries[s] = 0
                      /\ s \notin overlap /\ retries[s] # 0 =>
                             retries[s] = 1 /\ sugg'[s].status = "applied"
    BY <1>1 DEF RetriesFit
  <2>1. CASE s = n
    BY <1>0, <1>2, <2>1 DEF RetriesFit
  <2>2. CASE s # n
    <3>1. sugg'[s] = Nil => retries[s] = 0
      BY <1>0, <1>5, <2>2 DEF RetriesFit
    <3>2. ASSUME s \notin overlap, retries[s] # 0
          PROVE  retries[s] = 1 /\ sugg'[s].status = "applied"
      <4>1. retries[s] = 1 /\ sugg[s].status = "applied" /\ sugg[s] # Nil
        BY <1>0, <3>2 DEF RetriesFit
      <4> QED BY <1>6, <3>2, <4>1
    <3> QED BY <3>1, <3>2
  <2> QED BY <2>1, <2>2
<1>13. \A s \in Suggs \ overlap : s # n /\ IsOpen(s)' => IsOpen(s) /\ ~Reading(d, s)
  <2> SUFFICES ASSUME NEW s \in Suggs \ overlap, s # n, IsOpen(s)'
               PROVE  IsOpen(s) /\ ~Reading(d, s)
    OBVIOUS
  <2>1. sugg'[s] # Nil /\ sugg'[s].status \in Patchable
    BY DEF IsOpen
  <2>2. ~Reading(d, s)
    BY <1>5, <2>1, StatusType
  <2> QED BY <1>5, <2>1, <2>2 DEF IsOpen
<1>14. \A c \in Doctors, e \in Execs : Diagnosing(c, e)' => c # d /\ Diagnosing(c, e)
  BY <1>1 DEF Diagnosing
<1>15. OpenIsUnique'
  <2> SUFFICES ASSUME NEW e \in Execs \ doubled
               PROVE  /\ \A s, t \in Suggs \ overlap :
                            /\ IsOpen(s)' /\ sugg'[s].exec = e
                            /\ IsOpen(t)' /\ sugg'[t].exec = e
                            => s = t
                      /\ \A c \in Doctors : Diagnosing(c, e)' =>
                            /\ \A b \in Doctors : Diagnosing(b, e)' => b = c
                            /\ \A s \in Suggs \ overlap :
                                  IsOpen(s)' /\ sugg'[s].exec = e => Reading(c, s)'
    BY <1>1 DEF OpenIsUnique
  <2>1. \A s \in Suggs \ overlap :
           s # n /\ IsOpen(s)' /\ sugg'[s].exec = e => IsOpen(s) /\ sugg[s].exec = e
    BY <1>5, <1>13 DEF IsOpen
  <2>2. CASE doctor[d].on = e
    <3>1. Diagnosing(d, e)
      BY <2>2 DEF Diagnosing
    <3>2. \A s \in Suggs \ overlap : IsOpen(s)' /\ sugg'[s].exec = e => s = n
      BY <1>0, <1>13, <2>1, <3>1 DEF OpenIsUnique
    <3>3. \A c \in Doctors : ~Diagnosing(c, e)'
      BY <1>0, <1>14, <3>1 DEF OpenIsUnique
    <3> QED BY <3>2, <3>3
  <2>3. CASE doctor[d].on # e
    <3>1. \A s \in Suggs \ overlap :
             IsOpen(s)' /\ sugg'[s].exec = e => s # n /\ IsOpen(s) /\ sugg[s].exec = e
      BY <1>4, <2>1, <2>3
    <3>2. \A s, t \in Suggs \ overlap :
             IsOpen(s)' /\ sugg'[s].exec = e /\ IsOpen(t)' /\ sugg'[t].exec = e => s = t
      BY <1>0, <3>1 DEF OpenIsUnique
    <3>3. ASSUME NEW c \in Doctors, Diagnosing(c, e)'
          PROVE  /\ \A b \in Doctors : Diagnosing(b, e)' => b = c
                 /\ \A s \in Suggs \ overlap :
                       IsOpen(s)' /\ sugg'[s].exec = e => Reading(c, s)'
      <4>1. c # d /\ Diagnosing(c, e) /\ doctor'[c] = doctor[c]
        BY <1>1, <1>14, <3>3
      <4>2. \A b \in Doctors : Diagnosing(b, e)' => b = c
        BY <1>0, <1>14, <4>1 DEF OpenIsUnique
      <4>3. \A s \in Suggs \ overlap : IsOpen(s)' /\ sugg'[s].exec = e => Reading(c, s)'
        BY <1>0, <3>1, <4>1 DEF OpenIsUnique, Reading
      <4> QED BY <4>2, <4>3
    <3> QED BY <3>2, <3>3
  <2> QED BY <2>2, <2>3
<1> QED BY <1>7, <1>9, <1>10, <1>12, <1>15 DEF Core
----------------------------------------------------------------------------
(* The steps                                                                 *)

\* The types of a request that begins or ends.
LEMMA BeginsType ==
  ASSUME DoctorTypeOK, NEW d \in Doctors, NEW what \in {"diagnose", "replay", "apply", "dismiss"},
         NEW on \in Execs \cup Suggs, NEW STATE S, S \subseteq Suggs, Begins(d, what, on, S),
         \A s \in S : sugg[s] # Nil, doubled' \subseteq Execs
  PROVE  DoctorTypeOK'
<1> DEFINE place == [at |-> what, on |-> on, read |-> Reads(S)]
<1>1. Reads(S) \in [Suggs -> Statuses \cup {Nil}]
  BY DEF DoctorTypeOK, Reads, Suggestion
<1>2. place \in [at : {"idle", "diagnose", "replay", "apply", "dismiss"},
                 on : Execs \cup Suggs \cup {Nil}, read : [Suggs -> Statuses \cup {Nil}]]
  BY <1>1
<1>3. /\ doctor' = [doctor EXCEPT ![d] = place] /\ UNCHANGED <<World, sugg>>
      /\ overlap' \subseteq Suggs
  BY DEF Begins, Goes, DoctorTypeOK
<1> HIDE DEF place
<1> QED BY <1>2, <1>3 DEF DoctorTypeOK, World

\* Every step keeps the invariant and what is settled.
LEMMA DoctorInvStep == DoctorInv /\ [DoctorNext]_doctorVars => DoctorInv' /\ SettledStays
<1> SUFFICES ASSUME DoctorInv, [DoctorNext]_doctorVars PROVE DoctorInv' /\ SettledStays
  OBVIOUS
<1> USE DoctorAssumption DEF DoctorAssumption
<1>0. DoctorTypeOK /\ Core /\ ReadsFit /\ ReadsHold
  BY DEF DoctorInv, Core
<1>1. CASE UNCHANGED doctorVars
  BY <1>0, <1>1, WorldMoves DEF doctorVars, DoctorInv, DoctorTypeOK
<1>2. ASSUME NEW e \in Execs, NEW error \in Errors, NEW logged \in Agents \cup {Nil},
             Fail(e, error, logged)
      PROVE  DoctorInv' /\ SettledStays
  <2>1. exec' \in [Execs -> Execution \cup {Nil}]
    BY <1>0, <1>2 DEF Fail, DoctorTypeOK, Execution
  <2>2. DoctorTypeOK'
    BY <1>0, <1>2, <2>1 DEF Fail, DoctorTypeOK
  <2> QED BY <1>0, <1>2, <2>2, WorldMoves DEF Fail, DoctorInv
<1>3. ASSUME NEW a \in Agents, NEW m \in Models \cup {Nil}, EditAgent(a, m)
      PROVE  DoctorInv' /\ SettledStays
  <2>1. DoctorTypeOK'
    BY <1>0, <1>3 DEF EditAgent, DoctorTypeOK
  <2> QED BY <1>0, <1>3, <2>1, WorldMoves DEF EditAgent, DoctorInv
<1>4. CASE DeleteWorkflow
  <2>1. DoctorTypeOK'
    BY <1>0, <1>4 DEF DeleteWorkflow, DoctorTypeOK
  <2> QED BY <1>0, <1>4, <2>1, WorldMoves DEF DeleteWorkflow, DoctorInv
<1>5. ASSUME NEW d \in Doctors, NEW e \in Execs, NEW force \in BOOLEAN, Diagnose(d, e, force)
      PROVE  DoctorInv' /\ SettledStays
  <2> DEFINE S == IF force THEN ReadsPatchable(e) ELSE {}
  <2>1. Begins(d, "diagnose", e, S)
    BY <1>5 DEF Diagnose
  <2>2. /\ S \subseteq Suggs
        /\ \A s \in S : sugg[s] # Nil /\ sugg[s].status \in Patchable /\ sugg[s].exec = e
    BY DEF ReadsPatchable
  <2>3. \A s \in Suggs : IsOpen(s) /\ sugg[s].exec = e => s \in S
    BY <1>5, StatusType DEF Diagnose, ReadsPatchable, IsOpen
  <2>4. /\ doubled' = IF \E c \in Doctors : Diagnosing(c, e) THEN doubled \cup {e} ELSE doubled
        /\ doubled' \subseteq Execs
    BY <1>0, <1>5 DEF Diagnose, Diagnosing, DoctorTypeOK
  <2> HIDE DEF S
  <2>5. DoctorTypeOK'
    BY <1>0, <2>1, <2>2, <2>4, BeginsType
  <2>6. Readable("diagnose") = Patchable
    BY DEF Readable
  <2>7. Core' /\ SettledStays
    BY <2>1, <2>2, <2>3, <2>4, <2>6, BeginsReading
  <2> QED BY <2>5, <2>7 DEF DoctorInv
<1>6. ASSUME NEW d \in Doctors, NEW s \in Suggs, NEW what \in {"replay", "apply"},
             BeginsOn(d, s, what)
      PROVE  DoctorInv' /\ SettledStays
  <2>1. /\ Begins(d, what, s, {s}) /\ doubled' = doubled
        /\ sugg[s] # Nil /\ sugg[s].status \notin {"applied", "dismissed"}
    BY <1>6 DEF BeginsOn
  <2>2. sugg[s].status \in Readable(what)
    BY <1>0, <2>1 DEF DoctorTypeOK, Suggestion, Statuses, Patchable, Readable
  <2>3. DoctorTypeOK'
    <3>1. doubled' \subseteq Execs
      BY <1>0, <2>1 DEF DoctorTypeOK
    <3> QED BY <1>0, <2>1, <3>1, BeginsType
  <2>4. Core' /\ SettledStays
    BY <2>1, <2>2, BeginsReading
  <2> QED BY <2>3, <2>4 DEF DoctorInv
<1>7. ASSUME NEW d \in Doctors, NEW s \in Suggs, Dismiss(d, s)
      PROVE  DoctorInv' /\ SettledStays
  <2>1. /\ Begins(d, "dismiss", s, {s}) /\ doubled' = doubled
        /\ sugg[s] # Nil /\ sugg[s].status # "applied"
    BY <1>7 DEF Dismiss
  <2>2. sugg[s].status \in Readable("dismiss")
    BY <1>0, <2>1 DEF DoctorTypeOK, Suggestion, Readable
  <2>3. DoctorTypeOK'
    <3>1. doubled' \subseteq Execs
      BY <1>0, <2>1 DEF DoctorTypeOK
    <3> QED BY <1>0, <2>1, <3>1, BeginsType
  <2>4. Core' /\ SettledStays
    BY <2>1, <2>2, BeginsReading
  <2> QED BY <2>3, <2>4 DEF DoctorInv
<1>8. ASSUME NEW d \in Doctors, NEW retry \in BOOLEAN, CommitApply(d, retry)
      PROVE  DoctorInv' /\ SettledStays
  <2>1. /\ Returns(d) /\ UNCHANGED <<live, exec>> /\ doctor[d].at = "apply"
        /\ doctor[d].on \in Suggs
    BY <1>0, <1>8 DEF CommitApply, ReadsFit
  <2>2. CASE UNCHANGED <<model, retries, sugg>>
    <3>1. DoctorTypeOK'
      BY <1>0, <2>1, <2>2, ReturnFacts DEF DoctorTypeOK
    <3> QED BY <2>1, <2>2, <3>1, LeavesNothing DEF DoctorInv
  <2>3. CASE /\ sugg' = Written(d, "applied")
             /\ model' \in [Agents -> Models \cup {Nil}]
             /\ \/ UNCHANGED retries
                \/ /\ \A i \in Suggs : retries[i] < MaxRetries
                   /\ retries' = [retries EXCEPT ![doctor[d].on] = @ + 1]
    <3>1. retries' \in [Suggs -> 0..MaxRetries]
      BY <1>0, <2>1, <2>3 DEF DoctorTypeOK
    <3>2. sugg' \in [Suggs -> Suggestion \cup {Nil}]
      BY <2>3, WrittenRows, StatusType
    <3>3. DoctorTypeOK'
      BY <1>0, <2>1, <2>3, <3>1, <3>2, ReturnFacts DEF DoctorTypeOK
    <3>4. \A s \in Suggs : Reading(d, s) => doctor[d].read[s] \in Patchable
      BY <1>0, <2>1 DEF ReadsFit, Readable
    <3>5. Core' /\ SettledStays
      BY <2>1, <2>3, <3>4, WritesStatus, StatusType
    <3> QED BY <3>3, <3>5 DEF DoctorInv
  <2>4. \A t : [model EXCEPT ![t] = SafeModel] \in [Agents -> Models \cup {Nil}]
    BY <1>0 DEF DoctorTypeOK
  <2> QED BY <1>0, <1>8, <2>2, <2>3, <2>4 DEF CommitApply, DoctorTypeOK
<1>9. ASSUME NEW d \in Doctors, CommitDiagnosis(d) PROVE DoctorInv' /\ SettledStays
  <2>1. /\ Returns(d) /\ UNCHANGED World /\ doctor[d].at = "diagnose"
        /\ doctor[d].on \in Execs
    BY <1>0, <1>9 DEF CommitDiagnosis, ReadsFit
  <2>2. CASE UNCHANGED sugg
    <3>1. DoctorTypeOK'
      BY <1>0, <2>1, <2>2, ReturnFacts DEF DoctorTypeOK, World
    <3> QED BY <2>1, <2>2, <3>1, LeavesNothing DEF DoctorInv, World
  <2>3. CASE \E s \in Suggs, target \in Agents \cup {Nil} :
                /\ NewSugg(s)
                /\ sugg' = [Written(d, "dismissed") EXCEPT ![s] =
                               [exec |-> doctor[d].on, target |-> target, status |-> "proposed"]]
    <3>1. PICK s \in Suggs, target \in Agents \cup {Nil} :
             /\ NewSugg(s)
             /\ sugg' = [Written(d, "dismissed") EXCEPT ![s] =
                            [exec |-> doctor[d].on, target |-> target, status |-> "proposed"]]
      BY <2>3
    <3>2. PICK new \in Suggestion :
             /\ new.exec = doctor[d].on /\ new.status = "proposed"
             /\ sugg' = [Written(d, "dismissed") EXCEPT ![s] = new]
      BY <2>1, <3>1, StatusType DEF Suggestion
    <3>3. sugg' \in [Suggs -> Suggestion \cup {Nil}]
      BY <3>2, WrittenRows, StatusType
    <3>4. DoctorTypeOK'
      BY <1>0, <2>1, <3>3, ReturnFacts DEF DoctorTypeOK, World
    <3>5. Core' /\ SettledStays
      BY <2>1, <3>1, <3>2, Proposes DEF World
    <3> QED BY <3>4, <3>5 DEF DoctorInv
  <2> QED BY <1>9, <2>2, <2>3 DEF CommitDiagnosis
<1>10. ASSUME NEW d \in Doctors, NEW to \in Statuses,
              Returns(d), UNCHANGED World, sugg' = Written(d, to),
              \A s \in Suggs : Reading(d, s) => doctor[d].read[s] \in Patchable \cup {to}
       PROVE  DoctorInv' /\ SettledStays
  <2>1. sugg' \in [Suggs -> Suggestion \cup {Nil}]
    BY <1>10, WrittenRows
  <2>2. DoctorTypeOK'
    BY <1>0, <1>10, <2>1, ReturnFacts DEF DoctorTypeOK, World
  <2>3. Core' /\ SettledStays
    BY <1>10, WritesStatus DEF World
  <2> QED BY <2>2, <2>3 DEF DoctorInv
<1>11. ASSUME NEW d \in Doctors, CommitReplay(d) PROVE DoctorInv' /\ SettledStays
  <2>1. \A s \in Suggs : Reading(d, s) => doctor[d].read[s] \in Patchable
    BY <1>0, <1>11 DEF CommitReplay, ReadsFit, Readable
  <2>2. PICK to \in {"replay_passed", "replay_failed"} : sugg' = Written(d, to)
    BY <1>11 DEF CommitReplay
  <2> QED BY <1>10, <1>11, <2>1, <2>2, StatusType DEF CommitReplay
<1>12. ASSUME NEW d \in Doctors, CommitDismiss(d) PROVE DoctorInv' /\ SettledStays
  <2>1. \A s \in Suggs : Reading(d, s) => doctor[d].read[s] \in Patchable \cup {"dismissed"}
    BY <1>0, <1>12 DEF CommitDismiss, ReadsFit, Readable, Statuses, Patchable
  <2> QED BY <1>10, <1>12, <2>1, StatusType DEF CommitDismiss
<1>13. ASSUME NEW d \in Doctors, GiveUp(d) PROVE DoctorInv' /\ SettledStays
  <2>1. Returns(d) /\ UNCHANGED <<World, sugg>>
    BY <1>13 DEF GiveUp
  <2>2. DoctorTypeOK'
    BY <1>0, <2>1, ReturnFacts DEF DoctorTypeOK, World
  <2> QED BY <2>1, <2>2, LeavesNothing DEF DoctorInv, World
<1> QED
  BY <1>1, <1>2, <1>3, <1>4, <1>5, <1>6, <1>7, <1>8, <1>9, <1>11, <1>12, <1>13 DEF DoctorNext

----------------------------------------------------------------------------
(* The doctor: theorems                                                      *)

\* The tables and the requests keep their types.
THEOREM DoctorTypeCorrect == DoctorSpec => []DoctorTypeOK
<1>1. DoctorInv => DoctorTypeOK
  BY DEF DoctorInv
<1> QED BY DoctorInvInit, DoctorInvStep, <1>1, PTL DEF DoctorSpec

\* apply_suggestion creates one retry of a suggestion, unless requests overlap on
\* it, for any number of requests, executions and suggestions.
THEOREM RetriedAtMostOnce == DoctorSpec => []RetriedOnce
<1>1. DoctorInv => RetriedOnce
  BY DEF DoctorInv, DoctorTypeOK, Core, RetriesFit, RetriedOnce
<1> QED BY DoctorInvInit, DoctorInvStep, <1>1, PTL DEF DoctorSpec

\* A set without two members has at most one.
LEMMA AtMostOne ==
  ASSUME NEW S, \A x, y \in S : x = y
  PROVE  Cardinality(S) <= 1
<1>1. CASE S = {}
  BY <1>1, FS_EmptySet
<1>2. CASE S # {}
  <2>1. PICK x : S = {x}
    BY <1>2
  <2> QED BY <2>1, FS_Singleton
<1> QED BY <1>1, <1>2

\* However often diagnose_execution is forced, an execution has one suggestion
\* that can still be applied, unless requests overlap.
THEOREM OneSuggestionIsOpen == DoctorSpec => []OneOpenSuggestion
<1>1. DoctorInv => OneOpenSuggestion
  <2> SUFFICES ASSUME DoctorInv, NEW e \in Execs \ doubled
               PROVE  Cardinality({s \in Suggs \ overlap : sugg[s] # Nil /\ sugg[s].exec = e
                                          /\ sugg[s].status \in Patchable}) <= 1
    BY DEF OneOpenSuggestion
  <2>1. \A s, t \in Suggs \ overlap :
           IsOpen(s) /\ sugg[s].exec = e /\ IsOpen(t) /\ sugg[t].exec = e => s = t
    BY DEF DoctorInv, Core, OpenIsUnique
  <2> QED BY <2>1, AtMostOne DEF IsOpen
<1> QED BY DoctorInvInit, DoctorInvStep, <1>1, PTL DEF DoctorSpec

\* No replay, application or diagnosis changes a suggestion that is applied or
\* dismissed, unless requests overlap on it.
THEOREM SettledStaysFinal == DoctorSpec => SettledIsFinal
<1>1. DoctorInv /\ [DoctorNext]_doctorVars => [SettledStays]_doctorVars
  BY DoctorInvStep
<1>2. DoctorInv /\ [DoctorNext]_doctorVars => DoctorInv'
  BY DoctorInvStep
<1> QED BY DoctorInvInit, <1>1, <1>2, PTL DEF DoctorSpec, SettledIsFinal, SettledStays

----------------------------------------------------------------------------
(* The builder page *)

SaveRecords == [drawing : Drawings, at : {"sent", "stored", "refused"}, ours : BOOLEAN,
          thenRun : BOOLEAN, clean : BOOLEAN]

\* What is stored and drawn are drawings, and a save under way is one of a drawing.
BuilderTypeOK ==
    /\ stored \in Drawings /\ canvas \in Drawings
    /\ page \in {"away", "loading", "open", "execute"}
    /\ {unsaved, armed, isSaving, isSavingRef, overtaken} \subseteq BOOLEAN
    /\ save \in [Slots -> SaveRecords \cup {NoSave}]

\* A save accounts for what is shown, and, once stored, for what is stored.
Accounts(s) ==
    /\ save[s].drawing = canvas
    /\ save[s].at = "stored" => stored = canvas

\* Only an open page has saves.  One that nothing came in between of is alone and
\* accounts for the page; of any other the page knows that it was overtaken.
SavesFit ==
    /\ page # "open" => Ours = {}
    /\ \A s \in Ours : save[s].clean \/ overtaken
    /\ \A s, t \in Ours : save[s].clean => t = s
    /\ \A s \in Ours : save[s].clean => Accounts(s)

BuilderInv == BuilderTypeOK /\ SavesFit /\ NothingIsLostSilently

LEMMA BuilderInvInit == BuilderInit => BuilderInv
  BY DEF BuilderInit, BuilderInv, BuilderTypeOK, SavesFit, Ours, Begun,
     NothingIsLostSilently

\* What becomes of the saves when something comes in between, and when the page is
\* left.
LEMMA OvertakenSaves ==
  ASSUME NEW STATE saves, saves \in [Slots -> SaveRecords \cup {NoSave}], Overtakes(saves)
  PROVE  /\ save' \in [Slots -> SaveRecords \cup {NoSave}] /\ overtaken' = TRUE
         /\ \A s \in Slots : save'[s] # NoSave => saves[s] # NoSave /\ ~save'[s].clean
                               /\ save'[s].ours = saves[s].ours
  BY DEF Overtakes, SaveRecords

LEMMA OvertakenFit ==
  ASSUME NEW STATE saves, saves \in [Slots -> SaveRecords \cup {NoSave}], Overtakes(saves),
         page' = "open" \/ \A s \in Slots : saves[s] # NoSave => ~saves[s].ours
  PROVE  SavesFit' /\ NothingIsLostSilently'
<1>1. \A s \in Ours' : s \in Slots /\ ~save'[s].clean /\ saves[s] # NoSave /\ saves[s].ours
  BY OvertakenSaves DEF Ours, Begun
<1>2. overtaken'
  BY OvertakenSaves
<1> QED BY <1>1, <1>2 DEF SavesFit, NothingIsLostSilently

LEMMA QuitSaves ==
  ASSUME NEW CONSTANT to, NEW STATE saves, saves \in [Slots -> SaveRecords \cup {NoSave}],
         Quits(to, saves)
  PROVE  /\ save' \in [Slots -> SaveRecords \cup {NoSave}] /\ Ours' = {}
         /\ page' = to /\ {unsaved', armed', isSaving', isSavingRef'} \subseteq BOOLEAN
  BY DEF Quits, SaveRecords, Ours, Begun

\* No step but the ones the page reports as unsaved, or as overtaken, separates
\* what is shown from what is stored.
LEMMA BuilderInvStep == BuilderInv /\ [BuilderNext]_builderVars => BuilderInv'
<1> SUFFICES ASSUME BuilderInv, [BuilderNext]_builderVars PROVE BuilderInv'
  OBVIOUS
<1>0. BuilderTypeOK /\ SavesFit /\ NothingIsLostSilently
  BY DEF BuilderInv
<1> USE DEF BuilderInv
<1>1. CASE UNCHANGED builderVars
  BY <1>0, <1>1 DEF builderVars, BuilderTypeOK, SavesFit, Ours, Begun, Accounts,
     NothingIsLostSilently
<1>2. CASE OpensBuilder
  BY <1>0, <1>2 DEF OpensBuilder, BuilderTypeOK, SavesFit, Ours, Begun, Accounts,
     NothingIsLostSilently
<1>3. CASE ShowsLoaded
  BY <1>0, <1>3 DEF ShowsLoaded, BuilderTypeOK, SavesFit, Ours, Begun, Accounts,
     NothingIsLostSilently
<1>4. CASE LeavesBuilder
  <2>1. Quits("away", save) /\ UNCHANGED <<stored, canvas, overtaken>>
    BY <1>4 DEF LeavesBuilder
  <2> QED BY <1>0, <2>1, QuitSaves DEF BuilderTypeOK, SavesFit, NothingIsLostSilently
<1>5. ASSUME NEW g \in Drawings, Draws(g)
      PROVE  BuilderInv'
  <2>1. CASE Ours = {}
    <3>1. UNCHANGED <<stored, page, isSaving, isSavingRef, save, overtaken>>
          /\ canvas' = g /\ unsaved' /\ armed' /\ page = "open"
      BY <1>5, <2>1 DEF Draws
    <3> QED BY <1>0, <2>1, <3>1 DEF BuilderTypeOK, SavesFit, Ours, Begun,
               NothingIsLostSilently
  <2>2. CASE Ours # {}
    <3>1. Overtakes(save) /\ page' = "open"
      BY <1>5, <2>2 DEF Draws
    <3>2. save \in [Slots -> SaveRecords \cup {NoSave}]
      BY <1>0 DEF BuilderTypeOK
    <3>3. SavesFit' /\ NothingIsLostSilently' /\ save' \in [Slots -> SaveRecords \cup {NoSave}]
          /\ overtaken' = TRUE
      BY <3>1, <3>2, OvertakenFit, OvertakenSaves
    <3> QED BY <1>0, <1>5, <3>3 DEF Draws, BuilderTypeOK
  <2> QED BY <2>1, <2>2
<1>6. ASSUME NEW g \in Drawings, SomebodyStores(g)
      PROVE  BuilderInv'
  <2>1. save \in [Slots -> SaveRecords \cup {NoSave}]
    BY <1>0 DEF BuilderTypeOK
  <2>2. page' = "open" \/ \A s \in Slots : save[s] # NoSave => ~save[s].ours
    BY <1>0, <1>6 DEF SomebodyStores, SavesFit, Ours, Begun
  <2>3. SavesFit' /\ NothingIsLostSilently' /\ save' \in [Slots -> SaveRecords \cup {NoSave}]
        /\ overtaken' = TRUE
    BY <1>6, <2>1, <2>2, OvertakenFit, OvertakenSaves DEF SomebodyStores
  <2> QED BY <1>0, <1>6, <2>3 DEF SomebodyStores, BuilderTypeOK
<1>7. ASSUME NEW thenRun \in BOOLEAN, BeginsSave(thenRun), armed' \in BOOLEAN
      PROVE  BuilderInv'
  <2>1. PICK s \in Slots \ Begun :
          LET saves == [save EXCEPT ![s] = [drawing |-> canvas, at |-> "sent", ours |-> TRUE,
                                            thenRun |-> thenRun, clean |-> TRUE]]
          IN  IF Ours = {} THEN save' = saves /\ UNCHANGED overtaken ELSE Overtakes(saves)
    BY <1>7 DEF BeginsSave
  <2> DEFINE new == [drawing |-> canvas, at |-> "sent", ours |-> TRUE,
                     thenRun |-> thenRun, clean |-> TRUE]
             saves == [save EXCEPT ![s] = new]
  <2>2. /\ page = "open" /\ page' = "open" /\ isSaving' = TRUE
        /\ UNCHANGED <<stored, canvas, unsaved, isSavingRef>>
    BY <1>7 DEF BeginsSave
  <2>3. new \in SaveRecords
    BY <1>0 DEF BuilderTypeOK, SaveRecords
  <2>4. /\ saves \in [Slots -> SaveRecords \cup {NoSave}]
        /\ saves[s] = new /\ \A t \in Slots \ {s} : saves[t] = save[t]
    BY <1>0, <2>3 DEF BuilderTypeOK
  <2>5. CASE Ours # {}
    <3>1. Overtakes(saves)
      BY <2>1, <2>5
    <3> HIDE DEF saves
    <3>2. SavesFit' /\ NothingIsLostSilently' /\ save' \in [Slots -> SaveRecords \cup {NoSave}]
          /\ overtaken' = TRUE
      BY <2>2, <2>4, <3>1, OvertakenFit, OvertakenSaves
    <3> QED BY <1>0, <1>7, <2>2, <3>2 DEF BuilderTypeOK
  <2>6. CASE Ours = {}
    <3>1. save' = saves /\ overtaken' = overtaken
      BY <2>1, <2>6
    <3>2. Ours' \subseteq {s}
      BY <2>4, <2>6, <3>1 DEF Ours, Begun
    <3>3. new.drawing = canvas /\ new.at = "sent" /\ new.clean
      OBVIOUS
    <3>4. SavesFit'
      BY <2>2, <2>4, <3>1, <3>2, <3>3 DEF SavesFit, Accounts
    <3>5. NothingIsLostSilently'
      BY <1>0, <2>2, <3>1 DEF NothingIsLostSilently
    <3> QED BY <1>0, <1>7, <2>2, <2>4, <3>1, <3>4, <3>5 DEF BuilderTypeOK
  <2> QED BY <2>5, <2>6
<1>8. CASE SavesByHand
  BY <1>0, <1>7, <1>8 DEF SavesByHand, BuilderTypeOK
<1>9. CASE TimerFires
  <2>1. CASE BeginsSave(FALSE) /\ armed' = FALSE
    BY <1>7, <2>1
  <2>2. CASE /\ armed' = FALSE
             /\ UNCHANGED <<stored, page, canvas, unsaved, isSaving, isSavingRef, save,
                            overtaken>>
    BY <1>0, <2>2 DEF BuilderTypeOK, SavesFit, Ours, Begun, Accounts, NothingIsLostSilently
  <2> QED BY <1>9, <2>1, <2>2 DEF TimerFires
<1>10. CASE Runs
  <2>1. CASE BeginsSave(TRUE) /\ UNCHANGED armed
    BY <1>0, <1>7, <2>1 DEF BuilderTypeOK
  <2>2. CASE /\ page = "open" /\ (~unsaved \/ isSavingRef)
             /\ Quits("execute", save)
             /\ overtaken' = (overtaken \/ isSavingRef)
             /\ UNCHANGED <<stored, canvas>>
    BY <1>0, <2>2, QuitSaves DEF BuilderTypeOK, SavesFit, NothingIsLostSilently
  <2> QED BY <1>10, <2>1, <2>2 DEF Runs
<1>11. CASE FollowsSaving
  BY <1>0, <1>11 DEF FollowsSaving, BuilderTypeOK, SavesFit, Ours, Begun, Accounts,
     NothingIsLostSilently
<1>12. ASSUME NEW s \in Slots, Stores(s)
       PROVE  BuilderInv'
  <2> DEFINE saves == [save EXCEPT ![s].at = "stored"]
  <2>1. /\ s \in Begun /\ save[s] # NoSave /\ save[s] \in SaveRecords
        /\ stored' = save[s].drawing
        /\ IF save[s].ours THEN save' = saves /\ UNCHANGED overtaken ELSE Overtakes(saves)
        /\ UNCHANGED <<page, canvas, unsaved, armed, isSaving, isSavingRef>>
    BY <1>0, <1>12 DEF Stores, Begun, BuilderTypeOK
  <2>2. /\ saves[s] = [save[s] EXCEPT !.at = "stored"] /\ saves[s] \in SaveRecords
        /\ \A t \in Slots \ {s} : saves[t] = save[t]
        /\ saves \in [Slots -> SaveRecords \cup {NoSave}] /\ stored' \in Drawings
    BY <1>0, <2>1 DEF BuilderTypeOK, SaveRecords
  <2>3. /\ saves[s].ours = save[s].ours /\ saves[s].clean = save[s].clean
        /\ saves[s].drawing = save[s].drawing
    BY <2>1, <2>2 DEF SaveRecords
  <2> HIDE DEF saves
  <2>4. CASE ~save[s].ours
    <3>1. Overtakes(saves)
      BY <2>1, <2>4
    <3>2. page' = "open" \/ \A t \in Slots : saves[t] # NoSave => ~saves[t].ours
      BY <1>0, <2>1, <2>2, <2>3, <2>4 DEF SavesFit, Ours, Begun
    <3>3. SavesFit' /\ NothingIsLostSilently' /\ save' \in [Slots -> SaveRecords \cup {NoSave}]
          /\ overtaken' = TRUE
      BY <2>2, <3>1, <3>2, OvertakenFit, OvertakenSaves
    <3> QED BY <1>0, <2>1, <2>2, <3>3 DEF BuilderTypeOK
  <2>5. CASE save[s].ours
    <3>1. save' = saves /\ overtaken' = overtaken /\ s \in Ours
      BY <2>1, <2>5 DEF Ours
    <3>2. Ours' \subseteq Ours /\ \A t \in Ours' : save'[t].clean = save[t].clean
      BY <2>1, <2>2, <2>3, <3>1 DEF Ours, Begun
    <3>3. ASSUME NEW t \in Ours', save'[t].clean
          PROVE  t = s /\ Accounts(t)'
      <4>1. t = s /\ save[s].drawing = canvas
        BY <1>0, <3>1, <3>2, <3>3 DEF SavesFit, Accounts
      <4> QED BY <2>1, <2>3, <3>1, <4>1 DEF Accounts
    <3>4. page = "open"
      BY <1>0, <3>1 DEF SavesFit
    <3>5. SavesFit'
      BY <1>0, <2>1, <3>1, <3>2, <3>3, <3>4 DEF SavesFit
    <3>6. overtaken \/ stored' = canvas
      BY <1>0, <2>1, <3>1 DEF SavesFit, Accounts
    <3> QED BY <1>0, <2>1, <2>2, <3>1, <3>5, <3>6 DEF BuilderTypeOK, NothingIsLostSilently
  <2> QED BY <2>4, <2>5
<1>13. ASSUME NEW s \in Slots, RefusesSave(s)
       PROVE  BuilderInv'
  <2>1. /\ save[s] # NoSave /\ save[s] \in SaveRecords
        /\ save' = [save EXCEPT ![s] = [save[s] EXCEPT !.at = "refused"]]
        /\ UNCHANGED <<stored, page, canvas, unsaved, armed, isSaving, isSavingRef,
                       overtaken>>
    BY <1>0, <1>13 DEF RefusesSave, Begun, BuilderTypeOK
  <2>2. /\ save'[s] \in SaveRecords /\ save'[s].ours = save[s].ours
        /\ save'[s].clean = save[s].clean /\ save'[s].drawing = save[s].drawing
        /\ save'[s].at = "refused"
        /\ \A t \in Slots \ {s} : save'[t] = save[t]
        /\ save' \in [Slots -> SaveRecords \cup {NoSave}]
    BY <1>0, <2>1 DEF BuilderTypeOK, SaveRecords
  <2>3. /\ Ours' \subseteq Ours
        /\ \A t \in Ours' : save'[t].clean = save[t].clean /\ (Accounts(t) => Accounts(t)')
    BY <2>1, <2>2 DEF Ours, Begun, Accounts
  <2> QED BY <1>0, <2>1, <2>2, <2>3 DEF BuilderTypeOK, SavesFit, NothingIsLostSilently
<1>14. ASSUME NEW s \in Slots, save' = [save EXCEPT ![s] = NoSave],
              UNCHANGED <<stored, page, canvas, unsaved, armed, isSavingRef, overtaken>>,
              isSaving' \in BOOLEAN
       PROVE  BuilderInv'
  <2>1. /\ \A t \in Slots \ {s} : save'[t] = save[t]
        /\ save' \in [Slots -> SaveRecords \cup {NoSave}] /\ save'[s] = NoSave
    BY <1>0, <1>14 DEF BuilderTypeOK
  <2>2. /\ Ours' \subseteq Ours
        /\ \A t \in Ours' : save'[t] = save[t]
    BY <2>1 DEF Ours, Begun
  <2> QED BY <1>0, <1>14, <2>1, <2>2 DEF BuilderTypeOK, SavesFit, Accounts,
             NothingIsLostSilently
<1>15. ASSUME NEW s \in Slots, FailsSave(s) \/ ForgetsSave(s)
       PROVE  BuilderInv'
  BY <1>0, <1>14, <1>15 DEF FailsSave, ForgetsSave, BuilderTypeOK
<1>16. ASSUME NEW s \in Slots, Confirms(s)
       PROVE  BuilderInv'
  <2> DEFINE saves == [save EXCEPT ![s] = NoSave]
  <2>1. /\ s \in Ours /\ save[s].at = "stored" /\ save[s].clean \in BOOLEAN
        /\ overtaken' = (overtaken /\ ~save[s].clean)
        /\ UNCHANGED <<stored, canvas>>
        /\ \/ /\ unsaved' = FALSE /\ isSaving' = FALSE /\ save' = saves
              /\ UNCHANGED <<page, armed, isSavingRef>>
           \/ Quits("execute", saves)
    BY <1>0, <1>16 DEF Confirms, BuilderTypeOK, Ours, Begun, SaveRecords
  <2>2. saves \in [Slots -> SaveRecords \cup {NoSave}] /\ saves[s] = NoSave
        /\ \A t \in Slots \ {s} : saves[t] = save[t]
    BY <1>0 DEF BuilderTypeOK
  <2> HIDE DEF saves
  <2>3. overtaken' \/ stored' = canvas'
    BY <1>0, <2>1 DEF SavesFit, Accounts
  <2>4. overtaken' \in BOOLEAN
    BY <1>0, <2>1 DEF BuilderTypeOK
  <2>5. CASE Quits("execute", saves)
    BY <1>0, <2>1, <2>2, <2>3, <2>4, <2>5, QuitSaves
       DEF BuilderTypeOK, SavesFit, NothingIsLostSilently
  <2>6. CASE /\ unsaved' = FALSE /\ isSaving' = FALSE /\ save' = saves
             /\ UNCHANGED <<page, armed, isSavingRef>>
    <3>1. Ours' \subseteq Ours \ {s} /\ \A t \in Ours' : save'[t] = save[t]
      BY <2>2, <2>6 DEF Ours, Begun
    <3>2. \A t \in Ours' : ~save[t].clean /\ ~save[s].clean
      BY <1>0, <2>1, <3>1 DEF SavesFit
    <3>3. \A t \in Ours' : overtaken'
      BY <1>0, <2>1, <3>1, <3>2 DEF SavesFit
    <3>4. SavesFit'
      BY <1>0, <2>6, <3>1, <3>2, <3>3 DEF SavesFit
    <3> QED BY <1>0, <2>1, <2>2, <2>3, <2>4, <2>6, <3>4
            DEF BuilderTypeOK, NothingIsLostSilently
  <2> QED BY <2>1, <2>5, <2>6
<1> QED BY <1>1, <1>2, <1>3, <1>4, <1>5, <1>6, <1>8, <1>9, <1>10, <1>11, <1>12, <1>13,
           <1>15, <1>16 DEF BuilderNext

\* handleSave, handleRun, the autosave and the effects of the page, in whatever
\* order: what it shows as saved, or runs, is what is stored, unless it was
\* overtaken.
THEOREM NothingIsEverLostSilently == BuilderSpec => []NothingIsLostSilently
<1>1. BuilderInv => NothingIsLostSilently
  BY DEF BuilderInv
<1> QED BY BuilderInvInit, BuilderInvStep, <1>1, PTL DEF BuilderSpec
=============================================================================
