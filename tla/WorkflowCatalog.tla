-------------------------- MODULE WorkflowCatalog --------------------------
(***************************************************************************)
(* A tenant's workflows and their agent configurations under the limits of *)
(* its plan, and the deletion of a workflow against its executions:        *)
(* backend/app/services/workflow_service.py, agent_service.py and          *)
(* create_execution of execution_service.py.                               *)
(*                                                                         *)
(* A request is a transaction of several statements.  Those that count     *)
(* against a limit take the tenant's row lock first and hold it until they *)
(* commit; deleting takes no lock.  Names, prompts and definitions are     *)
(* left out, and so are the budget and the concurrency limit of a run      *)
(* (ExecutionService).                                                     *)
(***************************************************************************)
EXTENDS Naturals, FiniteSets

CONSTANTS
    Workflows,      \* identities of workflow rows
    Nodes,          \* node identities of a workflow's agents
    Editors,        \* concurrent requests of owners and editors
    MaxWorkflows,   \* tenant.max_workflows
    MaxAgents,      \* tenant.max_agents_per_workflow
    MaxRuns,        \* bound on the active executions of a workflow
    Nobody          \* "no workflow", "no node", "the row is not locked"

ASSUME CatalogAssumption ==
    /\ MaxWorkflows \in Nat /\ MaxAgents \in Nat /\ MaxRuns \in Nat
    /\ IsFiniteSet(Workflows) /\ IsFiniteSet(Nodes)
    /\ Nobody \notin Editors \cup Workflows \cup Nodes

VARIABLES
    stage,      \* of each workflow row: none yet, active, soft-deleted
    agents,     \* nodes with an agent_configs row, by workflow
    runs,       \* pending and running executions of each workflow ...
    strays,     \* ... and those whose creation overlapped its deletion
    tenant,     \* who holds the lock of the tenant's row
    editor      \* where each request stands

catalogVars == <<stage, agents, runs, strays, tenant, editor>>

AtRest == [at |-> "idle", wf |-> Nobody, node |-> Nobody]
Active == {w \in Workflows : stage[w] = "active"}

CatalogInit ==
    /\ stage = [w \in Workflows |-> "none"]
    /\ agents = [w \in Workflows |-> {}]
    /\ runs = [w \in Workflows |-> 0]
    /\ strays = [w \in Workflows |-> 0]
    /\ tenant = Nobody
    /\ editor = [e \in Editors |-> AtRest]

Turn(e, to) == editor' = [editor EXCEPT ![e] = to]
At(e, where) == editor[e].at = where

(* A request for a new workflow; a copy reads its original first, which    *)
(* must be active.                                                         *)
NewWorkflow(e) ==
    /\ At(e, "idle")
    /\ Turn(e, [AtRest EXCEPT !.at = "new"])
    /\ UNCHANGED <<stage, agents, runs, strays, tenant>>

CopyWorkflow(e, w) == w \in Active /\ NewWorkflow(e)

(* _get_workflow of the other requests: an active workflow of the tenant.  *)
Opens(e, w, n, what) ==
    /\ At(e, "idle") /\ w \in Active
    /\ Turn(e, [at |-> what, wf |-> w, node |-> n])
    /\ UNCHANGED <<stage, agents, runs, strays, tenant>>

(* The tenant's row is locked and the count taken under the lock; a        *)
(* refusal ends the transaction.                                           *)
Locks(e, there, room, next) ==
    /\ At(e, there) /\ tenant = Nobody
    /\ IF room THEN tenant' = e /\ Turn(e, [editor[e] EXCEPT !.at = next])
       ELSE UNCHANGED tenant /\ Turn(e, AtRest)
    /\ UNCHANGED <<stage, agents, runs, strays>>

\* Mutant: the tenant is read without a lock.
CountWorkflowsUnlocked(e) ==
    /\ At(e, "new")
    /\ Turn(e, IF Cardinality(Active) < MaxWorkflows
               THEN [AtRest EXCEPT !.at = "insert"] ELSE AtRest)
    /\ UNCHANGED <<stage, agents, runs, strays, tenant>>

(* Only active workflows count against max_workflows.                      *)
CountWorkflows(e) == Locks(e, "new", Cardinality(Active) < MaxWorkflows, "insert")

InsertWorkflow(e, w) ==
    /\ At(e, "insert") /\ stage[w] = "none"
    /\ stage' = [stage EXCEPT ![w] = "active"]
    /\ tenant' = Nobody
    /\ Turn(e, AtRest)
    /\ UNCHANGED <<agents, runs, strays>>

\* Mutant: the agents are counted before the row is locked.
CountAgentsUnlocked(e) ==
    /\ At(e, "agent")
    /\ LET w == editor[e].wf IN
       Turn(e, IF Cardinality(agents[w]) < MaxAgents /\ editor[e].node \notin agents[w]
               THEN [editor[e] EXCEPT !.at = "configure"] ELSE AtRest)
    /\ UNCHANGED <<stage, agents, runs, strays, tenant>>

(* The limit of the workflow's agents, and one agent per node.             *)
CountAgents(e) ==
    LET w == editor[e].wf IN
    Locks(e, "agent",
          Cardinality(agents[w]) < MaxAgents /\ editor[e].node \notin agents[w], "configure")

InsertAgent(e) ==
    /\ At(e, "configure")
    /\ agents' = [agents EXCEPT ![editor[e].wf] = @ \cup {editor[e].node}]
    /\ tenant' = Nobody
    /\ Turn(e, AtRest)
    /\ UNCHANGED <<stage, runs, strays>>

(* delete_agent takes no lock.                                             *)
DeleteAgent(e, w, n) ==
    /\ At(e, "idle") /\ w \in Active /\ n \in agents[w]
    /\ agents' = [agents EXCEPT ![w] = @ \ {n}]
    /\ UNCHANGED <<stage, runs, strays, tenant, editor>>

(* create_execution locks the row after it has read the workflow, and does *)
(* not read the workflow again.                                            *)
AdmitRun(e) == Locks(e, "run", TRUE, "start")

Deleting(w) == stage[w] = "deleted" \/ \E e \in Editors : At(e, "drop") /\ editor[e].wf = w

InsertRun(e) ==
    /\ At(e, "start")
    /\ LET w == editor[e].wf IN
       /\ runs[w] + strays[w] < MaxRuns
       /\ IF Deleting(w)
          THEN strays' = [strays EXCEPT ![w] = @ + 1] /\ UNCHANGED runs
          ELSE runs' = [runs EXCEPT ![w] = @ + 1] /\ UNCHANGED strays
    /\ tenant' = Nobody
    /\ Turn(e, AtRest)
    /\ UNCHANGED <<stage, agents>>

RunEnds(w) ==
    /\ \/ runs[w] > 0 /\ runs' = [runs EXCEPT ![w] = @ - 1] /\ UNCHANGED strays
       \/ strays[w] > 0 /\ strays' = [strays EXCEPT ![w] = @ - 1] /\ UNCHANGED runs
    /\ UNCHANGED <<stage, agents, tenant, editor>>

\* Mutant: one active execution is not enough to refuse the deletion.
CountRunsOffByOne(e) ==
    /\ At(e, "delete")
    /\ LET w == editor[e].wf IN
       Turn(e, IF runs[w] + strays[w] > 1 THEN AtRest ELSE [editor[e] EXCEPT !.at = "drop"])
    /\ UNCHANGED <<stage, agents, runs, strays, tenant>>

(* delete_workflow counts the active executions ...                        *)
CountRuns(e) ==
    /\ At(e, "delete")
    /\ LET w == editor[e].wf IN
       Turn(e, IF runs[w] + strays[w] > 0 THEN AtRest ELSE [editor[e] EXCEPT !.at = "drop"])
    /\ UNCHANGED <<stage, agents, runs, strays, tenant>>

(* ... and commits is_active = False.                                      *)
DropWorkflow(e) ==
    /\ At(e, "drop")
    /\ stage' = [stage EXCEPT ![editor[e].wf] = "deleted"]
    /\ Turn(e, AtRest)
    /\ UNCHANGED <<agents, runs, strays, tenant>>

(* The request fails and its transaction is rolled back.                   *)
Fails(e) ==
    /\ ~At(e, "idle")
    /\ tenant' = IF tenant = e THEN Nobody ELSE tenant
    /\ Turn(e, AtRest)
    /\ UNCHANGED <<stage, agents, runs, strays>>

CatalogNext ==
    \/ \E w \in Workflows : RunEnds(w)
    \/ \E e \in Editors :
          \/ NewWorkflow(e) \/ CountWorkflows(e)
          \/ CountAgents(e) \/ InsertAgent(e)
          \/ AdmitRun(e) \/ InsertRun(e)
          \/ CountRuns(e) \/ DropWorkflow(e) \/ Fails(e)
          \/ \E w \in Workflows :
                \/ CopyWorkflow(e, w) \/ InsertWorkflow(e, w)
                \/ \E what \in {"run", "delete"} : Opens(e, w, Nobody, what)
                \/ \E n \in Nodes : Opens(e, w, n, "agent") \/ DeleteAgent(e, w, n)

CatalogSpec == CatalogInit /\ [][CatalogNext]_catalogVars

----------------------------------------------------------------------------
CatalogTypeOK ==
    /\ stage \in [Workflows -> {"none", "active", "deleted"}]
    /\ agents \in [Workflows -> SUBSET Nodes]
    /\ runs \in [Workflows -> 0..MaxRuns] /\ strays \in [Workflows -> 0..MaxRuns]
    /\ tenant \in Editors \cup {Nobody}
    /\ editor \in [Editors ->
          [at : {"idle", "new", "insert", "agent", "configure", "run", "start", "delete", "drop"},
           wf : Workflows \cup {Nobody}, node : Nodes \cup {Nobody}]]

(* However many requests create and copy at once, the tenant's active      *)
(* workflows and the agents of each of them stay within its plan.          *)
PlanLimitsHold ==
    /\ Cardinality(Active) <= MaxWorkflows
    /\ \A w \in Workflows : Cardinality(agents[w]) <= MaxAgents

(* A deleted workflow has no pending or running execution but those whose  *)
(* creation overlapped the deletion: the count of delete_workflow and its  *)
(* commit are two steps, and a run does not read its workflow again.       *)
DeletedIsIdle == \A w \in Workflows : stage[w] = "deleted" => runs[w] = 0
=============================================================================
