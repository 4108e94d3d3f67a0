---------------------------- MODULE ExecutionRun ----------------------------
(***************************************************************************)
(* The executor: backend/app/engine/executor.py, run_execution.            *)
(*                                                                         *)
(* A worker (a FastAPI background task, or a webhook dispatcher) runs one  *)
(* execution of one tenant at a time.  An action is the code between two   *)
(* points where other coroutines or other database sessions can interfere: *)
(* a read whose result is used after an await, or a committed transaction. *)
(* This module has the worker's steps; ExecutionService and                *)
(* WebhookDispatcher say who starts a run and what else touches the rows.  *)
(*                                                                         *)
(* Abstracted: messages, outputs, cost (a float derived from the tokens),  *)
(* log texts and WebSocket events.  Kept: every write of the execution's   *)
(* status, the token accounting, the in-memory cancel flags, the order of  *)
(* the checks, and all early returns.                                      *)
(***************************************************************************)
EXTENDS Integers

CONSTANTS
    Execs,          \* execution ids
    Workers,        \* whoever may be inside run_execution
    Procs,          \* server processes (each has its own _active_executions)
    ProcOf,         \* the process a worker lives in
    NoExec,         \* "no execution"
    Budget,         \* tenant.monthly_token_budget
    MaxTokens,      \* agent_config.max_tokens, used by the pre-call check
    TokenCounts,    \* what one agent call may turn out to consume
    MaxNodes,       \* bound on the nodes of a linear workflow
    MaxIterations   \* MAX_ITERATIONS (10 in the code)

ASSUME RunAssumption ==
    /\ ProcOf \in [Workers -> Procs]
    /\ NoExec \notin Execs
    /\ Budget \in Nat
    /\ MaxTokens \in Nat
    /\ TokenCounts \subseteq Nat
    /\ MaxNodes \in Nat \ {0}
    /\ MaxIterations \in Nat \ {0}

VARIABLES
    \* the database
    status,     \* executions.status, "absent" while there is no row
    total,      \* executions.total_tokens
    retryLog,   \* executions with an execution_logs row marked retryable
    used,       \* tenants.tokens_used_this_month
    \* the memory of each process
    active,     \* keys of _active_executions
    flagged,    \* those whose entry has cancelled = True
    \* the run each worker is in
    pc,         \* where it stands in run_execution
    cur,        \* the execution it runs
    seen,       \* tokens_used_this_month as its session's identity map has it
    todo,       \* length of the node queue
    iter,       \* nodes popped so far
    cyclic      \* workflow.execution_pattern = "cyclic"

dbVars  == <<status, total, retryLog, used>>
memVars == <<active, flagged>>
runVars == <<pc, cur, seen, todo, iter, cyclic>>
execVars == <<dbVars, memVars, runVars>>

Pending  == {"pending"}
Active   == {"pending", "running"}
Terminal == {"completed", "failed", "cancelled"}
Statuses == {"absent"} \cup Active \cup Terminal

\* A run is past its claim (the pending -> running update) in these states.
InBody == {"loop", "connector", "checking", "calling"}
PcStates == {"idle", "queued", "start", "claim", "overrun", "failing",
             "cancelling", "ending"} \cup InBody

RunTypeOK ==
    /\ status \in [Execs -> Statuses]
    /\ total \in [Execs -> Nat]
    /\ retryLog \subseteq Execs
    /\ used \in Nat
    /\ active \in [Procs -> SUBSET Execs]
    /\ flagged \in [Procs -> SUBSET Execs]
    /\ pc \in [Workers -> PcStates]
    /\ cur \in [Workers -> Execs \cup {NoExec}]
    /\ \A w \in Workers : pc[w] # "idle" => cur[w] \in Execs
    /\ seen \in [Workers -> Nat]
    /\ todo \in [Workers -> 0..MaxNodes]
    /\ iter \in [Workers -> Nat]
    /\ cyclic \in [Workers -> BOOLEAN]

RunInit ==
    /\ status = [e \in Execs |-> "absent"]
    /\ total = [e \in Execs |-> 0]
    /\ retryLog = {}
    /\ used = 0
    /\ active = [p \in Procs |-> {}]
    /\ flagged = [p \in Procs |-> {}]
    /\ pc = [w \in Workers |-> "idle"]
    /\ cur = [w \in Workers |-> NoExec]
    /\ seen = [w \in Workers |-> 0]
    /\ todo = [w \in Workers |-> 0]
    /\ iter = [w \in Workers |-> 0]
    /\ cyclic = [w \in Workers |-> FALSE]

-----------------------------------------------------------------------------
(* Helpers *)

Goto(w, l) == pc' = [pc EXCEPT ![w] = l]

SetStatus(e, s) == status' = [status EXCEPT ![e] = s]

\* _is_cancelled: the flag of this process's own registry.
IsCancelled(w) == cur[w] \in flagged[ProcOf[w]]

\* After a step of a cyclic workflow _resolve_next_node finds a successor to
\* append to the queue, or there is none; a linear queue is fixed beforehand.
EnqueueNext(w) ==
    \/ /\ ~cyclic[w]
       /\ UNCHANGED todo
    \/ /\ cyclic[w]
       /\ \E n \in {0, 1} : todo' = [todo EXCEPT ![w] = n]

-----------------------------------------------------------------------------
(* The steps of a run *)

\* run_execution is entered: a fresh registry entry, cancelled = False.
RunStart(w, e) ==
    LET p == ProcOf[w] IN
    /\ active' = [active EXCEPT ![p] = @ \cup {e}]
    /\ flagged' = [flagged EXCEPT ![p] = @ \ {e}]
    /\ Goto(w, "start")
    /\ cur' = [cur EXCEPT ![w] = e]
    /\ seen' = [seen EXCEPT ![w] = 0]
    /\ todo' = [todo EXCEPT ![w] = 0]
    /\ iter' = [iter EXCEPT ![w] = 0]
    /\ cyclic' = [cyclic EXCEPT ![w] = FALSE]
    /\ UNCHANGED dbVars

\* Load the workflow, read the tenant, compile.  A missing or empty workflow,
\* an exhausted budget and a compilation error all lead to _fail_execution,
\* which writes later.  The tenant row stays in the session's identity map.
RunPreflight(w) ==
    /\ pc[w] = "start"
    /\ seen' = [seen EXCEPT ![w] = used]
    /\ \/ /\ Goto(w, "failing")
          /\ UNCHANGED <<todo, cyclic>>
       \/ /\ used < Budget
          /\ Goto(w, "claim")
          /\ \E c \in BOOLEAN, n \in 1..MaxNodes :
                /\ c => n = 1
                /\ cyclic' = [cyclic EXCEPT ![w] = c]
                /\ todo' = [todo EXCEPT ![w] = n]
    /\ UNCHANGED <<dbVars, memVars, cur, iter>>

\* Mutant of RunClaim: the update has no condition on the status.
RunClaimUnguarded(w) ==
    /\ pc[w] = "claim"
    /\ SetStatus(cur[w], "running")
    /\ Goto(w, "loop")
    /\ UNCHANGED <<total, retryLog, used, memVars, cur, seen, todo, iter, cyclic>>

\* UPDATE ... SET status = running WHERE status = pending; rowcount 0: return.
RunClaim(w) ==
    /\ pc[w] = "claim"
    /\ \/ /\ status[cur[w]] \in Pending
          /\ SetStatus(cur[w], "running")
          /\ Goto(w, "loop")
       \/ /\ status[cur[w]] \notin Pending
          /\ UNCHANGED status
          /\ Goto(w, "ending")
    /\ UNCHANGED <<total, retryLog, used, memVars, cur, seen, todo, iter, cyclic>>

\* Mutant of RunNextNode: the iterations are not counted.
RunNextNodeUncounted(w) ==
    /\ pc[w] = "loop"
    /\ todo[w] > 0
    /\ todo' = [todo EXCEPT ![w] = @ - 1]
    /\ IF IsCancelled(w)
       THEN Goto(w, "cancelling")
       ELSE \E l \in {"connector", "checking", "loop"} : Goto(w, l)
    /\ UNCHANGED <<dbVars, memVars, cur, seen, iter, cyclic>>

\* Top of the while loop: pop a node, test the iteration limit, then the cancel
\* flag, then branch on the kind of node: a connector, an agent, or a node that
\* has no agent config and is skipped.
RunNextNode(w) ==
    /\ pc[w] = "loop"
    /\ todo[w] > 0
    /\ todo' = [todo EXCEPT ![w] = @ - 1]
    /\ iter' = [iter EXCEPT ![w] = @ + 1]
    /\ LET exhausted == cyclic[w] /\ iter[w] + 1 > MaxIterations IN
       \/ /\ exhausted
          /\ Goto(w, "failing")
       \/ /\ ~exhausted
          /\ IsCancelled(w)
          /\ Goto(w, "cancelling")
       \/ /\ ~exhausted
          /\ ~IsCancelled(w)
          /\ \E l \in {"connector", "checking", "loop"} : Goto(w, l)
    /\ UNCHANGED <<dbVars, memVars, cur, seen, cyclic>>

\* execute_connector_node succeeded: its log row is committed.
RunConnectorOk(w) ==
    /\ pc[w] = "connector"
    /\ Goto(w, "loop")
    /\ EnqueueNext(w)
    /\ UNCHANGED <<dbVars, memVars, cur, seen, iter, cyclic>>

\* ConnectorRuntimeError: the error's log row is committed before the status is.
RunConnectorError(w) ==
    /\ pc[w] = "connector"
    /\ Goto(w, "failing")
    /\ \E logged \in {{}, {cur[w]}} : retryLog' = retryLog \cup logged
    /\ UNCHANGED <<status, total, used, memVars, cur, seen, todo, iter, cyclic>>

\* The budget check before the model is called.  It reads the tenant through
\* the identity map: what the preflight read plus this run's own charges.
RunCheckBudget(w) ==
    /\ pc[w] = "checking"
    /\ \/ /\ seen[w] + MaxTokens > Budget
          /\ Goto(w, "cancelling")
       \/ /\ seen[w] + MaxTokens <= Budget
          /\ Goto(w, "calling")
    /\ UNCHANGED <<dbVars, memVars, cur, seen, todo, iter, cyclic>>

\* execute_agent reports an error (no tokens are recorded for it).
RunAgentError(w) ==
    /\ pc[w] = "calling"
    /\ Goto(w, "failing")
    /\ UNCHANGED <<dbVars, memVars, cur, seen, todo, iter, cyclic>>

\* Mutant of RunCharge: the update has no condition on the budget.
RunChargeUnchecked(w) ==
    /\ pc[w] = "calling"
    /\ \E n \in TokenCounts :
        /\ used' = used + n
        /\ total' = [total EXCEPT ![cur[w]] = @ + n]
        /\ seen' = [seen EXCEPT ![w] = @ + n]
    /\ Goto(w, "loop")
    /\ EnqueueNext(w)
    /\ UNCHANGED <<status, retryLog, memVars, cur, iter, cyclic>>

\* Mutant of RunCharge: the execution's totals are not updated.
RunChargeTenantOnly(w) ==
    /\ pc[w] = "calling"
    /\ \E n \in TokenCounts :
        /\ used + n <= Budget
        /\ used' = used + n
        /\ seen' = [seen EXCEPT ![w] = @ + n]
    /\ Goto(w, "loop")
    /\ EnqueueNext(w)
    /\ UNCHANGED <<status, total, retryLog, memVars, cur, iter, cyclic>>

\* The agent answered: one transaction charges the tenant if the budget allows
\* it and adds the tokens to the execution; if it does not, it is rolled back.
RunCharge(w) ==
    /\ pc[w] = "calling"
    /\ \E n \in TokenCounts :
       \/ /\ used + n <= Budget
          /\ used' = used + n
          /\ total' = [total EXCEPT ![cur[w]] = @ + n]
          /\ seen' = [seen EXCEPT ![w] = @ + n]
          /\ Goto(w, "loop")
          /\ EnqueueNext(w)
       \/ /\ used + n > Budget
          /\ Goto(w, "overrun")
          /\ UNCHANGED <<used, total, seen, todo>>
    /\ UNCHANGED <<status, retryLog, memVars, cur, iter, cyclic>>

\* After the rollback _cancel_execution commits status cancelled.  The event sent
\* next names agent_config.name, an attribute the rollback has expired and that
\* an asynchronous session will not load on access: the exception takes the run
\* to the except clause of run_execution, and to _fail_execution.
RunOverrun(w) ==
    /\ pc[w] = "overrun"
    /\ SetStatus(cur[w], "cancelled")
    /\ Goto(w, "failing")
    /\ UNCHANGED <<total, retryLog, used, memVars, cur, seen, todo, iter, cyclic>>

\* Mutant of RunFail: the return after it is missing.
RunFailGoesOn(w) ==
    /\ pc[w] = "failing"
    /\ SetStatus(cur[w], "failed")
    /\ Goto(w, "loop")
    /\ UNCHANGED <<total, retryLog, used, memVars, cur, seen, todo, iter, cyclic>>

\* _fail_execution: the update names the row only by its id.
RunFail(w) ==
    /\ pc[w] = "failing"
    /\ SetStatus(cur[w], "failed")
    /\ Goto(w, "ending")
    /\ UNCHANGED <<total, retryLog, used, memVars, cur, seen, todo, iter, cyclic>>

\* _cancel_execution: the same, with status cancelled.
RunCancel(w) ==
    /\ pc[w] = "cancelling"
    /\ SetStatus(cur[w], "cancelled")
    /\ Goto(w, "ending")
    /\ UNCHANGED <<total, retryLog, used, memVars, cur, seen, todo, iter, cyclic>>

\* Mutant of RunComplete: the final status is not written.
RunCompleteSilently(w) ==
    /\ pc[w] = "loop"
    /\ todo[w] = 0
    /\ Goto(w, "ending")
    /\ UNCHANGED <<dbVars, memVars, cur, seen, todo, iter, cyclic>>

\* The queue is empty: status completed, again by id only.
RunComplete(w) ==
    /\ pc[w] = "loop"
    /\ todo[w] = 0
    /\ SetStatus(cur[w], "completed")
    /\ Goto(w, "ending")
    /\ UNCHANGED <<total, retryLog, used, memVars, cur, seen, todo, iter, cyclic>>

\* The finally clause: the registry entry is dropped.
RunEnd(w) ==
    LET p == ProcOf[w] IN
    /\ pc[w] = "ending"
    /\ active' = [active EXCEPT ![p] = @ \ {cur[w]}]
    /\ flagged' = [flagged EXCEPT ![p] = @ \ {cur[w]}]
    /\ Goto(w, "idle")
    /\ cur' = [cur EXCEPT ![w] = NoExec]
    /\ seen' = [seen EXCEPT ![w] = 0]
    /\ todo' = [todo EXCEPT ![w] = 0]
    /\ iter' = [iter EXCEPT ![w] = 0]
    /\ cyclic' = [cyclic EXCEPT ![w] = FALSE]
    /\ UNCHANGED dbVars

\* What a worker inside run_execution may do next, but for the charge: that has
\* to wait while another transaction holds the tenant row.
RunBody(w) ==
    \/ RunPreflight(w)
    \/ RunClaim(w)
    \/ RunNextNode(w)
    \/ RunConnectorOk(w)
    \/ RunConnectorError(w)
    \/ RunCheckBudget(w)
    \/ RunAgentError(w)
    \/ RunOverrun(w)
    \/ RunFail(w)
    \/ RunCancel(w)
    \/ RunComplete(w)
    \/ RunEnd(w)

\* A statement or a commit fails.  The except clause calls _fail_execution in
\* the same session without a rollback: after a failed commit that opens a new
\* transaction and works; after a failed statement the transaction is aborted,
\* the second failure is swallowed and the row keeps the status it had.
RunDbError(w) ==
    /\ pc[w] \notin {"idle", "queued", "ending"}
    /\ \E l \in {"failing", "ending"} : Goto(w, l)
    /\ UNCHANGED <<dbVars, memVars, cur, seen, todo, iter, cyclic>>

\* request_cancel(execution_id), called in process p.
RequestCancel(p, e) ==
    flagged' = [flagged EXCEPT ![p] = @ \cup ({e} \cap active[p])]

\* A server process dies: its memory and its runs are gone, rows stay.
ProcessCrash(p) ==
    LET lost(w) == ProcOf[w] = p IN
    /\ active' = [active EXCEPT ![p] = {}]
    /\ flagged' = [flagged EXCEPT ![p] = {}]
    /\ pc' = [w \in Workers |-> IF lost(w) THEN "idle" ELSE pc[w]]
    /\ cur' = [w \in Workers |-> IF lost(w) THEN NoExec ELSE cur[w]]
    /\ seen' = [w \in Workers |-> IF lost(w) THEN 0 ELSE seen[w]]
    /\ todo' = [w \in Workers |-> IF lost(w) THEN 0 ELSE todo[w]]
    /\ iter' = [w \in Workers |-> IF lost(w) THEN 0 ELSE iter[w]]
    /\ cyclic' = [w \in Workers |-> IF lost(w) THEN FALSE ELSE cyclic[w]]
    /\ UNCHANGED dbVars

=============================================================================
