------------------------- MODULE WebhookDispatcher --------------------------
(***************************************************************************)
(* Webhook executions: connector_service.ingest_webhook queues them,       *)
(* webhook_dispatcher_service (one loop per server process, see            *)
(* webhook_dispatcher_worker) scans the queue, runs them with the          *)
(* executor, schedules retries and dead-letters, and                       *)
(* execution_service.retry_dead_letter_execution puts them back.           *)
(*                                                                         *)
(* One tenant.  Execution ids are numbers in the order of created_at.  A   *)
(* dispatcher is a worker of ExecutionRun with one database session per    *)
(* batch: the row locks its scan takes last until the session's first      *)
(* commit, whichever step makes it.                                        *)
(***************************************************************************)
EXTENDS ExecutionRun, FiniteSets

CONSTANTS
    Workflows,          \* workflows that have a webhook trigger
    NoOne,              \* "no dispatcher"
    ConcurrentLimit,    \* PLAN_CONCURRENT_EXECUTION_LIMITS[tenant.plan]
    BacklogLimit,       \* ConcurrentLimit * WEBHOOK_BACKLOG_MULTIPLIER
    ScanLimit,          \* PENDING_SCAN_LIMIT
    DispatchLimit,      \* the worker's batch_limit
    MaxAttempts,        \* WebhookRetryPolicy.max_attempts
    LastAdmitted,       \* bound: the last id an admission may take, the ids
                        \* after it are left to automatic retries
    Faults              \* whether database errors and crashes happen

ASSUME DispatcherAssumption ==
    /\ Execs \subseteq Nat
    /\ Workflows # {}
    /\ NoOne \notin Workers
    /\ {ConcurrentLimit, BacklogLimit} \subseteq Nat
    /\ ConcurrentLimit <= BacklogLimit
    /\ {ScanLimit, DispatchLimit, MaxAttempts} \subseteq Nat \ {0}
    /\ LastAdmitted \in Nat
    /\ Faults \in BOOLEAN

VARIABLES
    \* the database
    tenantLock,     \* the admission that holds the tenant row, or NoExec
    rowLock,        \* the dispatcher that holds FOR UPDATE on a row, or NoOne
    workflow,       \* executions.workflow_id
    attempt,        \* input_data.dispatch.attempt
    parent,         \* input_data.dispatch.parent_execution_id
    deferred,       \* executions whose next_attempt_at is in the future
    dead,           \* executions with dispatch.dead_lettered
    paused,         \* workflows with dispatch_paused
    \* the dispatchers
    dpc,            \* where each is in dispatch_pending_webhook_executions
    batch,          \* the candidates it still has to look at
    handling,       \* the candidate it is on
    count,          \* report.dispatched
    wroteFailed     \* its session has written status failed on that candidate

rowVars  == <<workflow, attempt, parent, deferred, dead>>
loopVars == <<dpc, batch, handling, count, wroteFailed>>
vars == <<execVars, tenantLock, rowLock, rowVars, paused, loopVars>>

ActiveExecs == {e \in Execs : status[e] \in Active}

Init ==
    /\ RunInit
    /\ tenantLock = NoExec
    /\ rowLock = [e \in Execs |-> NoOne]
    /\ workflow = [e \in Execs |-> CHOOSE wf \in Workflows : TRUE]
    /\ attempt = [e \in Execs |-> 0]
    /\ parent = [e \in Execs |-> NoExec]
    /\ deferred = {}
    /\ dead = {}
    /\ paused = {}
    /\ dpc = [d \in Workers |-> "asleep"]
    /\ batch = [d \in Workers |-> {}]
    /\ handling = [d \in Workers |-> NoExec]
    /\ count = [d \in Workers |-> 0]
    /\ wroteFailed = [d \in Workers |-> FALSE]

-----------------------------------------------------------------------------
(* Helpers *)

\* e is the id the next inserted row gets.
NextRow(e) ==
    /\ status[e] = "absent"
    /\ \A x \in Execs : x < e => status[x] # "absent"

\* Mutant of InsertRow: the attempt number is not advanced.
InsertRowSameAttempt(e, wf, p) ==
    /\ SetStatus(e, "pending")
    /\ workflow' = [workflow EXCEPT ![e] = wf]
    /\ parent' = [parent EXCEPT ![e] = p]
    /\ attempt' = [attempt EXCEPT ![e] = IF p = NoExec THEN 1 ELSE attempt[p]]

\* The row of e as inserted by wf's trigger (p = NoExec) or as a retry of p.
InsertRow(e, wf, p) ==
    /\ SetStatus(e, "pending")
    /\ workflow' = [workflow EXCEPT ![e] = wf]
    /\ parent' = [parent EXCEPT ![e] = p]
    /\ attempt' = [attempt EXCEPT ![e] = IF p = NoExec THEN 1 ELSE attempt[p] + 1]

\* A commit or rollback of d's session lets go of all its row locks.
ReleaseRows(d) ==
    rowLock' = [e \in Execs |-> IF rowLock[e] = d THEN NoOne ELSE rowLock[e]]

\* d can write row e without waiting.
RowFree(d, e) == rowLock[e] \in {NoOne, d}

-----------------------------------------------------------------------------
(* Admission *)

\* ingest_webhook up to enforce_webhook_admission: the tenant row is locked, the
\* budget and the backlog are checked.
IngestCheck(e) ==
    /\ NextRow(e)
    /\ e <= LastAdmitted
    /\ tenantLock = NoExec
    /\ used < Budget
    /\ Cardinality(ActiveExecs) < BacklogLimit
    /\ tenantLock' = e
    /\ parent' = [parent EXCEPT ![e] = NoExec]
    /\ UNCHANGED <<execVars, rowLock, workflow, attempt, deferred, dead, paused,
                   loopVars>>

\* retry_dead_letter_execution: the source is a dead-lettered failure, and
\* create_execution checks the budget and the concurrency limit.
ManualRetryCheck(e, source) ==
    /\ NextRow(e)
    /\ e <= LastAdmitted
    /\ source \in dead
    /\ status[source] = "failed"
    /\ tenantLock = NoExec
    /\ used < Budget
    /\ Cardinality(ActiveExecs) < ConcurrentLimit
    /\ tenantLock' = e
    /\ parent' = [parent EXCEPT ![e] = source]
    /\ UNCHANGED <<execVars, rowLock, workflow, attempt, deferred, dead, paused,
                   loopVars>>

\* The rest of either: INSERT and COMMIT.
AdmitCommit(e) ==
    /\ tenantLock = e
    /\ \E wf \in Workflows :
        /\ parent[e] # NoExec => wf = workflow[parent[e]]
        /\ InsertRow(e, wf, parent[e])
    /\ tenantLock' = NoExec
    /\ UNCHANGED <<total, retryLog, used, memVars, runVars, rowLock, deferred,
                   dead, paused, loopVars>>

\* Or the transaction is lost, and the lock with it.
AdmitAbort(e) ==
    /\ Faults
    /\ tenantLock = e
    /\ tenantLock' = NoExec
    /\ UNCHANGED <<execVars, rowLock, rowVars, paused, loopVars>>

\* pause_workflow_dispatch and resume_workflow_dispatch.
Pause(wf) ==
    /\ paused' = paused \cup {wf}
    /\ UNCHANGED <<execVars, tenantLock, rowLock, rowVars, loopVars>>

Resume(wf) ==
    /\ wf \in paused
    /\ paused' = paused \ {wf}
    /\ UNCHANGED <<execVars, tenantLock, rowLock, rowVars, loopVars>>

\* backoff_seconds have passed.
BecomeDue(e) ==
    /\ e \in deferred
    /\ deferred' = deferred \ {e}
    /\ UNCHANGED <<execVars, tenantLock, rowLock, workflow, attempt, parent, dead,
                   paused, loopVars>>

-----------------------------------------------------------------------------
(* One batch of a dispatcher *)

\* _pending_execution_candidates: the oldest ScanLimit pending rows that no other
\* session has locked, all of them locked.  Of these the loop will pass over the
\* ones that were not due when the batch began.
Scan(d) ==
    LET free == {e \in Execs : status[e] \in Pending /\ rowLock[e] = NoOne}
        window == {e \in free : Cardinality({x \in free : x < e}) < ScanLimit}
    IN
    /\ dpc[d] = "asleep"
    /\ rowLock' = [e \in Execs |-> IF e \in window THEN d ELSE rowLock[e]]
    /\ batch' = [batch EXCEPT ![d] = window \ deferred]
    /\ count' = [count EXCEPT ![d] = 0]
    /\ dpc' = [dpc EXCEPT ![d] = "batch"]
    /\ UNCHANGED <<execVars, tenantLock, rowVars, paused, handling, wroteFailed>>

\* The next candidate: passed over if its workflow is paused, else run.
Dispatch(d, e) ==
    /\ dpc[d] = "batch"
    /\ count[d] < DispatchLimit
    /\ e \in batch[d]
    /\ \A x \in batch[d] : e <= x
    /\ batch' = [batch EXCEPT ![d] = @ \ {e}]
    /\ \/ /\ workflow[e] \in paused
          /\ UNCHANGED <<execVars, dpc, handling, wroteFailed>>
       \/ /\ workflow[e] \notin paused
          /\ RunStart(d, e)
          /\ dpc' = [dpc EXCEPT ![d] = "run"]
          /\ handling' = [handling EXCEPT ![d] = e]
          /\ wroteFailed' = [wroteFailed EXCEPT ![d] = FALSE]
    /\ UNCHANGED <<tenantLock, rowLock, rowVars, paused, count>>

\* A step of the run that ends without touching a row: nothing to wait for and
\* no commit.
RunQuietly(d) ==
    /\ RunPreflight(d) \/ RunNextNode(d) \/ RunCheckBudget(d) \/ RunAgentError(d)
    /\ UNCHANGED <<rowLock, dpc, batch, count, wroteFailed>>

\* The claim waits for the row.  It commits only if it got it.
RunClaims(d) ==
    /\ RowFree(d, cur[d])
    /\ RunClaim(d)
    /\ \/ pc'[d] = "loop" /\ ReleaseRows(d)
       \/ pc'[d] # "loop" /\ UNCHANGED rowLock
    /\ UNCHANGED <<dpc, batch, count, wroteFailed>>

\* Every other write of the run is followed by a commit, a rejected charge by a
\* rollback.  That expires the objects of the session, and the loop over the
\* candidates ends with an exception when it reads the next of them.
RunWrites(d) ==
    /\ RowFree(d, cur[d])
    /\ \/ RunConnectorOk(d)
       \/ RunConnectorError(d)
       \/ tenantLock = NoExec /\ RunCharge(d)
       \/ RunOverrun(d)
       \/ RunFail(d)
       \/ RunCancel(d)
       \/ RunComplete(d)
    /\ ReleaseRows(d)
    /\ batch' = [batch EXCEPT ![d] = IF pc'[d] = "overrun" THEN {} ELSE @]
    /\ wroteFailed' = [wroteFailed EXCEPT ![d] = pc[d] = "failing"]
    /\ UNCHANGED <<dpc, count>>

\* run_execution returns to the loop, whatever became of the execution.
RunReturns(d) ==
    /\ RunEnd(d)
    /\ dpc' = [dpc EXCEPT ![d] = "policy"]
    /\ count' = [count EXCEPT ![d] = @ + 1]
    /\ UNCHANGED <<rowLock, batch, wroteFailed>>

RunStep(d) ==
    /\ dpc[d] = "run"
    /\ RunQuietly(d) \/ RunClaims(d) \/ RunWrites(d) \/ RunReturns(d)
    /\ UNCHANGED <<tenantLock, rowVars, paused, handling>>

\* After a failed statement the session is unusable, and it keeps its locks; a
\* failed commit rolls back.  Either way the rest of the batch is lost with an
\* exception, which the worker's loop logs.
RunBreaks(d) ==
    /\ Faults
    /\ RunDbError(d)
    /\ batch' = [batch EXCEPT ![d] = {}]
    /\ \/ pc'[d] = "ending" /\ UNCHANGED rowLock
       \/ pc'[d] = "failing" /\ ReleaseRows(d)
    /\ UNCHANGED <<tenantLock, rowVars, paused, dpc, handling, count, wroteFailed>>

-----------------------------------------------------------------------------
(* _apply_retry_policy_after_dispatch *)

\* Mutant of Retryable: the status is not looked at.
RetryableByLog(d) == handling[d] \in retryLog

\* The session believes the execution failed, and there is a retryable log.
Retryable(d) == wroteFailed[d] /\ handling[d] \in retryLog

\* Neither: on to the next candidate.
PolicyNone(d) ==
    /\ dpc[d] = "policy"
    /\ ~Retryable(d)
    /\ dpc' = [dpc EXCEPT ![d] = "batch"]
    /\ handling' = [handling EXCEPT ![d] = NoExec]
    /\ UNCHANGED <<execVars, tenantLock, rowLock, rowVars, paused, batch, count,
                   wroteFailed>>

\* _schedule_retry_execution: a new pending row, due after the backoff.  The
\* insert needs the tenant row to stay, so it waits for whoever has it locked.
PolicyRetry(d, e) ==
    /\ dpc[d] = "policy"
    /\ Retryable(d)
    /\ attempt[handling[d]] < MaxAttempts
    /\ tenantLock = NoExec
    /\ NextRow(e)
    /\ InsertRow(e, workflow[handling[d]], handling[d])
    /\ deferred' = deferred \cup {e}
    /\ ReleaseRows(d)
    /\ dpc' = [dpc EXCEPT ![d] = "batch"]
    /\ handling' = [handling EXCEPT ![d] = NoExec]
    /\ UNCHANGED <<total, retryLog, used, memVars, runVars, tenantLock, dead,
                   paused, batch, count, wroteFailed>>

\* _mark_dead_lettered.
PolicyDeadLetter(d) ==
    /\ dpc[d] = "policy"
    /\ Retryable(d)
    /\ attempt[handling[d]] >= MaxAttempts
    /\ RowFree(d, handling[d])
    /\ dead' = dead \cup {handling[d]}
    /\ ReleaseRows(d)
    /\ dpc' = [dpc EXCEPT ![d] = "batch"]
    /\ handling' = [handling EXCEPT ![d] = NoExec]
    /\ UNCHANGED <<execVars, tenantLock, workflow, attempt, parent, deferred,
                   paused, batch, count, wroteFailed>>

\* Mutant of EndBatch: the session is left open and keeps its locks.
EndBatchLocked(d) ==
    /\ dpc[d] = "batch"
    /\ batch[d] = {} \/ count[d] >= DispatchLimit
    /\ batch' = [batch EXCEPT ![d] = {}]
    /\ count' = [count EXCEPT ![d] = 0]
    /\ dpc' = [dpc EXCEPT ![d] = "asleep"]
    /\ UNCHANGED <<execVars, tenantLock, rowLock, rowVars, paused, handling,
                   wroteFailed>>

\* The loop ends, the session is closed and the worker sleeps.
EndBatch(d) ==
    /\ dpc[d] = "batch"
    /\ batch[d] = {} \/ count[d] >= DispatchLimit
    /\ ReleaseRows(d)
    /\ batch' = [batch EXCEPT ![d] = {}]
    /\ count' = [count EXCEPT ![d] = 0]
    /\ wroteFailed' = [wroteFailed EXCEPT ![d] = FALSE]
    /\ dpc' = [dpc EXCEPT ![d] = "asleep"]
    /\ UNCHANGED <<execVars, tenantLock, rowVars, paused, handling>>

\* The server process of d dies; its session's locks go.
Crash(d) ==
    /\ Faults
    /\ dpc[d] # "asleep"
    /\ ProcessCrash(ProcOf[d])
    /\ ReleaseRows(d)
    /\ dpc' = [dpc EXCEPT ![d] = "asleep"]
    /\ batch' = [batch EXCEPT ![d] = {}]
    /\ handling' = [handling EXCEPT ![d] = NoExec]
    /\ count' = [count EXCEPT ![d] = 0]
    /\ wroteFailed' = [wroteFailed EXCEPT ![d] = FALSE]
    /\ UNCHANGED <<tenantLock, rowVars, paused>>

DispatcherStep(d) ==
    \/ Scan(d)
    \/ \E e \in Execs : Dispatch(d, e)
    \/ RunStep(d)
    \/ RunBreaks(d)
    \/ PolicyNone(d)
    \/ \E e \in Execs : PolicyRetry(d, e)
    \/ PolicyDeadLetter(d)
    \/ EndBatch(d)

Next ==
    \/ \E e \in Execs :
        \/ IngestCheck(e)
        \/ \E s \in Execs : ManualRetryCheck(e, s)
        \/ AdmitCommit(e)
        \/ AdmitAbort(e)
        \/ BecomeDue(e)
    \/ \E wf \in Workflows : Pause(wf) \/ Resume(wf)
    \/ \E d \in Workers : DispatcherStep(d) \/ Crash(d)

\* The worker loop never stops while the server runs, requests in progress reach
\* their commit, and the clock goes on.
Fairness ==
    /\ \A d \in Workers : WF_vars(DispatcherStep(d))
    /\ \A e \in Execs : WF_vars(AdmitCommit(e)) /\ WF_vars(BecomeDue(e))

Spec == Init /\ [][Next]_vars
FairSpec == Spec /\ Fairness

-----------------------------------------------------------------------------
(* Properties *)

\* Two dispatchers can have the same execution in their batches, because the
\* scan's locks are gone after the first commit: the executor's pending to
\* running update must still let only one of them run its nodes.
SingleRunner ==
    \A c, d \in Workers :
        c # d /\ pc[c] \in InBody /\ pc[d] \in InBody => cur[c] # cur[d]

\* An execution is dead-lettered only after a retryable failure of its last
\* attempt, and it stays failed, so that it can be retried by hand.
DeadLetterIsExhausted ==
    \A e \in dead :
        /\ status[e] = "failed"
        /\ e \in retryLog
        /\ attempt[e] >= MaxAttempts

\* Each retry continues a failed execution of the same workflow with the next
\* attempt number: an automatic one while attempts remain, one by hand only
\* after the dead letter.
RetryChain ==
    \A e \in Execs :
        status[e] # "absent" /\ parent[e] # NoExec =>
            LET p == parent[e] IN
            /\ p < e
            /\ status[p] = "failed"
            /\ workflow[e] = workflow[p]
            /\ attempt[e] = attempt[p] + 1
            /\ attempt[p] < MaxAttempts <=> p \notin dead

Eligible(e) ==
    /\ status[e] = "pending"
    /\ e \notin deferred
    /\ workflow[e] \notin paused

\* No execution that the selection rules choose (pending, webhook, due, workflow
\* not paused) stays eligible and undispatched for ever.
NoStarvation == \A e \in Execs : []<>~Eligible(e)
=============================================================================
