-------------------------- MODULE ExecutionService --------------------------
(***************************************************************************)
(* Executions started through the API: services/execution_service.py       *)
(* (create_execution, cancel_execution) and api/v1/executions.py, composed *)
(* with the executor.  One tenant.  Each execution is run by the           *)
(* background task of the request that created it, so the workers of       *)
(* ExecutionRun are the executions themselves.                             *)
(*                                                                         *)
(* create_execution is two steps, the checks under the lock on the tenant  *)
(* row and the commit that releases it; so is cancel_execution, the read   *)
(* of the status and what it does about it.                                *)
(***************************************************************************)
EXTENDS ExecutionRun, FiniteSets

CONSTANTS
    ConcurrentLimit,    \* PLAN_CONCURRENT_EXECUTION_LIMITS[tenant.plan]
    Cancels,            \* cancel requests clients may send
    Faults              \* whether database errors and crashes happen

ASSUME ServiceAssumption ==
    /\ Workers = Execs
    /\ ConcurrentLimit \in Nat
    /\ Faults \in BOOLEAN

VARIABLES
    tenantLock,     \* the create request that holds the tenant row, or NoExec
    cancelPc,       \* the state of each cancel request
    target,         \* the execution it names
    saw             \* the status it read

cancelVars == <<cancelPc, target, saw>>
vars == <<execVars, tenantLock, cancelVars>>

ActiveExecs == {e \in Execs : status[e] \in Active}

\* Every column and every piece of process memory keeps to the values the models
\* and the executor give it, and a run that is in progress has an execution.
TypeOK ==
    /\ RunTypeOK
    /\ tenantLock \in Execs \cup {NoExec}
    /\ cancelPc \in [Cancels -> {"new", "read", "accepted", "rejected"}]
    /\ target \in [Cancels -> Execs \cup {NoExec}]
    /\ saw \in [Cancels -> Statuses]

Init ==
    /\ RunInit
    /\ tenantLock = NoExec
    /\ cancelPc = [c \in Cancels |-> "new"]
    /\ target = [c \in Cancels |-> NoExec]
    /\ saw = [c \in Cancels |-> "absent"]

-----------------------------------------------------------------------------
(* create_execution and the background task *)

\* Mutant of CreateCheck: only running executions are counted.
CreateCheckRunning(e) ==
    /\ status[e] = "absent"
    /\ tenantLock = NoExec
    /\ used < Budget
    /\ Cardinality({x \in Execs : status[x] = "running"}) < ConcurrentLimit
    /\ tenantLock' = e
    /\ UNCHANGED <<execVars, cancelVars>>

\* SELECT ... FOR UPDATE on the tenant, then the budget check and the count of
\* active executions.  A request that fails a check changes nothing.
CreateCheck(e) ==
    /\ status[e] = "absent"
    /\ tenantLock = NoExec
    /\ used < Budget
    /\ Cardinality(ActiveExecs) < ConcurrentLimit
    /\ tenantLock' = e
    /\ UNCHANGED <<execVars, cancelVars>>

\* INSERT with status pending, COMMIT, and the background task is scheduled.
CreateCommit(e) ==
    /\ tenantLock = e
    /\ tenantLock' = NoExec
    /\ SetStatus(e, "pending")
    /\ Goto(e, "queued")
    /\ cur' = [cur EXCEPT ![e] = e]
    /\ UNCHANGED <<total, retryLog, used, memVars, seen, todo, iter, cyclic,
                   cancelVars>>

\* The insert fails: no row, and the lock goes with the transaction.
CreateAbort(e) ==
    /\ Faults
    /\ tenantLock = e
    /\ tenantLock' = NoExec
    /\ UNCHANGED <<execVars, cancelVars>>

\* The response is sent and the background task calls run_execution.
StartRun(e) ==
    /\ pc[e] = "queued"
    /\ RunStart(e, e)

\* Mutant of RunStep: the checks of create_execution do not lock the tenant row,
\* so that charges go on until the commit.
RunStepNoWait(e) ==
    /\ \/ StartRun(e)
       \/ RunBody(e)
       \/ RunCharge(e)
    /\ UNCHANGED <<tenantLock, cancelVars>>

\* One step of the run of e.  The charge updates the tenant row and waits for
\* whoever has it locked.
RunStep(e) ==
    /\ \/ StartRun(e)
       \/ RunBody(e)
       \/ tenantLock = NoExec /\ RunCharge(e)
       \/ Faults /\ RunDbError(e)
    /\ UNCHANGED <<tenantLock, cancelVars>>

-----------------------------------------------------------------------------
(* cancel_execution *)

\* The status is read; 409 unless it is pending or running.
CancelRead(c, e) ==
    /\ cancelPc[c] = "new"
    /\ status[e] # "absent"
    /\ target' = [target EXCEPT ![c] = e]
    /\ saw' = [saw EXCEPT ![c] = status[e]]
    /\ cancelPc' = [cancelPc EXCEPT ![c] =
                        IF status[e] \in Active THEN "read" ELSE "rejected"]
    /\ UNCHANGED <<execVars, tenantLock>>

\* It was running: the flag is set if this process p has the execution in its
\* registry.  If it has not, the row is read again, but into the same object of
\* the identity map, so the status compared is the one read before: 200.
CancelRunning(c, p) ==
    /\ cancelPc[c] = "read"
    /\ saw[c] = "running"
    /\ RequestCancel(p, target[c])
    /\ cancelPc' = [cancelPc EXCEPT ![c] = "accepted"]
    /\ UNCHANGED <<dbVars, active, runVars, tenantLock, target, saw>>

\* It was pending: the row is written by its id, whatever its status is now.
CancelPending(c) ==
    /\ cancelPc[c] = "read"
    /\ saw[c] = "pending"
    /\ SetStatus(target[c], "cancelled")
    /\ cancelPc' = [cancelPc EXCEPT ![c] = "accepted"]
    /\ UNCHANGED <<total, retryLog, used, memVars, runVars, tenantLock,
                   target, saw>>

-----------------------------------------------------------------------------

\* A process dies with its runs and with the transaction it had open.
Crash(p) ==
    /\ Faults
    /\ ProcessCrash(p)
    /\ tenantLock' = IF tenantLock # NoExec /\ ProcOf[tenantLock] = p
                     THEN NoExec ELSE tenantLock
    /\ UNCHANGED cancelVars

Next ==
    \/ \E e \in Execs :
        \/ CreateCheck(e)
        \/ CreateCommit(e)
        \/ CreateAbort(e)
        \/ RunStep(e)
    \/ \E c \in Cancels :
        \/ \E e \in Execs : CancelRead(c, e)
        \/ \E p \in Procs : CancelRunning(c, p)
        \/ CancelPending(c)
    \/ \E p \in Procs : Crash(p)

\* The event loop runs every ready coroutine, the model and connector calls
\* have timeouts, and the requests in progress reach their commit.
Fairness ==
    \A e \in Execs : WF_vars(RunStep(e)) /\ WF_vars(CreateCommit(e))

Spec == Init /\ [][Next]_vars
FairSpec == Spec /\ Fairness

-----------------------------------------------------------------------------
(* Properties *)

\* The pre-call check in the executor reads a tenant row that other runs have
\* charged since; the conditional UPDATE after the call must be what keeps the
\* tenant within monthly_token_budget.
BudgetRespected == used <= Budget

\* create_execution's count and its insert are two statements: the lock on the
\* tenant row must keep concurrent requests from passing the count together.
ConcurrencyCapped == Cardinality(ActiveExecs) <= ConcurrentLimit

\* Several writers update a row by id with no condition on its status (the API
\* cancel, _fail_execution, _cancel_execution, completion): none of them, in
\* any order, may take a finished execution back to pending or running.
NoResurrection ==
    [][\A e \in Execs : status[e] \in Terminal => status'[e] \in Terminal]_vars

\* While nothing fails, a pending or running row has a worker that will end it:
\* the slot it holds is never leaked, even when cancels race with the run.
SlotHasWorker ==
    ~Faults => \A e \in ActiveExecs : pc[e] \notin {"idle", "ending"}

\* A run that works on its nodes holds a slot of the plan, unless a cancel that
\* had read pending wrote the row: nothing else, no failure and no other run,
\* separates a live run from the row that counts for it.
LiveRunHoldsSlot ==
    \A e \in Execs :
        pc[e] \in InBody =>
            \/ status[e] = "running"
            \/ /\ status[e] = "cancelled"
               /\ \E c \in Cancels :
                    /\ target[c] = e
                    /\ saw[c] = "pending"
                    /\ cancelPc[c] = "accepted"

\* The tokens booked on the tenant are those booked on its executions, each
\* counted once: the two updates of a charge are one transaction, whatever fails
\* around them.
Booked == UNION {{e} \X (1..total[e]) : e \in Execs}
LedgerBalanced == used = Cardinality(Booked)

\* Every step is an admission, a closing or a charge that the tenant's contract
\* allows, or does not concern it.
phaseOf ==
    [e \in Execs |-> CASE status[e] = "absent" -> "absent"
                       [] status[e] \in Active -> "open"
                       [] OTHER -> "closed"]

Contract == INSTANCE AdmissionContract
                WITH Jobs <- Execs, Slots <- ConcurrentLimit,
                     Allowance <- Budget,
                     phase <- phaseOf, booked <- total, spent <- used

ImplementsContract == Contract!Spec

\* Every execution that create_execution accepts is eventually finished: its
\* task starts, and every path through run_execution, cyclic workflows and
\* races with cancel included, writes a final status.
EveryExecutionEnds ==
    \A e \in Execs : status[e] = "pending" ~> status[e] \in Terminal

-----------------------------------------------------------------------------
(* The inductive invariant behind the proofs *)

\* What create_execution checked stays true until its commit, because charges
\* wait for the lock and nothing else admits an execution.
AdmissionLocked ==
    tenantLock # NoExec =>
        /\ status[tenantLock] = "absent"
        /\ used < Budget
        /\ Cardinality(ActiveExecs) < ConcurrentLimit

\* Whoever is about to write a row by its id has seen that row.
WritersHaveRows ==
    /\ \A w \in Workers : pc[w] # "idle" => status[cur[w]] # "absent"
    /\ \A c \in Cancels : cancelPc[c] = "read" =>
            target[c] \in Execs /\ status[target[c]] # "absent"

\* The background task of a request runs the execution that request created.
OwnExecution == \A e \in Execs : cur[e] \in {e, NoExec}

IInv ==
    /\ TypeOK
    /\ BudgetRespected
    /\ IsFiniteSet(ActiveExecs)
    /\ ConcurrencyCapped
    /\ AdmissionLocked
    /\ WritersHaveRows
    /\ OwnExecution

-----------------------------------------------------------------------------
(* What the repository says and the code does not do *)

\* "Only pending or running executions can be cancelled": the message of the
\* 409 in cancel_execution.
OnlyActiveIsCancelled ==
    [][\A e \in Execs :
         status[e] \in {"completed", "failed"} => status'[e] # "cancelled"]_vars
=============================================================================
