-------------------------- MODULE AutomationPlans ---------------------------
(***************************************************************************)
(* Automation plans of one tenant: users propose a plan from a current     *)
(* recommendation, owners approve or reject it (analytics_service), and    *)
(* run_dispatch_automation_plan_worker_once executes what is approved.     *)
(* That function is called by the endpoint and by the scheduler of every   *)
(* server process; the endpoint does not take the scheduler's leader lock, *)
(* so a runner here is any caller, and several run at once.                *)
(*                                                                         *)
(* A runner has one database session.  What it writes takes the row's lock *)
(* when it is flushed and becomes visible with the session's next commit,  *)
(* which is the end of the batch or, before that, the commit inside        *)
(* create_execution.  A request of a user reads first and writes later.    *)
(***************************************************************************)
EXTENDS Integers, FiniteSets

CONSTANTS
    Plans,              \* primary keys: flushes write rows in this order
    Execs,              \* execution ids, in the order of created_at
    Runners,            \* sessions that execute plans
    Proposers,          \* requests that propose a plan
    Reviewers,          \* requests that approve or reject one
    Proposals,          \* bound: the automation types that are proposed
    NoPlan, NoExec, NoOne,
    OldDeadLetters,     \* executions that were dead-lettered before
    PlanLimit,          \* limit of a batch
    ScanWindow,         \* MAX_DEAD_LETTER_SCAN
    ConcurrentLimit,    \* PLAN_CONCURRENT_EXECUTION_LIMITS[tenant.plan]
    Faults              \* whether database errors and crashes happen

Kinds == {"resume_guard", "approval_gated_retry", "other"}

ASSUME PlansAssumption ==
    /\ Plans \subseteq Nat
    /\ Execs \subseteq Nat
    /\ OldDeadLetters \subseteq Execs
    /\ NoPlan \notin Plans
    /\ NoExec \notin Execs
    /\ NoOne \notin Runners
    /\ Proposals \subseteq Kinds
    /\ {PlanLimit, ScanWindow, ConcurrentLimit} \subseteq Nat \ {0}
    /\ Faults \in BOOLEAN

\* The dead letters of before are the oldest executions, and finitely many.
ASSUME HistoryAssumption ==
    /\ IsFiniteSet(OldDeadLetters)
    /\ \A x \in Execs, s \in OldDeadLetters : x < s => x \in OldDeadLetters

VARIABLES
    \* the database, as committed
    status,         \* dispatch_automation_plans.status
    kind,           \* .automation_type
    approvedAt,     \* .approved_at, 0 before the first approval
    clock,          \* the time of the last approval
    exec,           \* what there is of an execution
    parent,         \* input_data.dispatch.parent_execution_id
    paused,         \* some workflow of the tenant has dispatch_paused
    \* its locks
    planLock,       \* the runner that has written a plan and not committed
    tenantLock,     \* the runner that has the tenant row FOR UPDATE
    \* the runners
    rpc,            \* where each is
    todo,           \* plans of its batch it has not come to
    loadedAt,       \* approved_at of the plans when the batch was read
    cur,            \* the plan it is on
    mem,            \* the status its session has for the plans of its batch
    unflushed,      \* plans it has changed and not flushed
    row,            \* the dead letter it is about to retry, then the retry
    resumes,        \* its session has resumed the workflows
    tagged,         \* executions whose input_data it has written
    \* the users
    proposing,      \* the type a proposer is about to insert
    decision,       \* what a reviewer is about to write
    reviewed,       \* on which plan
    \* history
    approvals,      \* approvals of a plan so far
    madeBy,         \* the runner that created an execution, or NoOne
    madeFor         \* the plan it did that for, or NoPlan

rowVars    == <<exec, parent, madeBy, madeFor>>
planVars   == <<status, kind, approvedAt, clock, approvals>>
lockVars   == <<planLock, tenantLock>>
runnerVars == <<rpc, todo, loadedAt, cur, mem, unflushed, row, resumes, tagged>>
userVars   == <<proposing, decision, reviewed>>
vars == <<planVars, rowVars, paused, lockVars, runnerVars, userVars>>

Final  == {"executed", "blocked", "failed"}
Stored == {"absent", "pending_approval", "approved", "rejected", "executing"}
              \cup Final

\* The plan a runner has read as approved and may still create a retry for.
Holds(r, p) == p \in todo[r] \/ (cur[r] = p /\ rpc[r] \in {"flush", "act", "retry"})

\* The columns, the locks and the local state of the sessions keep their types,
\* and a session has a plan in hand wherever it uses one.
TypeOK ==
    /\ status \in [Plans -> Stored]
    /\ kind \in [Plans -> Kinds]
    /\ approvedAt \in [Plans -> Nat]
    /\ clock \in Nat
    /\ exec \in [Execs -> {"absent", "active", "dead", "ended"}]
    /\ parent \in [Execs -> Execs \cup {NoExec}]
    /\ paused \in BOOLEAN
    /\ planLock \in [Plans -> Runners \cup {NoOne}]
    /\ tenantLock \in Runners \cup {NoOne}
    /\ rpc \in [Runners -> {"idle", "next", "flush", "act", "retry", "tag"}]
    /\ todo \in [Runners -> SUBSET Plans]
    /\ loadedAt \in [Runners -> [Plans -> Nat]]
    /\ cur \in [Runners -> Plans \cup {NoPlan}]
    /\ \A r \in Runners :
        rpc[r] \in {"flush", "act", "retry", "tag"} => cur[r] \in Plans
    /\ mem \in [Runners -> [Plans -> Stored]]
    /\ unflushed \in [Runners -> SUBSET Plans]
    /\ row \in [Runners -> Execs \cup {NoExec}]
    /\ \A r \in Runners : rpc[r] \in {"retry", "tag"} => row[r] \in Execs
    /\ resumes \in [Runners -> BOOLEAN]
    /\ tagged \in [Runners -> SUBSET Execs]
    /\ proposing \in [Proposers -> Kinds \cup {"nothing"}]
    /\ decision \in [Reviewers -> {"nothing", "approved", "rejected"}]
    /\ reviewed \in [Reviewers -> Plans \cup {NoPlan}]
    /\ \A u \in Reviewers : decision[u] # "nothing" => reviewed[u] \in Plans
    /\ approvals \in [Plans -> Nat]
    /\ madeBy \in [Execs -> Runners \cup {NoOne}]
    /\ madeFor \in [Execs -> Plans \cup {NoPlan}]

Init ==
    /\ status = [p \in Plans |-> "absent"]
    /\ kind = [p \in Plans |-> "other"]
    /\ approvedAt = [p \in Plans |-> 0]
    /\ clock = 0
    /\ exec = [e \in Execs |-> IF e \in OldDeadLetters THEN "dead" ELSE "absent"]
    /\ parent = [e \in Execs |-> NoExec]
    /\ paused = FALSE
    /\ planLock = [p \in Plans |-> NoOne]
    /\ tenantLock = NoOne
    /\ rpc = [r \in Runners |-> "idle"]
    /\ todo = [r \in Runners |-> {}]
    /\ loadedAt = [r \in Runners |-> [p \in Plans |-> 0]]
    /\ cur = [r \in Runners |-> NoPlan]
    /\ mem = [r \in Runners |-> [p \in Plans |-> "absent"]]
    /\ unflushed = [r \in Runners |-> {}]
    /\ row = [r \in Runners |-> NoExec]
    /\ resumes = [r \in Runners |-> FALSE]
    /\ tagged = [r \in Runners |-> {}]
    /\ proposing = [u \in Proposers |-> "nothing"]
    /\ decision = [u \in Reviewers |-> "nothing"]
    /\ reviewed = [u \in Reviewers |-> NoPlan]
    /\ approvals = [p \in Plans |-> 0]
    /\ madeBy = [e \in Execs |-> NoOne]
    /\ madeFor = [e \in Execs |-> NoPlan]

-----------------------------------------------------------------------------
(* Requests of users *)

\* get_dispatch_control_recommendations proposes k.  Only the state of this
\* module restricts it: rate limits, deferred retries, SLA breaches and the
\* alert policy, which decide about the rest, are not in it.
Recommended(k) ==
    \/ k = "approval_gated_retry" /\ \E e \in Execs : exec[e] = "dead"
    \/ k = "resume_guard" /\ paused
    \/ k = "other"

\* create_dispatch_automation_plan up to the count of pending plans.
ProposeCheck(u, k) ==
    /\ proposing[u] = "nothing"
    /\ Recommended(k)
    /\ ~ \E p \in Plans : status[p] = "pending_approval" /\ kind[p] = k
    /\ proposing' = [proposing EXCEPT ![u] = k]
    /\ UNCHANGED <<planVars, rowVars, paused, lockVars, runnerVars, decision,
                   reviewed>>

\* The INSERT and the commit.  The foreign key waits for the tenant row.
ProposeInsert(u, p) ==
    /\ proposing[u] # "nothing"
    /\ tenantLock = NoOne
    /\ status[p] = "absent"
    /\ status' = [status EXCEPT ![p] = "pending_approval"]
    /\ kind' = [kind EXCEPT ![p] = proposing[u]]
    /\ proposing' = [proposing EXCEPT ![u] = "nothing"]
    /\ UNCHANGED <<approvedAt, clock, approvals, rowVars, paused, lockVars,
                   runnerVars, decision, reviewed>>

\* approve_ and reject_dispatch_automation_plan up to the test of the status.
DecideCheck(u, p, d) ==
    /\ decision[u] = "nothing"
    /\ status[p] = "pending_approval"
    /\ decision' = [decision EXCEPT ![u] = d]
    /\ reviewed' = [reviewed EXCEPT ![u] = p]
    /\ UNCHANGED <<planVars, rowVars, paused, lockVars, runnerVars, proposing>>

\* Their UPDATE, by primary key only, and the commit.
Decided(u) ==
    /\ decision[u] # "nothing"
    /\ planLock[reviewed[u]] = NoOne
    /\ status' = [status EXCEPT ![reviewed[u]] = decision[u]]
    /\ decision' = [decision EXCEPT ![u] = "nothing"]
    /\ reviewed' = [reviewed EXCEPT ![u] = NoPlan]
    /\ UNCHANGED <<kind, rowVars, paused, lockVars, runnerVars, proposing>>

Approve(u) ==
    /\ decision[u] = "approved"
    /\ Decided(u)
    /\ clock' = clock + 1
    /\ approvedAt' = [approvedAt EXCEPT ![reviewed[u]] = clock']
    /\ approvals' = [approvals EXCEPT ![reviewed[u]] = @ + 1]

Reject(u) ==
    /\ decision[u] = "rejected"
    /\ Decided(u)
    /\ UNCHANGED <<approvedAt, clock, approvals>>

-----------------------------------------------------------------------------
(* The rest of the system *)

\* e is the id the next inserted execution gets.
NextRow(e) ==
    /\ exec[e] = "absent"
    /\ \A x \in Execs : x < e => exec[x] # "absent"

ActiveExecs == {e \in Execs : exec[e] = "active"}

\* A webhook, or the dispatcher's own retry, queues an execution.
Arrive(e) ==
    /\ NextRow(e)
    /\ tenantLock = NoOne
    /\ exec' = [exec EXCEPT ![e] = "active"]
    /\ UNCHANGED <<planVars, parent, madeBy, madeFor, paused, lockVars, runnerVars,
                   userVars>>

\* The dispatcher is through with an execution: dead-lettered, or ended otherwise.
Finish(e, end) ==
    /\ exec[e] = "active"
    /\ \A r \in Runners : e \notin tagged[r]
    /\ exec' = [exec EXCEPT ![e] = end]
    /\ UNCHANGED <<planVars, parent, madeBy, madeFor, paused, lockVars, runnerVars,
                   userVars>>

\* A user retries a dead letter by hand: retry_dead_letter_execution.
ManualRetry(e, s) ==
    /\ NextRow(e)
    /\ exec[s] = "dead"
    /\ tenantLock = NoOne
    /\ Cardinality(ActiveExecs) < ConcurrentLimit
    /\ exec' = [exec EXCEPT ![e] = "active"]
    /\ parent' = [parent EXCEPT ![e] = s]
    /\ UNCHANGED <<planVars, madeBy, madeFor, paused, lockVars, runnerVars, userVars>>

\* pause_workflow_dispatch and resume_workflow_dispatch.  They wait for a runner
\* that has flushed its own change of the workflow.
SetPaused(b) ==
    /\ paused # b
    /\ \A r \in Runners : resumes[r] => rpc[r] = "next"
    /\ paused' = b
    /\ UNCHANGED <<planVars, rowVars, lockVars, runnerVars, userVars>>

-----------------------------------------------------------------------------
(* run_dispatch_automation_plan_worker_once *)

Goto(r, l) == rpc' = [rpc EXCEPT ![r] = l]

\* Mutant of CommitPlans: only the plan in hand is written.
CommitPlanInHand(r) ==
    /\ status' = [p \in Plans |-> IF p = cur[r] /\ planLock[p] = r THEN mem[r][p]
                                 ELSE status[p]]
    /\ planLock' = [p \in Plans |-> IF planLock[p] = r THEN NoOne ELSE planLock[p]]
    /\ tenantLock' = IF tenantLock = r THEN NoOne ELSE tenantLock
    /\ paused' = (paused /\ ~resumes[r])
    /\ resumes' = [resumes EXCEPT ![r] = FALSE]
    /\ tagged' = [tagged EXCEPT ![r] = {}]

\* COMMIT of r's session: its flushed plans, and the execution rows and workflows
\* it has written.  A tagged row gets the input_data the session remembers, so a
\* dead letter's mark is gone.
CommitPlans(r) ==
    /\ status' = [p \in Plans |-> IF planLock[p] = r THEN mem[r][p] ELSE status[p]]
    /\ planLock' = [p \in Plans |-> IF planLock[p] = r THEN NoOne ELSE planLock[p]]
    /\ tenantLock' = IF tenantLock = r THEN NoOne ELSE tenantLock
    /\ paused' = (paused /\ ~resumes[r])
    /\ resumes' = [resumes EXCEPT ![r] = FALSE]
    /\ tagged' = [tagged EXCEPT ![r] = {}]

Untagged(r) ==
    [e \in Execs |-> IF e \in tagged[r] /\ exec[e] = "dead" THEN "ended" ELSE exec[e]]

\* The session has a new status for the plan in hand.
Assign(r, p, st) ==
    /\ mem' = [mem EXCEPT ![r][p] = st]
    /\ unflushed' = [unflushed EXCEPT ![r] = @ \cup {p}]

\* Mutant of Pick: plans that were left executing are taken up again.
PickUnfinished(r) ==
    LET open == {p \in Plans : status[p] \in {"approved", "executing"}} IN
    /\ rpc[r] = "idle"
    /\ open # {}
    /\ todo' = [todo EXCEPT ![r] = open]
    /\ mem' = [mem EXCEPT ![r] =
                  [p \in Plans |-> IF p \in open THEN "approved" ELSE "absent"]]
    /\ Goto(r, "next")
    /\ UNCHANGED <<planVars, rowVars, paused, lockVars, loadedAt, cur, unflushed,
                   row, resumes, tagged, userVars>>

\* The SELECT of the approved plans, the oldest approvals first.
Pick(r) ==
    LET approved == {p \in Plans : status[p] = "approved"}
        oldest == {p \in approved :
            Cardinality({q \in approved : approvedAt[q] < approvedAt[p]}) < PlanLimit}
    IN
    /\ rpc[r] = "idle"
    /\ approved # {}
    /\ todo' = [todo EXCEPT ![r] = oldest]
    /\ loadedAt' = [loadedAt EXCEPT ![r] =
                       [p \in Plans |-> IF p \in oldest THEN approvedAt[p] ELSE 0]]
    /\ mem' = [mem EXCEPT ![r] =
                  [p \in Plans |-> IF p \in oldest THEN "approved" ELSE "absent"]]
    /\ Goto(r, "next")
    /\ UNCHANGED <<planVars, rowVars, paused, lockVars, cur, unflushed, row,
                   resumes, tagged, userVars>>

\* The loop takes the next plan and calls it executing; its flush is next.
Claim(r, p) ==
    /\ rpc[r] = "next"
    /\ p \in todo[r]
    /\ \A q \in todo[r] : loadedAt[r][p] <= loadedAt[r][q]
    /\ mem[r][p] \notin Final \cup {"rejected"}
    /\ todo' = [todo EXCEPT ![r] = @ \ {p}]
    /\ cur' = [cur EXCEPT ![r] = p]
    /\ Assign(r, p, "executing")
    /\ Goto(r, "flush")
    /\ UNCHANGED <<planVars, rowVars, paused, lockVars, loadedAt, row, resumes,
                   tagged, userVars>>

\* The loop is over; what is left of the batch is the commit and its flush.
AtCommit(r) == rpc[r] = "next" /\ todo[r] = {}

\* One UPDATE of a flush: it waits for the row and keeps it.  After the last one
\* of a claim, _execute_plan begins.
FlushRow(r, p) ==
    /\ rpc[r] = "flush" \/ AtCommit(r)
    /\ p \in unflushed[r]
    /\ \A q \in unflushed[r] : p <= q
    /\ planLock[p] \in {NoOne, r}
    /\ planLock' = [planLock EXCEPT ![p] = r]
    /\ unflushed' = [unflushed EXCEPT ![r] = @ \ {p}]
    /\ IF AtCommit(r) \/ unflushed[r] # {p} THEN UNCHANGED rpc ELSE Goto(r, "act")
    /\ UNCHANGED <<planVars, rowVars, paused, tenantLock, todo, loadedAt, cur, mem,
                   row, resumes, tagged, userVars>>

\* _execute_plan has returned (or raised, for failed): the loop goes on.
Settle(r, st) ==
    /\ Assign(r, cur[r], st)
    /\ Goto(r, "next")
    /\ UNCHANGED <<planVars, rowVars, paused, todo, loadedAt, cur, row, userVars>>

-----------------------------------------------------------------------------
(* _execute_plan *)

\* Mutant of Window: the oldest executions instead of the newest.
WindowOldest ==
    LET rows == {e \in Execs : exec[e] # "absent"}
    IN  {e \in rows : Cardinality({x \in rows : x < e}) < ScanWindow}

\* _find_dead_letter_retry_source looks at the newest ScanWindow executions, and
\* takes the oldest dead letter among them that has no child among them.
Window ==
    LET rows == {e \in Execs : exec[e] # "absent"}
    IN  {e \in rows : Cardinality({x \in rows : x > e}) < ScanWindow}

Eligible(r, s) ==
    /\ s \in Window
    /\ Untagged(r)[s] = "dead"
    /\ \A e \in Window : parent[e] # s

RetrySource(r, s) == Eligible(r, s) /\ \A x \in Execs : x < s => ~Eligible(r, x)

\* An unsupported type, a tenant whose dispatch health is not safe (which other
\* components decide), or no dead letter to retry.
Block(r) ==
    /\ rpc[r] = "act"
    /\ kind[cur[r]] = "approval_gated_retry" => \A s \in Execs : ~Eligible(r, s)
    /\ Settle(r, "blocked")
    /\ UNCHANGED <<lockVars, resumes, tagged>>

\* _execute_resume_guard with a safe dispatch health.
ResumeGuard(r) ==
    /\ rpc[r] = "act"
    /\ kind[cur[r]] = "resume_guard"
    /\ resumes' = [resumes EXCEPT ![r] = @ \/ paused]
    /\ Settle(r, "executed")
    /\ UNCHANGED <<lockVars, tagged>>

\* _execute_approval_gated_retry has found its dead letter.
FindSource(r, s) ==
    /\ rpc[r] = "act"
    /\ kind[cur[r]] = "approval_gated_retry"
    /\ RetrySource(r, s)
    /\ row' = [row EXCEPT ![r] = s]
    /\ Goto(r, "retry")
    /\ UNCHANGED <<planVars, rowVars, paused, lockVars, todo, loadedAt, cur, mem,
                   unflushed, resumes, tagged, userVars>>

\* Mutant of RetryRefused: the exception is not an outcome of its own.
RetryRefusedIgnored(r) ==
    /\ rpc[r] = "retry"
    /\ \/ UNCHANGED tenantLock
       \/ tenantLock \in {NoOne, r} /\ tenantLock' = r
    /\ Settle(r, "executed")
    /\ UNCHANGED <<planLock, resumes, tagged>>

\* create_execution raises an HTTPException: before it locks the tenant (workflow
\* deleted, graph invalid) or after that (budget spent, limit reached).
RetryRefused(r) ==
    /\ rpc[r] = "retry"
    /\ \/ UNCHANGED tenantLock
       \/ tenantLock \in {NoOne, r} /\ tenantLock' = r
    /\ Settle(r, "blocked")
    /\ UNCHANGED <<planLock, resumes, tagged>>

\* create_execution inserts the retry and commits all the session has written.
RetryCreated(r, e) ==
    /\ rpc[r] = "retry"
    /\ tenantLock \in {NoOne, r}
    /\ Cardinality(ActiveExecs) < ConcurrentLimit
    /\ NextRow(e)
    /\ CommitPlans(r)
    /\ exec' = [Untagged(r) EXCEPT ![e] = "active"]
    /\ parent' = [parent EXCEPT ![e] = row[r]]
    /\ madeBy' = [madeBy EXCEPT ![e] = r]
    /\ madeFor' = [madeFor EXCEPT ![e] = cur[r]]
    /\ row' = [row EXCEPT ![r] = e]
    /\ Goto(r, "tag")
    /\ UNCHANGED <<kind, approvedAt, clock, approvals, todo, loadedAt, cur, mem,
                   unflushed, userVars>>

\* The plan's id is written into the retry's input_data and flushed.
TagRetry(r) ==
    /\ rpc[r] = "tag"
    /\ tagged' = [tagged EXCEPT ![r] = @ \cup {row[r]}]
    /\ Settle(r, "executed")
    /\ UNCHANGED <<lockVars, resumes>>

\* An exception that leaves the session usable.
PlanFails(r) ==
    /\ Faults
    /\ rpc[r] \in {"act", "retry"}
    /\ Settle(r, "failed")
    /\ UNCHANGED <<lockVars, resumes, tagged>>

-----------------------------------------------------------------------------
(* The end of a batch *)

\* The session and all it remembers are gone.
CloseSession(r) ==
    /\ Goto(r, "idle")
    /\ todo' = [todo EXCEPT ![r] = {}]
    /\ loadedAt' = [loadedAt EXCEPT ![r] = [p \in Plans |-> 0]]
    /\ cur' = [cur EXCEPT ![r] = NoPlan]
    /\ mem' = [mem EXCEPT ![r] = [p \in Plans |-> "absent"]]
    /\ unflushed' = [unflushed EXCEPT ![r] = {}]
    /\ row' = [row EXCEPT ![r] = NoExec]

CommitBatch(r) ==
    /\ AtCommit(r)
    /\ unflushed[r] = {}
    /\ CommitPlans(r)
    /\ exec' = Untagged(r)
    /\ CloseSession(r)
    /\ UNCHANGED <<kind, approvedAt, clock, approvals, parent, madeBy, madeFor,
                   userVars>>

\* The runner whose lock r is waiting for.
WaitsFor(r) ==
    CASE rpc[r] = "retry" /\ tenantLock # r -> tenantLock
      [] (rpc[r] = "flush" \/ AtCommit(r)) /\ \E p \in unflushed[r] :
             (\A q \in unflushed[r] : p <= q) /\ planLock[p] # r ->
             planLock[CHOOSE p \in unflushed[r] : \A q \in unflushed[r] : p <= q]
      [] OTHER -> NoOne

Deadlocked(r) ==
    \E S \in SUBSET Runners : r \in S /\ \A x \in S : WaitsFor(x) \in S

\* The session is rolled back: the database chose it to break a deadlock, or a
\* statement or a commit failed, or the process died.
Abort(r) ==
    /\ rpc[r] # "idle"
    /\ Faults \/ Deadlocked(r)
    /\ planLock' = [p \in Plans |-> IF planLock[p] = r THEN NoOne ELSE planLock[p]]
    /\ tenantLock' = IF tenantLock = r THEN NoOne ELSE tenantLock
    /\ resumes' = [resumes EXCEPT ![r] = FALSE]
    /\ tagged' = [tagged EXCEPT ![r] = {}]
    /\ CloseSession(r)
    /\ UNCHANGED <<planVars, rowVars, paused, userVars>>

-----------------------------------------------------------------------------
(* The specification *)

UserNext ==
    \/ \E u \in Proposers, k \in Proposals : ProposeCheck(u, k)
    \/ \E u \in Proposers, p \in Plans : ProposeInsert(u, p)
    \/ \E u \in Reviewers, p \in Plans, d \in {"approved", "rejected"} :
        DecideCheck(u, p, d)
    \/ \E u \in Reviewers : Approve(u)
    \/ \E u \in Reviewers : Reject(u)

ExecutePlan(r) ==
    \/ Block(r)
    \/ ResumeGuard(r)
    \/ \E s \in Execs : FindSource(r, s)
    \/ RetryRefused(r)
    \/ \E e \in Execs : RetryCreated(r, e)
    \/ TagRetry(r)
    \/ PlanFails(r)

RunnerNext(r) ==
    \/ Pick(r)
    \/ \E p \in Plans : Claim(r, p)
    \/ \E p \in Plans : FlushRow(r, p)
    \/ ExecutePlan(r)
    \/ CommitBatch(r)

OtherNext ==
    \/ \E e \in Execs : Arrive(e)
    \/ \E e \in Execs : Finish(e, "dead")
    \/ \E e \in Execs : Finish(e, "ended")
    \/ \E e, s \in Execs : ManualRetry(e, s)
    \/ \E b \in BOOLEAN : SetPaused(b)

Next ==
    \/ UserNext
    \/ \E r \in Runners : RunnerNext(r)
    \/ \E r \in Runners : Abort(r)
    \/ OtherNext

Spec == Init /\ [][Next]_vars

-----------------------------------------------------------------------------
(* Properties *)

\* The retries r has created for p.
Made(r, p) == {e \in Execs : madeBy[e] = r /\ madeFor[e] = p}

\* A runner creates at most one retry for each time a plan was approved, whatever
\* requests and other runners do in between, and whatever is rolled back: the
\* commit that creates it also takes the plan out of the approved ones.
OncePerApproval ==
    \A r \in Runners, p \in Plans :
        Cardinality(Made(r, p)) <= approvals[p]

\* p may still become a retry of r for an approval that r has not used up.
Entitled(r, p) == Holds(r, p) \/ status[p] = "approved"

\* Every approval pays for the retries made and for the one r is entitled to.
Paid(r, p) ==
    /\ IsFiniteSet(Made(r, p))
    /\ Cardinality(Made(r, p)) <= approvals[p]
    /\ Entitled(r, p) => Cardinality(Made(r, p)) < approvals[p]

\* A session writes a claim or a final status, never an approval.
WritesNoApproval(r, p) ==
    planLock[p] = r \/ p \in unflushed[r] => mem[r][p] \in Final \cup {"executing"}

\* The plan in hand is out of the batch, and locked from its flush to the commit;
\* an idle runner has nothing in hand.
InHand(r) ==
    /\ cur[r] \notin todo[r]
    /\ rpc[r] = "flush" => cur[r] \in unflushed[r] \/ planLock[cur[r]] = r
    /\ rpc[r] \in {"act", "retry"} => planLock[cur[r]] = r
    /\ rpc[r] = "idle" =>
        cur[r] = NoPlan /\ unflushed[r] = {} /\ \A p \in Plans : planLock[p] # r

\* The inductive strengthening of OncePerApproval.
IInv ==
    /\ TypeOK
    /\ \A r \in Runners, p \in Plans : Paid(r, p) /\ WritesNoApproval(r, p)
    /\ \A r \in Runners : InHand(r)

\* No runner retries the same dead letter twice, although the search for the next
\* one has a window: the retry is newer than what it retries.
NoSecondRetryByOneRunner ==
    \A e, f \in Execs :
        /\ madeBy[e] # NoOne
        /\ madeBy[e] = madeBy[f]
        /\ parent[e] = parent[f]
        => e = f

\* A plan that is found executing, by whatever was left behind, or executed has
\* its retry or is a resume guard: the claim is never visible before its effect.
VisibleClaimHasEffect ==
    \A p \in Plans :
        status[p] \in {"executing", "executed"} =>
            \/ kind[p] = "approval_gated_retry" /\ \E e \in Execs : madeFor[e] = p
            \/ kind[p] = "resume_guard" /\ status[p] = "executed"

\* Unless a user does it, the workflows are resumed by the commit that records a
\* guard as executed, so a rollback never leaves one without the other.
ResumeIsRecorded ==
    [][paused /\ ~paused' =>
          \/ UNCHANGED runnerVars
          \/ \E p \in Plans : kind[p] = "resume_guard" /\ status'[p] = "executed"]_vars
=============================================================================
