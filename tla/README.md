# Formal models of the multi-tenant agentic workflow platform

The repository is a platform on which the users of a tenant build workflows of
agents, tools and connectors and run them. A FastAPI backend keeps everything
in PostgreSQL, runs executions in background tasks of the server process, and
has three loops of its own: the webhook dispatcher, the alert evaluator and the
automation scheduler. A React frontend and a small installer complete it.

What can go wrong here seldom goes wrong in one function: it is a status column
with six writers, a budget checked against a row read a minute ago, a lock that
ends with a commit three calls further down. These modules model that part of
the program, and say what holds of it.

## 1. Inventory

| Part | State | Operations | Hard because |
|---|---|---|---|
| Executor, `engine/executor.py` | `executions.status`, `total_tokens`, `execution_logs`, `tenants.tokens_used_this_month`; per process `_active_executions` | `run_execution` and its helpers, `request_cancel` | several unconditional writers of one row; stale tenant row in the identity map; registry per process; no recovery after a crash |
| Execution service and API | the same rows | `create_execution`, `cancel_execution`, `retry_dead_letter_execution` | count and insert are two statements; cancel reads, then writes |
| Webhook ingest, `connector_service.ingest_webhook` | `webhook_events`, `executions` | admission, insert | rate limit counted without a lock |
| Webhook dispatcher and worker | row locks of the scan, `input_data.dispatch` | scan, dispatch, retry, dead-letter | locks end at the first commit of the batch; several processes; scan window |
| Workflow CRUD, agents, tools, connectors | their rows, plan limits | create, update, delete, pause, resume | limits against concurrent creates; soft delete against runs |
| Graph compiler | none (pure) | `validate_definition`, topological order, next node | cycles, missing nodes, fallback order |
| Model calls, tools, connector calls | none | retries, timeouts | external outcomes |
| Automation plans, scheduler | `dispatch_automation_plans`, worker runs, advisory lock | propose, approve, reject, execute | plan rows read without a lock by scheduler and endpoint; commit in the middle of a plan; session lock on a pooled connection |
| Alert evaluator | `dispatch_alert_deliveries` | evaluate, deliver | cooldown read before delivery |
| Analytics | in-memory cache per process | read, fill, invalidate | a fill that started before an invalidation |
| Incident acknowledgements | their rows | acknowledge, resolve | no unique constraint |
| WebSocket stream | subscriber queues per process | subscribe, broadcast, close | final event against subscription |
| Sessions and users | refresh tokens, users, roles | login, refresh, logout, role changes | rotation under concurrent refreshes; last owner |
| Workflow doctor | suggestions, replays | analyse, apply, replay | applies to a definition that has changed |
| Middleware | rate limit windows per process | count, reject | several processes |
| Frontend | React state | hooks, API client, the builder page | refresh with waiting requests, autosave against edits |
| CLI, CI, migrations | files | sequential scripts | nothing concurrent |

How the parts meet. The API and the webhook ingest insert pending executions
under a lock on the tenant row. A background task of the creating process runs
the API's; the dispatchers of all processes compete for the webhooks'. Both call
the same executor, which writes the execution's status, charges the tenant with
a conditional update and asks the in-memory registry of its own process whether
it has been cancelled. The API's cancel writes the row itself if it has read
`pending` and sets the flag in its own process if it has read `running`.

What makes each part correct, in a line: an execution is admitted only within
budget and plan, is run by one worker, ends, and stays ended; a tenant's tokens
never exceed its budget and are those of its executions; a webhook is run or
dead-lettered after its attempts, and none is forgotten; an approved plan acts
once; a cache shows no more than its time to live of the past; a used refresh
token is worthless.

## 2. Modules

| Module | Models | Composed or checked in |
|---|---|---|
| `ExecutionRun` | the writes of `run_execution` from entry to `finally`, `request_cancel`, the death of a process | extended by the next two |
| `ExecutionService` | `create_execution`, the background task, `cancel_execution` | `MCExecutionService` |
| `AdmissionContract` | what the execution subsystem promises a tenant (abstract) | implemented by `ExecutionService` |
| `WebhookDispatcher` | ingest, dispatcher loop, retry policy, dead letters, manual retry, pause and resume | `MCWebhookDispatcher` |
| `AutomationPlans` | proposal, approval, rejection and execution of automation plans | `MCAutomationPlans` |
| `SchedulerLease` | the scheduler of those plans: leader lock, due tenants, back-off, diagnostics | `MCSchedulerLease` |
| `WorkflowGraph` | what a valid definition is, the topological order, the next node (pure) | extended by `WorkflowWalk` |
| `NodeCalls` | an agent's tools and model calls, a connector's request, the HTTP client | extended by `WorkflowWalk` |
| `WorkflowWalk` | one run node by node, its log, its events and its WebSocket listeners | `MCWorkflowWalk` |
| `StreamContract` | the event protocol of the stream (abstract) | implemented by `WorkflowWalk` |
| `Sessions` | registration, login, refresh, logout, password changes, invitations, roles, removals, and the browsers | `MCSessions` |
| `AnalyticsCache` | the query cache of every process | `MCAnalytics` |
| `IncidentAcks` | acknowledging and resolving an incident | `MCAnalytics` |
| `DispatchAlerts` | the alert evaluator and the delivery an operator asks for | `MCAnalytics` |
| `WorkflowCatalog` | workflows, their agents and runs under the plan's limits; deletion | `MCCatalog` |
| `ToolRegistry` | tools with masked secrets | `MCCatalog` |
| `WorkflowDoctor` | diagnosis, replay, application and dismissal of suggestions | `MCCatalog` |
| `WorkflowBuilder` | the builder page: load, draw, save, autosave, run | `MCCatalog` |
| `ExecutionRunProofs`, `ExecutionServiceProofs`, `WebhookProofs`, `AutomationPlansProofs`, `WorkflowWalkProofs`, `SessionsProofs` | theorems about the module of that name | |
| `AnalyticsProofs` | theorems about the cache, acknowledgements, alerts and the scheduler | |
| `CatalogProofs` | theorems about the catalog, the tools, the doctor and the builder | |

`MCAnalytics` and `MCCatalog` put components with disjoint state into one
instance; `focus`, chosen in the initial state, says which of them moves.

**What an action is.** A coroutine can be interrupted at every `await`, and
another database session sees what has been committed. An action is therefore
the code between two points where somebody else can make a difference: a read
whose result is used after an await, and a commit. PostgreSQL runs at READ
COMMITTED, and the session factory has `expire_on_commit=False`, so an object
keeps the attributes it was loaded with, even when the row is selected again.
Three consequences of that are in the models: `seen`, the tenant as the run
remembers it (`RunCheckBudget`); the second read in `cancel_execution`, which
returns what the first one did (`CancelRunning`); and `wroteFailed`, by which
the dispatcher's retry policy judges an execution (`Retryable`). A rollback, on
the other hand, expires every object, and an asynchronous session does not load
an expired attribute on access: it raises. `RunOverrun` and the lost rest of a
batch in `RunWrites` come from there.

**ExecutionRun.** `status` has the column's five values and `absent`. A run is
at one of the `pc` labels: `start` (preflight), `claim` (the conditional update
from pending to running), `loop` (top of the while), `connector`, `checking`
(budget before the call), `calling` (model call and charge), `overrun` (the
charge was refused), `failing`, `cancelling`, `ending` (the `finally`). Nodes are
a queue length `todo`, fixed for a linear workflow and one for a cyclic one;
`iter` counts against `MAX_ITERATIONS`. The kind of a node and the outcome of a
call are free choices. Cost follows the tokens and is left out; so are texts,
logs and WebSocket events.

**ExecutionService.** One tenant. `CreateCheck` and `CreateCommit` are the two
ends of the transaction that holds the tenant row (`tenantLock`); `RunCharge`
updates that row and waits for it. A cancel is `CancelRead` and then
`CancelRunning`, in any process, or `CancelPending`. With `Faults` a statement or
a commit may fail (`RunDbError`, `CreateAbort`) and a process may die.

**WebhookDispatcher.** Execution ids are numbers in order of `created_at`, so the
scan's order is `<`. `rowLock` holds the scan's row locks, released by every
commit of the session; a write of a row another session has locked waits.
`batch` is what the loop still has to look at, without the rows that were not
due when the batch began (it compares with the time at the beginning). The
insert of a retry waits for the tenant row, because of its foreign key.

**AutomationPlans.** One tenant. A runner is a session inside
`run_dispatch_automation_plan_worker_once`; the scheduler's leader lock does not
keep the endpoint out, so several run. The database has two views here: `status`
is what is committed, `mem[r]` what session `r` has assigned, `unflushed[r]` what
of that it has not sent. A flush sends one `UPDATE` per changed plan in the order
of primary keys (`FlushRow`); each takes the row's lock, `planLock`, until the
session's next commit. That commit is the end of the batch (`CommitBatch`), or
comes earlier: `create_execution`, called for a retry, commits the session it is
given (`RetryCreated`), and with the new execution the claim and everything the
batch has done so far. `Pick` reads the approved plans without a lock and keeps
the objects, so a plan in `todo` may be executed by somebody else in the meantime.
A request of a user is a check (`ProposeCheck`, `DecideCheck`) and an update by
primary key (`ProposeInsert`, `Approve`, `Reject`). Webhooks, their ends, manual
retries and pauses appear as far as they change what a plan's execution reads
(`Arrive`, `Finish`, `ManualRetry`, `SetPaused`). Whether dispatch health is safe
is a free choice. `Abort` is a rollback, a crash, or PostgreSQL's choice of a
victim among sessions that wait for each other.

**SchedulerLease.** A process has a pool of connections, and its session takes any
idle one for each transaction, so the connection that runs `pg_try_advisory_lock`
(`TryLock`) is not the one a later commit or the unlock (`Release`) goes to.
`holder` and `depth` are PostgreSQL's view of the lock: it belongs to a connection
and is counted. `RunCommits`, `Record` and `RecordFails` are the commits of one
tenant's run; `Abandon` is a failed statement, after which the pool may
close the connection (`Return`), and `Die` the death of a process. Time is relative: `Advance` ages the
last runs, and `read` is the configuration a server has loaded. `SkipReason` and
`DiagnosedReason` are the code's two copies of the skip rule, and `Fleet` its third.

**WorkflowGraph, NodeCalls, WorkflowWalk.** The graph's operators are those of
`compiler.py` and `executor.py`, with the code's own quirks: edges count twice in
the in-degree when they are given twice, nodes on a cycle are left to the fallback, a node
given twice passes the validation and is refused by LangGraph's `add_node`,
and an action is always `llm_call` or `connector_call`. Loops are recursive functions of
the number of rounds (`Taken`, `Round`, `KahnStart`, `Kahn`), and `Keep` filters a sequence;
both are there to be reasoned about. `Queues` is the first queue of every definition,
a table that TLC fills once. `InOrder` and `IsPath` are
the reference definitions that the walk is compared with. `NodeCalls` counts tools, tries and chunks;
what a remote side does is a free choice. `WorkflowWalk` has one label per place
where `run_execution` waits; a commit and the broadcast after it are separate where the code awaits
between them. Each listener has the queue `subscribe_ws` gave it; a handler that is
sending (`Sends`), idle (`Pings`) or gone (`Leaves`) is the loop of `execution_stream`.

**Sessions.** Two browsers with a cookie jar each, requests under way between them
and the service, and the tables `users` and `refresh_tokens`. A request's `at` is the
point up to which its coroutine has run: a check, a select, a commit, an answer.
`muddled` are browsers whose jar cannot be told any more (a lost answer, two requests at once);
`raced` are sessions being issued while a password was changing. Both are history, no
guard reads them.

**AnalyticsCache, IncidentAcks, DispatchAlerts.** A query's result is the number of
commits it has seen. `raced` marks an entry whose query was under way during an
invalidation. An acknowledgement is a read of the alerts, a look for an open row, and
a write; the unit of work leaves unchanged columns out of the update, which is why a
resolved row stays resolved. In `DispatchAlerts` a caller goes through tenants,
routes and alerts; its audit rows are its own until the commit at the end of a tenant.

**WorkflowCatalog, ToolRegistry, WorkflowDoctor.** A request is a read, possibly
under the tenant's row lock, and a commit. `strays` are runs whose creation
overlapped the deletion of their workflow; `removed` are tools whose secret header
a client has taken away; `overlap` and `doubled` are suggestions and executions on
which two requests overlapped. The doctor's transaction writes only the columns that
differ from what it has read (`Written`).

**WorkflowBuilder.** One page of the builder, opened any number of times, the saves it has
sent, and other users who write the same row. A React action stands for the rendering and
the effects after it, except that `isSavingRef`, which `handleSave` looks at, follows
`isSaving` in an effect of its own (`FollowsSaving`). A save is sent, stored or refused,
and answered, or its answer is lost; a page that is left forgets its saves (`ours`), the
server does not. `overtaken` is history: since the last save that was confirmed, a
change, another save or a run came while a save was under way, or somebody else saved.

## 3. Runs

| Run | Instance | Shows |
|---|---|---|
| `execution_admission` | 2 executions on 2 processes, 1 slot, 1 cancel, faults | the plan's limit holds, finished stays finished, only a cancel detaches a live run from its slot, and the service implements `AdmissionContract` |
| `execution_liveness` | 2 executions on 1 process, 2 slots, budget 3, charges of 1 or 2, 1 cancel, fairness, no faults | every accepted execution ends; until then its slot has a worker; budget and ledger |
| `webhook_dispatch` | 2 dispatchers, 3 executions, 2 attempts, backlog 2, errors and crashes | retry chains, dead letters, one runner per execution |
| `webhook_liveness` | 1 dispatcher, 4 executions, 2 workflows, window 4, fairness | no eligible execution waits for ever |
| `automation_plans` | 2 runners, 2 plans of two types, 2 old dead letters, 1 reviewer, faults | a claim is visible only with its effect; a resume only with its record |
| `automation_rearmed` | 2 runners, 1 plan, 2 reviewers, 4 executions, scan window 2, faults | one retry per approval and runner; no runner retries a dead letter twice |
| `scheduler` | 2 processes with 2 and 1 connections, 2 tenants, interval 1, back-off 2, faults | one evaluation at a time unless the pool closed the locked connection; runs keep interval and back-off; the diagnostics are true |
| `sessions` | 2 addresses, 2 browsers, 2 requests under way, 3 tokens, lost answers, expiry | one owner per team, a password change ends the sessions, none is left to a removed user, an undisturbed browser's jar is its session |
| `workflow_walk` | 42 definitions of up to 3 nodes and 3 edges, linear and cyclic; 1 tool, 2 tries, 1 chunk, 1 listener, 1 cancel, database errors, fairness | order of nodes, log before event, true final event, the stream's contract, every listener's handler ends |
| `analytics` | cache: 2 processes, 2 readers, 3 commits; acknowledgements: 2 clerks, 2 incidents, 3 rows; alerts: 2 tenants, 3 routes over 2 channels of which one may be unusable, an evaluator and an operator, fairness | what is stale was being computed during an invalidation; posts keep their cooldown but for overlapping callers; resolved stays resolved; an alert is posted again and again |
| `catalog` | catalog: 2 workflows, 2 nodes, 2 editors, limits 1 and 1; tools: 2 tools, 2 names, 2 clients; doctor: 1 agent, 2 models, 2 requests, 2 suggestions; builder: 2 drawings, 2 saves under way | limits, deletion, masks, one retry and one open suggestion, settled is final, the builder loses nothing silently |
| `cancel_overwrites_result` | as small as shows it | where the code departs from what the repository says (section 6) |

**Bounds.** Two executions are enough for every race between creators, runs and
a cancel, since each of the conflicts is between two writers of one row or of the
tenant; three or four webhook executions give a first attempt, its retry, and a
manual retry or a neighbour. Budget 3 with charges of 1 and 2 lets two stale
readings both pass the check before the call and only one charge through.
`MaxIterations` 2 is reached by a cyclic run. `LastAdmitted` keeps ids free for
automatic retries. With two processes a cancel can arrive where the run is not.
Two runners with two plans each can hold one and wait for the other, and a commit
in the middle of a batch has a plan before it and one after it; two reviewers of
one plan can approve it twice. Four executions with a window of two push the dead
letters, or the retry of one, out of the search; the second run has only one plan
because two plans, two reviewers and four executions together are too many states.
In `scheduler` one pool has a connection to spare, so that an evaluation can use one
while the other has the lock, and `TenantLimit` 1 leaves a second due tenant for
later. Three tokens are a session, its successor and somebody else's; two requests
under way give every overlap of two operations of one or of two accounts. Three
nodes are enough for a double edge, a loop, a node behind a cycle, a choice of two
edges and the iteration limit 3; `MaxRetries` 2 has a retry that succeeds and one
that exhausts the tries. Three commits let an invalidation come between two queries. Two
suggestions are one and the one a forced diagnosis puts in its place. Two drawings are
enough to tell what is stored from what is shown, and two saves to overlap. The limits of the catalog
are 1 so that two requests already compete. All counters are bounded by these
constants; no state constraint is used. Deadlock is not checked where a finite set
of executions, tokens or runs that has come to its end is legitimate.

**Fairness.** `RunStep` and `CreateCommit` are weakly fair: the event loop runs
every ready coroutine, model and connector calls have timeouts, and a request
that has passed its checks commits. `DispatcherStep` is: the worker's loop
catches every exception and sleeps a bounded time. `BecomeDue` is: clocks advance.
In the walk the steps of the run, of its calls (each read has a timeout, and a response is
cut off at its limit) and of the stream's handler are weakly fair; a listener is
free to leave. In the alerts each caller's steps are, and the cooldown is not assumed
to end. Nothing is assumed of users (cancel, pause, resume, retry) or of ingests, and
the other runs have no fairness: a process that stops is among their behaviours.
The liveness runs of executions and webhooks are without faults, since the code has
no recovery: a crash leaves `pending` and `running` rows that nobody ends
(`SlotHasWorker` says how much depends on that). `workflow_walk` has database faults,
and `StreamEnds` names the two endings that tell nobody.

## 4. Proofs

For every number of executions, cancels and processes, every budget, plan limit
and token count, TLAPS proves of `ExecutionService` (faults included):

- `TypeCorrect`, `BudgetSafe`, `ConcurrencySafe`: `TypeOK`, `BudgetRespected`,
  `ConcurrencyCapped` are invariants;
- `LiveRunSafe`: `LiveRunHoldsSlot` is an invariant;
- `SlotsHaveWorkers`: `SlotHasWorker` is an invariant;
- `NoResurrectionHolds`: the action property `NoResurrection`;
- `LedgerAlwaysBalanced`: `LedgerBalanced` is an invariant;
- `ContractImplemented`: `Spec` implies `AdmissionContract`'s specification under
  the mapping `phaseOf` (absent, open, closed), `total`, `used`.

The assumptions are `RunAssumption` and `ServiceAssumption`: the types of the
constants, that `NoExec` is no execution, and that each execution has its own
worker.

The argument. `ConcurrencyCapped` is not inductive: at the commit of a create it
depends on a count made earlier. `IInv` adds `AdmissionLocked`, what was checked
under the tenant lock is still true while it is held, which needs that charges
wait for the lock and that no write of a status makes an inactive row active.
The latter is `RowWrite`, the lemma at the centre: every step of a worker, of a
cancel or of a crash either writes no status, or takes one row from pending to
running, or takes one existing row to a final status. That needs
`WritersHaveRows`, whoever is about to write a row by its id has seen it, and
`OwnExecution`. `ExecutionRunProofs` shows it once for each step of a run;
`ExecutionServiceProofs` adds the requests. The budget needs only that the
charge's own update is conditional (`ChargeBooksOnce`); the check before the
call plays no part, which is as it must be, since it is stale. The refinement
follows from `StepKinds`: every step is an admission under the checks, a charge,
or one row's write with the ledger untouched. `LiveRunHoldsSlot` is inductive
together with `IInv`. `SlotHasWorker` needs what each label of a run implies of its row
(`RunsMatchRows`): without faults, the worker of a pending row has not claimed it, and
that of a running row is between its claim and its last write. `LedgerBalanced` compares the
team's total with what the executions carry. The sum is stated as the size of a set, `Booked`, one
pair for every token of every execution, so that it needs no induction over the executions:
`ChargeAddsTokens` says that a charge adds as many pairs as it charges, and
`StepKinds` that nothing else touches the tokens.

Of `WebhookDispatcher`, for any ids, dispatchers, attempts and scan window, with
faults: `DispatcherTypeCorrect` (`TypeOK`), `SingleRunnerHolds`,
`DeadLetterIsExhaustedHolds`, `RetryChainHolds`. The lemmas about a run are those of
`ExecutionRunProofs`; `WorkerStepOwns` is the one that `SingleRunner` turns on: a worker
gets to the nodes only through the conditional update from pending, so the scan's
row locks, which the first commit of a batch gives up, are not what keeps a second
runner out. The others are about what a session remembers.
`Believed`: if it remembers a failure, the row says so too, or its owner has ended it
otherwise and has left no log that allows a retry. `LogsAreLast`: whoever leaves such a log is
through with the row. `RetriedIsLogged`: what was retried has one. `InOrderOfId`: ids are given in
order, and whoever has the tenant row has the next. No part speaks of the scan's row
locks, so a dispatcher with an old batch is covered.

Of `AutomationPlans`, for any number of plans, executions, runners and requests,
with faults: `PlansTypeCorrect` (`TypeOK`) and `OncePerApprovalHolds`
(`OncePerApproval`), under `PlansAssumption`, which types the constants. A retry is
not counted where the plan is read, and a runner may hold a stale plan while others
approve it again, so the bound on retries needs what is owed: `Paid` says that the
approvals exceed the retries a runner has made as long as that runner still holds
the plan as approved or the row says so. Preserving it at the commit of a retry
needs that the commit really takes the plan out of the approved ones: `InHand`,
the plan in hand is locked by its session, and `WritesNoApproval`, no session ever
writes `approved` over it.

`VisibleClaimHasEffectHolds`, `NoSecondRetryHolds` and `ResumeIsRecordedHolds` stand on a
second invariant, `EInv`, over the first. Each runner's session has one clause for
what it remembers of a plan against the row (`Remembers`), one for the retries it has
made (`Retries`) and one for the guards it commits with the workflows it resumes (`Guards`);
`RowsInOrder` says that ids are given
out in order, which is what makes a dead letter outside the scan window stay outside.
`HistoryAssumption` says that the dead letters from before have the first ids.

Of `SchedulerLease`, for any servers, pools, tenants and intervals, with faults:
`LeaseTypeCorrect`, `OneEvaluationHolds`, `RunsAreSpacedHolds`. `OneEvaluation` says
nothing of the lock; it is inductive with `LeaderHasLock` (the lock is with some
connection of the evaluating process, seldom the one in use) and `LockCounted`
(`IInv`), and `RunsAreSpaced` follows on top of it, because nobody else records a run.
`DiagnosticsAlwaysAgree` is the lemma `OneRule`: the two copies of the skip rule are the
same function of configuration, last run and elapsed time, whatever these are.

Of `Sessions`, for any users, tokens, browsers and requests: `SessionsTypeCorrect`,
`OneOwnerAlways`, `PasswordChangeEndsAllSessions`, `SessionsAlwaysHaveUsers`. One
invariant carries all four. `Teams`: a tenant is named after the user that registered
it, who owns it, and no other member does. `RequestsFit` says what a request
in each of its steps may rely on (`Fits`): what it has read was true of the account when
it read it, and which part of it cannot have changed. `IssuedToUsers` ties a token to
an account that has been there. `JarAlwaysHoldsTheSession` adds `BrowsersTrack`: a browser that is not muddled
has one request under way at most, and its only live session is the one in its jar or,
from a rotation until the answer, the one the request will answer with.

Of the analytics service: `CacheTypeCorrect` and `CacheStaleOnlyByRace`, inductive with
`KnownIsCommitted` and `FreshUnlessRaced` (a query under way has seen what its process
knew, or raced); `AcksTypeCorrect` and `AcksStayResolved`, from `ClerkIsInformed` (the row a
request holds exists and has its key) and `ResolvedHasResolver`. Of the alert evaluator,
`AlertsTypeCorrect` and `PostsAlwaysSpaced`. A caller's audit rows are nobody else's business until its
commit, so two callers may post the same notice; what holds is that the posts that left
a row, or still may, are no more than the callers. `NoticeSpaced` weighs, for each notice,
the posts against the callers whose post is not committed (`Holders`) and those that
have found it due and not yet posted it (`Posters`): nobody is both (`DueIsNew`), outside
the cooldown exactly the holders' posts count (`HeldAreCounted`), and every poster has room
for one more (`RoomToPost`).

Of the catalog: `CatalogTypeCorrect`, `PlanLimitsAlwaysHold`, `DeletedIsAlwaysIdle`, with
`EditorKnows`, what a request has counted under the lock is still so while it has
it. Of the tools: `ToolTypeCorrect`, `MaskAlwaysNeedsRemoval`, with `ClientsKnow`. Of the
doctor: `DoctorTypeCorrect`, `RetriedAtMostOnce`, `OneSuggestionIsOpen`,
`SettledStaysFinal`, with `ReadsFit` and `ReadsHold` (what a request has read of a
suggestion is still its status, unless requests overlapped on it), `RetriesFit` (a
suggestion that has a retry is applied) and `OpenIsUnique`. Of the builder:
`NothingIsEverLostSilently`, with `SavesFit`: an open page has no save but one that is alone and
carries what is drawn, or it knows that it was overtaken.

Of `WorkflowWalk`, for any definition, limits and listeners, with database faults:
`WalkTypeCorrect` (`TypeOK`), `ToldStepsAreAlwaysLogged`, `FinalEventIsAlwaysTrue`,
`CyclicRunsAreBounded`, and `StreamImplemented`: `Spec` implies `StreamContract` under the
mapping `ImplementsStream` names. The invariant, `WalkInv`, has `CallFits` (what the call of a node has
under way, at each label), `LogFollows` (the log is the steps so far, and is behind by one
only where a step is being written), `StepsBounded`, `VerdictIsTrue` (the status a
run is about to announce is the one it has committed), `StreamFits` (the last event sent, by the place the run has reached)
and `EventsHold` (every event a listener has in its queue or has been sent is true of the state it
is heard in: the log has its step, the verdict is its status). The refinement has one step per action: each
broadcast is an event of the contract, every other step a stutter.

`NodesAlwaysRunInOrder` (`NodesRunInOrder`) needs the topological order itself, for every
definition. `TopologicalSortSorts` says what `_topological_sort` computes: no node
twice, every node after all the nodes with an edge to it, and what it leaves out
is exactly what a cycle holds up (`Stuck`, the reference definition). The library's induction
theorems are out of the provers' reach, so `LeastNumber` takes their place: a nonempty set of
naturals has a least member, and `UpTo` and `Induction` follow in terms of sets. Each
recursive function is first shown to be one (`KeepIsDefined`, `RoundIsDefined`, `KahnIsDefined`);
then `SortedSoFar` (what has been taken is in order) and `Counted` (an in-degree is the number of edges
whose source has not been taken) hold after every round. The queue runs dry because no node
is taken twice and there are finitely many (`OnceCounts`). A node that is left out has an edge from
another one that is (`LeftAreStuck`). `OrderInv` carries this into the run: what has run
followed by what is still queued is in order or, in a cyclic run, a path of the graph
(`NextNodeFollows`), and a linear run that completes has run every node.

The assumptions are the named `ASSUME`s of the modules: types of the constants,
distinct names for distinct things, finite sets where they are counted. Several say
that a "no such thing" constant is not a value of the type it stands beside; without
them a type invariant would not tell a row from its absence.

`WalkAssumption` says of a definition only that its nodes and edges are lists.

Only model-checked: the liveness properties `EveryExecutionEnds`, `NoStarvation`,
`StreamEnds`, `AlertsAreSent`, which need fairness and ENABLED, and `OnlyActiveIsCancelled`, which
the code violates (section 6). Every safety property that a passing run checks has a
theorem.

## 5. Not modelled

Read-only endpoints (lists, exports, logs, the aggregate queries of analytics and its
reports), the texts of errors and events, cost,
the content of messages and outputs. In the webhook module: executions of the
API, which share the scan window with the webhooks' and make starvation only
worse, and the API's cancel, which is in `ExecutionService`; the trigger's rate
limit. In the automation module: the result and the audit row of a run, row locks
on workflows between two runners, the computation of dispatch health. Validation
of URLs, SQL and file paths, encryption and hashing: pure functions that decide
between refusal and success, which are free choices where they matter.
`update_workflow`'s name and description and the other fields of an agent, whose last
writer wins.
Provider, tool and connector I/O: their outcomes are free choices. The middleware's
rate limit, a window per process and address. The
frontend's rendering and its other hooks; of the builder, undo and redo as such and the
agents behind its nodes; of the API client, the cookie jar and the
refresh are in `Sessions`. Schemas, configuration, migrations, CI and the installer: no
behaviour between two actors. `PROJECT.json` lists every part with its reason.

## 6. Where code and repository disagree

With a run that shows it:

- `cancel_overwrites_result`: `cancel_execution` reads `pending`, and its write
  may follow the run's own final status: a completed execution becomes cancelled.

Seen while modelling, without a run.

*Executions and webhooks.* A refused charge is rolled back and the row set to
cancelled; the next line (`executor.py:596`) reads an attribute the rollback has
expired, and the exception handler sets the row to failed (`TECH_SPEC.md:423` says
cancelled). A pending cancel may be written after the claim, where no flag is set: the
run goes on under a cancelled row and charges tokens, and its slot is free for another
(`LiveRunHoldsSlot` says that nothing but a cancel does this). A cancel flag set
during the last node is never read, so the execution completes (`TECH_SPEC.md` says
the flag is checked after every step). The dispatcher's scan takes the oldest pending
rows and drops paused and deferred ones afterwards (`webhook_dispatcher_service.py:102`):
when they fill the window, nothing behind them is ever dispatched; `NoStarvation` is
checked with a window that holds them all. A run that fails before its claim writes `failed` over the row of
whoever has claimed it, and two dispatchers schedule a retry (line 195). An automatic
retry is inserted without the backlog check. The 409 of the second read in
`cancel_execution` cannot happen. The trigger's rate limit is counted before the
tenant's row is locked (`connector_service.py:453`), so concurrent ingests pass it together.

*Automation.* Two callers that have read the same approved plan each create a retry
for it, since the commit in the middle of the first one's batch releases the row the
second is waiting for; so does a second approval that was checked before the plan was
executed and written afterwards; what holds is `OncePerApproval`, for each runner. Two
runners may deadlock in the database; PostgreSQL aborts one, whose batch is rolled back
(`Deadlocked`). A plan whose claim was committed by its retry, and whose runner then
dies, stays `executing` for good. The scheduler's unlock goes to whatever connection the session has
(`dispatch_automation_worker_scheduler.py:51`); where that is not the one with the
lock, the lock stays with an idle connection of the pool after the evaluation
(`M12_DISPATCH_CONTROLS_SPEC.md:851` says it must not).

*Runs and their stream.* Only the conditions `default`, `llm_call` and
`connector_call` can match, since an agent's result has no other action and no
reasoning. A failed agent's step leaves no log row (`TECH_SPEC.md:424`: "cancel step, log error").
A run whose claim is refused, or whose failure cannot be written, ends without
`execution_complete`, and listeners get pings for ever; so does one that subscribes
after the end. Timeouts are per read, not per request.

*Sessions.* A user who has ever signed in cannot be removed: the ORM sets `user_id` of
the tokens to null, the column forbids it, and the request is a 500 where
`TECH_SPEC.md:66` says 204. A password change by `PUT /me` leaves the browser its old
cookie, whose next use is taken for a theft and revokes the sessions issued since. Two
tabs that refresh with the same cookie end with two successors or with none. A refresh
under way survives a logout.

*Analytics.* Two overlapping acknowledgements insert two open rows, and every later
request for the incident raises (`scalar_one_or_none`). An acknowledged incident
cannot be resolved once dispatch is quiet, and its row is found again when it is not. A second
resolution takes the place of the first. Overlapping callers post an alert each; an
exception after a post loses the audit rows of the tenant, so that the post is repeated
with every tick; a channel that raises starves the tenants behind it, and tenants past the limit are never
evaluated; a failed delivery counts for the cooldown. An invalidation reaches its own
process only.

*Catalog and doctor.* A deletion that counted before a run was inserted leaves a
pending run of a deleted workflow. A masked header that is sent back after another
client removed it is stored as the mask. The doctor's retry passes no budget or
concurrency check, and one without a webhook's input is never dispatched: it is pending
for good, holds a slot and blocks the deletion. `apply` needs no passed replay
(`M8_WORKFLOW_DOCTOR_SPEC.md:327`). Its patch goes to the first agent in the log, not to the one that
failed; with several invalid models and no log it raises. Two overlapping applications create
two retries, and a replay that began earlier can set an applied suggestion back. A
forced diagnosis dismisses replayed suggestions too (`M8_WORKFLOW_DOCTOR_SPEC.md:232` names proposed ones).

*Builder.* A change made while a save is under way is shown as saved when the answer comes,
and the timer then finds nothing to do; a run started while a save is under way does not
wait for it, and drops what was drawn since. Loading the workflow counts as a change, so
opening the page saves the workflow again two seconds later, over what somebody else saved meanwhile, and
without the conditions of its edges, which the page neither loads nor sends.

## 7. Plan

Done: every module of section 2 with its runs, and a proof of every safety property that the
passing runs check. What would come next:

1. Abstract specifications of a webhook as a job that is run at most a fixed number of
   times, of a session family as one live token and of the plan's limits as a counter,
   each with its refinement proved.
2. The builder's undo stacks against the agents of its nodes; the ingest's and the
   middleware's rate limits.
