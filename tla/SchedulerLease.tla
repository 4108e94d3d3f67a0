---------------------------- MODULE SchedulerLease -----------------------------
(***************************************************************************)
(* The automation scheduler: every server process evaluates the tenants    *)
(* whose automation is due, one process at a time, as a PostgreSQL         *)
(* advisory lock decides.  The lock belongs to a connection of the pool,   *)
(* while an evaluation is a session that gives its connection back with    *)
(* every commit and takes any idle one for the next statement.             *)
(*                                                                         *)
(* Times are relative: age[t] is the time since the last scheduled run of  *)
(* t was recorded, since[p] the time since p's evaluation read the clock.  *)
(***************************************************************************)
EXTENDS Integers, FiniteSets

CONSTANTS
    Processes,
    Conns,              \* database connections
    ConnsOf,            \* those in the pool of a process
    Tenants,            \* numbers, in the order of created_at
    Intervals,          \* values of interval_minutes
    FailedBackoff,      \* FAILED_RUN_BACKOFF_MINUTES
    TenantLimit,        \* tenants run in one evaluation
    MaxEvaluation,      \* bound: how long an evaluation takes
    MaxDepth,           \* bound: how often the lock is taken without a release
    Faults,             \* whether statements fail and processes die
    NoConn

Waits == Intervals \cup {FailedBackoff}

ASSUME LeaseAssumption ==
    /\ ConnsOf \in [Processes -> SUBSET Conns]
    /\ \A p, q \in Processes : p # q => ConnsOf[p] \cap ConnsOf[q] = {}
    /\ NoConn \notin Conns
    /\ Tenants \subseteq Nat \ {0}
    /\ Intervals # {}
    /\ Waits \subseteq Nat
    /\ {TenantLimit, MaxEvaluation, MaxDepth} \subseteq Nat
    /\ Faults \in BOOLEAN

VARIABLES
    config,     \* tenants.dispatch_automation_worker_config, as committed
    latest,     \* the last scheduled run: none, completed or failed
    age,        \* how long ago that was
    holder,     \* the connection that has the advisory lock
    depth,      \* how often: a session-level lock is counted
    lost,       \* history: the pool has closed the connection that had it
    pc,         \* where the evaluation of a process is
    conn,       \* the connection of its open transaction
    read,       \* the configurations its session has loaded
    cur,        \* the tenant at hand
    ran,        \* tenants it has run (report.tenants_due)
    since

tenantVars == <<config, latest, age>>
lockVars   == <<holder, depth, lost>>
evalVars   == <<pc, conn, read, cur, ran, since>>
vars == <<tenantVars, lockVars, evalVars>>

Configs == [enabled : BOOLEAN, interval : Intervals]
Working == {"run", "record", "failed"}

\* A session that has loaded nothing.
Unread == [t \in Tenants |-> CHOOSE cfg \in Configs : TRUE]

\* Beyond this age every tenant is due, whatever its configuration.
OldAge == (CHOOSE w \in Waits : \A v \in Waits : v <= w) + MaxEvaluation

\* Columns, lock and sessions keep their types, and a running evaluation has a
\* tenant in hand.
TypeOK ==
    /\ config \in [Tenants -> Configs]
    /\ latest \in [Tenants -> {"none", "completed", "failed"}]
    /\ age \in [Tenants -> Nat]
    /\ holder \in Conns \cup {NoConn}
    /\ depth \in Nat
    /\ lost \in BOOLEAN
    /\ pc \in [Processes -> {"idle", "scan", "release"} \cup Working]
    /\ conn \in [Processes -> Conns \cup {NoConn}]
    /\ \A p \in Processes : conn[p] \in ConnsOf[p] \cup {NoConn}
    /\ read \in [Processes -> [Tenants -> Configs]]
    /\ cur \in [Processes -> Nat]
    /\ \A p \in Processes : pc[p] \in Working => cur[p] \in Tenants
    /\ ran \in [Processes -> Nat]
    /\ since \in [Processes -> Nat]

Init ==
    /\ config \in [Tenants -> Configs]
    /\ latest = [t \in Tenants |-> "none"]
    /\ age = [t \in Tenants |-> 0]
    /\ holder = NoConn
    /\ depth = 0
    /\ lost = FALSE
    /\ pc = [p \in Processes |-> "idle"]
    /\ conn = [p \in Processes |-> NoConn]
    /\ read = [p \in Processes |-> Unread]
    /\ cur = [p \in Processes |-> 0]
    /\ ran = [p \in Processes |-> 0]
    /\ since = [p \in Processes |-> 0]

-----------------------------------------------------------------------------
(* When a tenant is due.  The scheduler and the diagnostics of the API       *)
(* decide it in code of their own.                                           *)

\* Mutant of SkipReason: a failed run waits no longer than another.
SkipReasonNoBackoff(cfg, run, elapsed) ==
    CASE ~cfg.enabled -> "tenant_disabled"
      [] cfg.enabled /\ (run = "none" \/ elapsed >= cfg.interval) -> "due"
      [] OTHER -> IF run = "failed" THEN "backoff" ELSE "interval"

\* _tenant_schedule_due_state, with elapsed = now - latest_run.created_at.
SkipReason(cfg, run, elapsed) ==
    LET wait == IF run = "failed" /\ FailedBackoff > cfg.interval
                THEN FailedBackoff ELSE cfg.interval
    IN  CASE ~cfg.enabled -> "tenant_disabled"
          [] cfg.enabled /\ (run = "none" \/ elapsed >= wait) -> "due"
          [] OTHER -> IF run = "failed" THEN "backoff" ELSE "interval"

\* _automation_worker_due_state: a failed run has a branch of its own.
DiagnosedReason(cfg, run, elapsed) ==
    CASE ~cfg.enabled -> "tenant_disabled"
      [] cfg.enabled /\ run = "none" -> "due"
      [] cfg.enabled /\ run = "failed" ->
            IF elapsed < cfg.interval \/ elapsed < FailedBackoff
            THEN "backoff" ELSE "due"
      [] OTHER -> IF elapsed < cfg.interval THEN "interval" ELSE "due"

\* inspect_dispatch_automation_scheduler_fleet: the tenants a snapshot counts
\* under a reason.
Fleet(reason) ==
    {t \in Tenants : SkipReason(config[t], latest[t], age[t]) = reason}

-----------------------------------------------------------------------------
(* Connections and the lock *)

\* A connection goes back to the pool.  One more than the pool keeps is closed,
\* and a closed connection has no locks; another is opened when it is needed.
Return(c) ==
    \/ UNCHANGED lockVars
    \/ holder = c /\ holder' = NoConn /\ depth' = 0 /\ lost' = TRUE

\* pg_try_advisory_lock on c: it succeeds again where it is held.
Lock(c) ==
    /\ holder \in {NoConn, c}
    /\ depth < MaxDepth
    /\ holder' = c
    /\ depth' = depth + 1
    /\ UNCHANGED lost

\* pg_advisory_unlock on c: a warning if another connection has the lock.
Unlock(c) ==
    IF holder = c
    THEN /\ depth' = depth - 1
         /\ holder' = IF depth = 1 THEN NoConn ELSE holder
         /\ UNCHANGED lost
    ELSE UNCHANGED lockVars

Goto(p, l) == pc' = [pc EXCEPT ![p] = l]

\* The session is closed.
Close(p) ==
    /\ Goto(p, "idle")
    /\ conn' = [conn EXCEPT ![p] = NoConn]
    /\ read' = [read EXCEPT ![p] = Unread]
    /\ cur' = [cur EXCEPT ![p] = 0]
    /\ ran' = [ran EXCEPT ![p] = 0]
    /\ since' = [since EXCEPT ![p] = 0]

-----------------------------------------------------------------------------
(* evaluate_dispatch_automation_workers_for_tenants *)

\* Mutant of TryLock: the answer of the database is not looked at.
TryLockIgnored(p, c) ==
    /\ pc[p] = "idle"
    /\ c \in ConnsOf[p]
    /\ IF holder \in {NoConn, c} THEN holder' = c /\ depth' = depth + 1
                                 ELSE UNCHANGED <<holder, depth>>
    /\ Goto(p, "scan")
    /\ conn' = [conn EXCEPT ![p] = c]
    /\ read' = [read EXCEPT ![p] = config]
    /\ UNCHANGED <<tenantVars, lost, cur, ran, since>>

\* run_once: the clock is read, the lock is tried on some idle connection and
\* the tenants are loaded; their configurations stay as they are now.  Without
\* the lock nothing happens.
TryLock(p, c) ==
    /\ pc[p] = "idle"
    /\ c \in ConnsOf[p]
    /\ Lock(c)
    /\ Goto(p, "scan")
    /\ conn' = [conn EXCEPT ![p] = c]
    /\ read' = [read EXCEPT ![p] = config]
    /\ UNCHANGED <<tenantVars, cur, ran, since>>

\* The tenants the loop has not come to.
Ahead(p) == {t \in Tenants : t > cur[p]}

Due(p, t) ==
    SkipReason(read[p][t], latest[t], age[t] - since[p]) = "due"

\* The loop goes on to the next tenant and leaves it, or begins to run it.
NextTenant(p, t) ==
    /\ pc[p] = "scan"
    /\ ran[p] < TenantLimit
    /\ t \in Ahead(p)
    /\ \A x \in Ahead(p) : t <= x
    /\ cur' = [cur EXCEPT ![p] = t]
    /\ IF Due(p, t) THEN Goto(p, "run") ELSE UNCHANGED pc
    /\ UNCHANGED <<tenantVars, lockVars, conn, read, ran, since>>

\* The plan worker commits, at least at its end, and the next statement gets a
\* connection c, or none in time.
RunCommits(p, c) ==
    /\ pc[p] = "run"
    /\ Return(conn[p])
    /\ \/ /\ c \in ConnsOf[p]
          /\ pc' \in {pc, [pc EXCEPT ![p] = "record"]}
       \/ Faults /\ c = NoConn /\ Goto(p, "failed")
    /\ conn' = [conn EXCEPT ![p] = c]
    /\ UNCHANGED <<tenantVars, read, cur, ran, since>>

\* record_dispatch_automation_worker_run: the row is committed, and refreshed on
\* connection c.
Record(p, c) ==
    /\ pc[p] \in {"record", "failed"}
    /\ c \in ConnsOf[p]
    /\ IF conn[p] = NoConn THEN UNCHANGED lockVars ELSE Return(conn[p])
    /\ latest' = [latest EXCEPT ![cur[p]] =
                     IF pc[p] = "failed" THEN "failed" ELSE "completed"]
    /\ age' = [age EXCEPT ![cur[p]] = 0]
    /\ ran' = [ran EXCEPT ![p] = @ + 1]
    /\ conn' = [conn EXCEPT ![p] = c]
    /\ Goto(p, "scan")
    /\ UNCHANGED <<config, read, cur, since>>

\* There is no connection for the row either: the first time the handler writes
\* a failed one instead, the second time the loop is left.
RecordFails(p) ==
    /\ Faults
    /\ pc[p] \in {"record", "failed"}
    /\ IF conn[p] = NoConn THEN UNCHANGED lockVars ELSE Return(conn[p])
    /\ conn' = [conn EXCEPT ![p] = NoConn]
    /\ Goto(p, IF pc[p] = "record" THEN "failed" ELSE "release")
    /\ UNCHANGED <<tenantVars, read, cur, ran, since>>

\* The end of the loop and lock.release(): the unlock runs on the connection of
\* the open transaction, which need not be the one that has the lock.
Release(p, c) ==
    /\ \/ pc[p] = "scan" /\ (Ahead(p) = {} \/ ran[p] >= TenantLimit)
       \/ pc[p] = "release"
    /\ c \in IF conn[p] = NoConn THEN ConnsOf[p] ELSE {conn[p]}
    /\ Unlock(c)
    /\ Close(p)
    /\ UNCHANGED tenantVars

\* A statement of the run has failed.  The transaction is aborted, so the row of
\* the handler and the unlock fail as well, and the connection goes back.
Abandon(p) ==
    /\ Faults
    /\ pc[p] \in Working
    /\ IF conn[p] = NoConn THEN UNCHANGED lockVars ELSE Return(conn[p])
    /\ Close(p)
    /\ UNCHANGED tenantVars

\* The process dies, and its connections with it.
Die(p) ==
    /\ Faults
    /\ IF holder \in ConnsOf[p] THEN holder' = NoConn /\ depth' = 0
                                ELSE UNCHANGED <<holder, depth>>
    /\ Close(p)
    /\ UNCHANGED <<tenantVars, lost>>

-----------------------------------------------------------------------------
(* The rest of the world *)

\* update_dispatch_automation_worker_config by an owner.
SetConfig(t, cfg) ==
    /\ config' = [config EXCEPT ![t] = cfg]
    /\ UNCHANGED <<latest, age, lockVars, evalVars>>

Advance ==
    /\ \A p \in Processes : since[p] < MaxEvaluation
    /\ age' = [t \in Tenants |-> IF age[t] < OldAge THEN age[t] + 1 ELSE age[t]]
    /\ since' = [p \in Processes |-> IF pc[p] = "idle" THEN 0 ELSE since[p] + 1]
    /\ UNCHANGED <<config, latest, lockVars, pc, conn, read, cur, ran>>

Evaluate(p) ==
    \/ \E c \in Conns : TryLock(p, c)
    \/ \E t \in Tenants : NextTenant(p, t)
    \/ \E c \in Conns \cup {NoConn} : RunCommits(p, c)
    \/ \E c \in Conns : Record(p, c)
    \/ RecordFails(p)
    \/ \E c \in Conns : Release(p, c)
    \/ Abandon(p)

Next ==
    \/ \E p \in Processes : Evaluate(p)
    \/ \E p \in Processes : Die(p)
    \/ \E t \in Tenants, cfg \in Configs : SetConfig(t, cfg)
    \/ Advance

Spec == Init /\ [][Next]_vars

-----------------------------------------------------------------------------
(* Properties *)

Evaluating(p) == pc[p] # "idle"

\* Two processes never evaluate at once, although the lock is hardly ever held by
\* the connection an evaluation is using: it stays with the process, as long as
\* the pool has not closed the connection that has it.
OneEvaluation ==
    ~lost => \A p, q \in Processes : Evaluating(p) /\ Evaluating(q) => p = q

\* The lock is with a connection of the process that evaluates.
LeaderHasLock ==
    ~lost => \A p \in Processes : Evaluating(p) => holder \in ConnsOf[p]

\* The lock is counted while somebody has it.
LockCounted == holder = NoConn <=> depth = 0

\* The inductive strengthening of OneEvaluation.
IInv == TypeOK /\ LeaderHasLock /\ LockCounted

\* The tenant p is running was last run the interval ago that p has read, and the
\* back-off if that run failed.
Spaced(p) ==
    LET t == cur[p] IN
    pc[p] \in Working =>
        \/ latest[t] = "none"
        \/ /\ age[t] >= read[p][t].interval
           /\ latest[t] = "failed" => age[t] >= FailedBackoff

\* While the scheduler runs a tenant, nobody else has recorded a run of it since it
\* was found due, so two scheduled runs are never closer than the configuration and
\* the back-off allow.
RunsAreSpaced == ~lost => \A p \in Processes : Spaced(p)

\* What the diagnostics and the fleet snapshot tell the owner is what the
\* scheduler does: the two copies of the rule agree on every tenant.
DiagnosticsAgree ==
    \A t \in Tenants :
        LET told == DiagnosedReason(config[t], latest[t], age[t]) IN t \in Fleet(told)
=============================================================================
