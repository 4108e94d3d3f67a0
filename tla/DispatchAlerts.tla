--------------------------- MODULE DispatchAlerts ---------------------------
(***************************************************************************)
(* Delivering dispatch alerts to the channels of a tenant's alert policy:  *)
(* backend/app/services/dispatch_alert_evaluator_worker.py (one evaluator  *)
(* loop in every server process, with no lock between them) and            *)
(* deliver_dispatch_alerts of analytics_service.py, which an operator may  *)
(* also call for one tenant.                                               *)
(*                                                                         *)
(* A caller holds one transaction per tenant: its audit rows are seen by   *)
(* its own cooldown checks at once and by the others' when it commits.     *)
(* The cooldown is abstracted to whether a committed row of the channel    *)
(* and code is young enough; severities, payloads and responses are left   *)
(* out, and a firing alert is one that the policy matches.                 *)
(***************************************************************************)
EXTENDS Naturals, Sequences, FiniteSets, Functions

CONSTANTS
    LastTenant,     \* tenants 1..LastTenant, in order of creation
    EvaluatorLimit, \* DISPATCH_ALERT_EVALUATOR_TENANT_LIMIT
    Routes,         \* the enabled routes of each tenant's policy, by channel
    Unusable,       \* channels that may have been created unusable
    Codes,          \* alert codes
    Evaluators,     \* evaluator workers, one per process
    Operators,      \* requests of owners and editors
    MaxFailures     \* bound on the database failures

AlertTenants == 1..LastTenant
Callers == Evaluators \cup Operators
Channels == UNION {Range(Routes[t]) : t \in AlertTenants}
Notices == Channels \X Codes

ASSUME AlertsAssumption ==
    /\ LastTenant \in Nat \ {0} /\ EvaluatorLimit \in Nat \ {0} /\ MaxFailures \in Nat
    /\ IsFiniteSet(Callers) /\ Evaluators \cap Operators = {}
    /\ \A t \in AlertTenants : Routes[t] \in Seq(Range(Routes[t]))

VARIABLES
    broken,     \* the channels whose stored configuration raises
    firing,     \* alerts of each tenant that match its policy
    enabled,    \* tenants whose policy is enabled
    recent,     \* notices with a committed audit row inside the cooldown
    posted,     \* posts of each notice in this cooldown whose row is not lost
    caller,     \* where each caller stands
    failures    \* database failures so far

alertVars == <<broken, firing, enabled, recent, posted, caller, failures>>

Off == [at |-> "idle", tenant |-> 0, last |-> 0, on |-> {}, alerts |-> {}, route |-> 0,
        due |-> {}, own |-> {}]

AlertInit ==
    /\ broken \in SUBSET Unusable
    /\ firing = [t \in AlertTenants |-> {}]
    /\ enabled = {}
    /\ recent = {}
    /\ posted = [n \in Notices |-> 0]
    /\ caller = [c \in Callers |-> Off]
    /\ failures = 0

Move(c, to) == caller' = [caller EXCEPT ![c] = to]
Here(c) == caller[c].tenant
Channel(c) == Routes[Here(c)][caller[c].route]

(* Dispatches are paused, throttled, deferred, dead-lettered, and recover. *)
Fires(t, code) ==
    /\ firing' = [firing EXCEPT ![t] = IF code \in @ THEN @ \ {code} ELSE @ \cup {code}]
    /\ UNCHANGED <<broken, enabled, recent, posted, caller, failures>>

(* update_dispatch_alert_policy.                                           *)
SetPolicy(t) ==
    /\ enabled' = IF t \in enabled THEN enabled \ {t} ELSE enabled \cup {t}
    /\ UNCHANGED <<broken, firing, recent, posted, caller, failures>>

(* The youngest audit row of a notice leaves the cooldown: only posts that *)
(* are not committed yet still count.                                      *)
CooldownEnds(n) ==
    /\ n \in recent
    /\ recent' = recent \ {n}
    /\ posted' = [posted EXCEPT ![n] = Cardinality({c \in Callers : n \in caller[c].own})]
    /\ UNCHANGED <<broken, firing, enabled, caller, failures>>

(* The evaluation reads the oldest tenants, with their policies: the       *)
(* session returns these tenants whatever is written later.                *)
Evaluation(e) ==
    /\ e \in Evaluators /\ caller[e].at = "idle"
    /\ Move(e, [Off EXCEPT !.at = "tenant", !.tenant = 1, !.on = enabled,
                           !.last = IF EvaluatorLimit < LastTenant THEN EvaluatorLimit
                                    ELSE LastTenant])
    /\ UNCHANGED <<broken, firing, enabled, recent, posted, failures>>

(* POST /dispatch-alert-deliveries, for the operator's own tenant.         *)
Delivery(o, t) ==
    /\ o \in Operators /\ caller[o].at = "idle"
    /\ Move(o, [Off EXCEPT !.at = "tenant", !.tenant = t, !.on = enabled \cap {t}, !.last = t])
    /\ UNCHANGED <<broken, firing, enabled, recent, posted, failures>>

(* The loop goes on to the next tenant; after the last one the caller is   *)
(* done until the next interval or request.                                *)
Onward(c) ==
    IF Here(c) = caller[c].last THEN Off
    ELSE [Off EXCEPT !.at = "tenant", !.tenant = Here(c) + 1,
                     !.last = caller[c].last, !.on = caller[c].on \ {Here(c)}]

Quiet(c) == Here(c) \notin caller[c].on \/ Routes[Here(c)] = <<>> \/ firing[Here(c)] = {}

\* Mutant: a tenant with nothing to deliver ends the evaluation.
PassesNone(c) ==
    /\ caller[c].at = "tenant" /\ Quiet(c)
    /\ Move(c, Off)
    /\ UNCHANGED <<broken, firing, enabled, recent, posted, failures>>

Passes(c) ==
    /\ caller[c].at = "tenant" /\ Quiet(c)
    /\ Move(c, Onward(c))
    /\ UNCHANGED <<broken, firing, enabled, recent, posted, failures>>

(* preview_dispatch_alert_policy: the alerts of this delivery.             *)
Previews(c) ==
    /\ caller[c].at = "tenant" /\ ~Quiet(c)
    /\ Move(c, [caller[c] EXCEPT !.at = "route", !.alerts = firing[Here(c)], !.route = 1,
                                 !.on = @ \ {Here(c)}])
    /\ UNCHANGED <<broken, firing, enabled, recent, posted, failures>>

\* Mutant: the check does not see the rows of its own transaction.
CoolingDownSaved(c, n) == n \in recent

(* _alert_is_in_cooldown: any audit row counts, of a failed post too.      *)
CoolingDown(c, n) == n \in recent \cup caller[c].own

(* The checks of a route; a route with nothing due is passed.              *)
Checks(c) ==
    /\ caller[c].at = "route" /\ caller[c].route <= Len(Routes[Here(c)])
    /\ LET due == {code \in caller[c].alerts : ~CoolingDown(c, <<Channel(c), code>>)}
       IN  Move(c, IF due = {} THEN [caller[c] EXCEPT !.route = @ + 1]
                   ELSE [caller[c] EXCEPT !.at = "post", !.due = due])
    /\ UNCHANGED <<broken, firing, enabled, recent, posted, failures>>

DueNotices(c) == {Channel(c)} \X caller[c].due

(* The channel is sent the alerts and answers, or not: both leave one row  *)
(* per alert.                                                              *)
Posts(c) ==
    /\ caller[c].at = "post" /\ Channel(c) \notin broken
    /\ posted' = [n \in Notices |-> posted[n] + IF n \in DueNotices(c) THEN 1 ELSE 0]
    /\ Move(c, [caller[c] EXCEPT !.at = "route", !.route = @ + 1, !.due = {},
                                 !.own = @ \cup DueNotices(c)])
    /\ UNCHANGED <<broken, firing, enabled, recent, failures>>

(* The transaction is rolled back with the rows of what has been posted,   *)
(* and the exception ends the whole evaluation.                            *)
RollBack(c) ==
    /\ posted' = [n \in Notices |->
                     IF n \in caller[c].own THEN posted[n] - 1 ELSE posted[n]]
    /\ Move(c, Off)
    /\ UNCHANGED <<broken, firing, enabled, recent>>

(* decrypt_config or the conversion of timeout_seconds raises.             *)
Chokes(c) ==
    /\ caller[c].at = "post" /\ Channel(c) \in broken
    /\ RollBack(c)
    /\ UNCHANGED failures

Routed(c) == caller[c].at = "route" /\ caller[c].route > Len(Routes[Here(c)])

(* deliver_dispatch_alerts commits its rows.                               *)
Commits(c) ==
    /\ Routed(c)
    /\ recent' = recent \cup caller[c].own
    /\ Move(c, Onward(c))
    /\ UNCHANGED <<broken, firing, enabled, posted, failures>>

(* A statement or the commit fails, or the process stops.                  *)
Breaks(c) ==
    /\ caller[c].at # "idle" /\ failures < MaxFailures
    /\ failures' = failures + 1
    /\ RollBack(c)

Works(c) ==
    Evaluation(c) \/ Passes(c) \/ Previews(c) \/ Checks(c) \/ Posts(c) \/ Chokes(c) \/ Commits(c)

AlertNext ==
    \/ \E t \in AlertTenants : SetPolicy(t) \/ \E code \in Codes : Fires(t, code)
    \/ \E n \in Notices : CooldownEnds(n)
    \/ \E c \in Callers : Works(c) \/ Breaks(c) \/ \E t \in AlertTenants : Delivery(c, t)

AlertSpec == AlertInit /\ [][AlertNext]_alertVars

----------------------------------------------------------------------------
(* Within a cooldown no caller posts a notice twice, also where a policy   *)
(* routes to a channel twice: the posts that left a row, or still may, are *)
(* never more than there are callers at work.  A post whose row was lost   *)
(* is repeated.                                                            *)
PostsAreSpaced == \A n \in Notices : posted[n] <= Cardinality(Callers)

(* Tenants the evaluation gets to: not past the limit, nor behind a        *)
(* tenant, or a route, whose channel cannot be used.                       *)
Served(t) == t <= EvaluatorLimit /\ \A u \in 1..t : Range(Routes[u]) \cap broken = {}

(* An alert that keeps firing under an enabled policy is posted to every   *)
(* channel of it again and again, once the cooldown of the last post is    *)
(* over.                                                                   *)
AlertsAreSent ==
    \A t \in AlertTenants : \A n \in Range(Routes[t]) \X Codes :
        <>[](Served(t) /\ t \in enabled /\ n[2] \in firing[t]) => []<>(n \in recent)
=============================================================================
