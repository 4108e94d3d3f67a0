---------------------------- MODULE MCAnalytics ----------------------------
(* The three parts of the analytics service that keep state of their own:  *)
(* the query cache, alert delivery and incident acknowledgements.  They    *)
(* share no state, so that a behaviour moves one of them, its focus.       *)
EXTENDS AnalyticsCache, DispatchAlerts, IncidentAcks, TLC

CONSTANTS p1, p2, r1, r2, h1, h2, a

MCReaderProc == r1 :> p1 @@ r2 :> p2

\* The first policy routes to a channel twice.
MCRoutes == <<<<h1, h1>>, <<h2>>>>

VARIABLE focus

vars == <<focus, cacheVars, alertVars, ackVars>>

Init ==
    /\ focus \in {"cache", "alerts", "acks"}
    /\ CacheInit /\ AlertInit /\ AckInit

Next ==
    /\ UNCHANGED focus
    /\ \/ focus = "cache" /\ CacheNext /\ UNCHANGED <<alertVars, ackVars>>
       \/ focus = "alerts" /\ AlertNext /\ UNCHANGED <<cacheVars, ackVars>>
       \/ focus = "acks" /\ AckNext /\ UNCHANGED <<cacheVars, alertVars>>

AlertWorks(c) ==
    /\ focus = "alerts" /\ Works(c)
    /\ UNCHANGED <<focus, cacheVars, ackVars>>

Spec == Init /\ [][Next]_vars /\ \A c \in Callers : WF_vars(AlertWorks(c))

=============================================================================
