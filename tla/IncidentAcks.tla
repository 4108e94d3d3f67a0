---------------------------- MODULE IncidentAcks ----------------------------
(***************************************************************************)
(* Acknowledging and resolving a tenant's dispatch incident:               *)
(* backend/app/services/analytics_service.py,                              *)
(* acknowledge_dispatch_incident and resolve_dispatch_incident.            *)
(*                                                                         *)
(* An incident's key is the set of alert codes that fire and match the     *)
(* policy, so that another set is another incident.  A request reads the   *)
(* alerts, then looks for an open row of the key, then writes; nothing     *)
(* keeps another request out in between, and no constraint makes an open   *)
(* row of a key unique.  Severity, texts and notes are left out.           *)
(***************************************************************************)
EXTENDS Naturals, FiniteSets

CONSTANTS
    Incidents,  \* keys of incidents
    Clerks,     \* requests of owners and editors, one at a time each
    MaxRows,    \* bound on the acknowledgement rows
    NoRow       \* "no row", "no user", "no alerts"

Row == [key : Incidents, open : BOOLEAN, owner : Clerks, resolver : Clerks \cup {NoRow}]

ASSUME AcksAssumption ==
    /\ MaxRows \in Nat /\ NoRow \notin 1..MaxRows /\ NoRow \notin Clerks \cup Incidents
    /\ NoRow \notin Row

VARIABLES
    incident,   \* the incident of the alerts that fire now, if any do
    rows,       \* dispatch_incident_acknowledgements, in order of insertion
    clerk       \* where each request stands

ackVars == <<incident, rows, clerk>>

Present == {i \in 1..MaxRows : rows[i] # NoRow}
OpenRows(key) == {i \in Present : rows[i].open /\ rows[i].key = key}

AtDesk == [at |-> "idle", key |-> NoRow, row |-> NoRow]

AckInit ==
    /\ incident = NoRow
    /\ rows = [i \in 1..MaxRows |-> NoRow]
    /\ clerk = [c \in Clerks |-> AtDesk]

(* Workflows are paused, dead letters come and go, the policy changes.     *)
AlertsChange(key) ==
    /\ incident # key
    /\ incident' = key
    /\ UNCHANGED <<rows, clerk>>

(* _get_current_runbook_context and _incident_key_for_alerts.  A quiet     *)
(* dispatch is a 409, for a resolution also when a row is still open.      *)
ReadIncident(c, what) ==
    /\ clerk[c].at = "idle" /\ incident # NoRow
    /\ clerk' = [clerk EXCEPT ![c] = [at |-> what, key |-> incident, row |-> NoRow]]
    /\ UNCHANGED <<incident, rows>>

(* _get_open_incident_acknowledgement: scalar_one_or_none raises when      *)
(* there are several.                                                      *)
AckFinds(c) ==
    /\ clerk[c].at = "ack"
    /\ LET found == OpenRows(clerk[c].key)
       IN  clerk' = [clerk EXCEPT ![c] =
                        IF Cardinality(found) > 1 THEN AtDesk
                        ELSE IF found = {} THEN [@ EXCEPT !.at = "insert"]
                        ELSE [@ EXCEPT !.at = "update", !.row = CHOOSE i \in found : TRUE]]
    /\ UNCHANGED <<incident, rows>>

ResolveFinds(c) ==
    /\ clerk[c].at = "resolve"
    /\ LET found == OpenRows(clerk[c].key)
       IN  clerk' = [clerk EXCEPT ![c] =
                        IF Cardinality(found) # 1 THEN AtDesk
                        ELSE [@ EXCEPT !.at = "close", !.row = CHOOSE i \in found : TRUE]]
    /\ UNCHANGED <<incident, rows>>

AckInserts(c) ==
    /\ clerk[c].at = "insert"
    /\ \E i \in 1..MaxRows :
          /\ Present = 1..(i - 1)
          /\ rows' = [rows EXCEPT ![i] =
                         [key |-> clerk[c].key, open |-> TRUE, owner |-> c, resolver |-> NoRow]]
    /\ clerk' = [clerk EXCEPT ![c] = AtDesk]
    /\ UNCHANGED incident

\* Mutant: the status is written although it has not changed.
AckUpdatesStatus(c) ==
    /\ clerk[c].at = "update"
    /\ rows' = [rows EXCEPT ![clerk[c].row].owner = c, ![clerk[c].row].open = TRUE]
    /\ clerk' = [clerk EXCEPT ![c] = AtDesk]
    /\ UNCHANGED incident

(* The loaded row says "acknowledged" and is set to that: the unit of work *)
(* leaves the column out of its UPDATE, so that a row resolved meanwhile   *)
(* stays resolved and only gets a new owner.                               *)
AckUpdates(c) ==
    /\ clerk[c].at = "update"
    /\ rows' = [rows EXCEPT ![clerk[c].row].owner = c]
    /\ clerk' = [clerk EXCEPT ![c] = AtDesk]
    /\ UNCHANGED incident

(* A second resolution of the same row takes the place of the first.       *)
Resolves(c) ==
    /\ clerk[c].at = "close"
    /\ rows' = [rows EXCEPT ![clerk[c].row].open = FALSE, ![clerk[c].row].resolver = c]
    /\ clerk' = [clerk EXCEPT ![c] = AtDesk]
    /\ UNCHANGED incident

(* The request fails in the database, or its client goes away.             *)
GivesUp(c) ==
    /\ clerk[c].at # "idle"
    /\ clerk' = [clerk EXCEPT ![c] = AtDesk]
    /\ UNCHANGED <<incident, rows>>

AckNext ==
    \/ \E key \in Incidents \cup {NoRow} : AlertsChange(key)
    \/ \E c \in Clerks :
          \/ \E what \in {"ack", "resolve"} : ReadIncident(c, what)
          \/ AckFinds(c) \/ AckInserts(c) \/ AckUpdates(c)
          \/ ResolveFinds(c) \/ Resolves(c) \/ GivesUp(c)

AckSpec == AckInit /\ [][AckNext]_ackVars

----------------------------------------------------------------------------
AckTypeOK ==
    /\ incident \in Incidents \cup {NoRow}
    /\ rows \in [1..MaxRows -> Row \cup {NoRow}]
    /\ clerk \in [Clerks -> [at : {"idle", "ack", "insert", "update", "resolve", "close"},
                             key : Incidents \cup {NoRow}, row : 1..MaxRows \cup {NoRow}]]

(* A row is open until somebody resolves it, a resolved row names its      *)
(* resolver, and it stays resolved whatever acknowledgement had read it    *)
(* before.                                                                 *)
ResolvedStaysResolved ==
    [][\A i \in 1..MaxRows :
          rows[i] # NoRow =>
             /\ rows'[i] # NoRow /\ rows'[i].key = rows[i].key
             /\ ~rows[i].open => ~rows'[i].open /\ rows'[i].resolver # NoRow]_ackVars
=============================================================================
