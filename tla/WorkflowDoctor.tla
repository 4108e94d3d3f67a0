--------------------------- MODULE WorkflowDoctor ---------------------------
(***************************************************************************)
(* Diagnosing the failed executions of a workflow, and replaying, applying *)
(* and dismissing the suggestions: backend/app/services/                   *)
(* workflow_doctor_service.py.                                             *)
(*                                                                         *)
(* The only patch a detector writes replaces an agent's model.  Error      *)
(* texts are the detector they lead to, and logs the agent they name       *)
(* first.  A request reads its suggestion, checks its status, and commits  *)
(* later; its transaction writes the attributes that differ from what it   *)
(* had read.                                                               *)
(***************************************************************************)
EXTENDS Naturals, FiniteSets

CONSTANTS
    Agents,     \* agent_configs rows of the workflow, each for a node of it
    Models,     \* model names that agents may have been stored with
    ValidModels,\* VALID_MODELS of the version that is deployed
    SafeModel,  \* DEFAULT_SAFE_MODEL
    Doctors,    \* concurrent requests
    MaxExecs,   \* bound on the executions that fail
    MaxRetries, \* bound on the retries
    MaxSuggs,   \* bound on the suggestions
    Nil         \* no row, no agent, no suggestion

Execs == 1..MaxExecs
Suggs == 1..MaxSuggs
(* What the texts lead to: one of the three detectors that come first and  *)
(* leave the repair to the user (a provider key, an agent configuration or *)
(* a credential is missing), an unsupported model, or nothing known.       *)
Errors == {"manual", "model", "other"}

Statuses == {"proposed", "replay_passed", "replay_failed", "applied", "dismissed"}

Execution == [error : Errors, logged : Agents \cup {Nil}]
Suggestion == [exec : Execs, target : Agents \cup {Nil}, status : Statuses]

ASSUME DoctorAssumption ==
    /\ SafeModel \in ValidModels /\ ValidModels \subseteq Models /\ Nil \notin Models \cup Agents
    /\ MaxExecs \in Nat /\ MaxRetries \in Nat /\ MaxSuggs \in Nat
    /\ Nil \notin Nat \cup Statuses \cup Suggestion

VARIABLES
    live,       \* the workflow is active
    model,      \* the model of each agent; a row that is gone stays gone
    exec,       \* failed executions
    retries,    \* retries created for each suggestion
    sugg,       \* workflow_fix_suggestions, in order of insertion
    overlap,    \* suggestions that two requests have worked on at once
    doubled,    \* executions that two requests have diagnosed at once
    doctor      \* where each request stands

doctorVars == <<live, model, exec, retries, sugg, overlap, doubled, doctor>>

Away == [at |-> "idle", on |-> Nil, read |-> [s \in Suggs |-> Nil]]

DoctorInit ==
    /\ live = TRUE
    /\ model \in [Agents -> Models \cup {Nil}]
    /\ exec = [e \in Execs |-> Nil]
    /\ retries = [s \in Suggs |-> 0]
    /\ sugg = [s \in Suggs |-> Nil]
    /\ overlap = {} /\ doubled = {}
    /\ doctor = [d \in Doctors |-> Away]

Goes(d, to) == doctor' = [doctor EXCEPT ![d] = to]
World == <<live, model, exec, retries>>

NewExec(e) == e \in Execs /\ {i \in Execs : exec[i] # Nil} = 1..(e - 1)
NewSugg(s) == s \in Suggs /\ {i \in Suggs : sugg[i] # Nil} = 1..(s - 1)

----------------------------------------------------------------------------
(* An execution fails, its first log row naming an agent or none.          *)
Fail(e, error, logged) ==
    /\ NewExec(e)
    /\ exec' = [exec EXCEPT ![e] = [error |-> error, logged |-> logged]]
    /\ UNCHANGED <<live, model, retries, sugg, overlap, doubled, doctor>>

(* update_agent and delete_agent.                                          *)
EditAgent(a, m) ==
    /\ live /\ model[a] # Nil /\ m \in ValidModels \cup {Nil}
    /\ model' = [model EXCEPT ![a] = m]
    /\ UNCHANGED <<live, exec, retries, sugg, overlap, doubled, doctor>>

(* delete_workflow: its retries, if there are any, may have ended.         *)
DeleteWorkflow ==
    /\ live
    /\ live' = FALSE
    /\ UNCHANGED <<model, exec, retries, sugg, overlap, doubled, doctor>>

----------------------------------------------------------------------------
Patchable == {"proposed", "replay_passed", "replay_failed"}

\* Mutant: a forced diagnosis dismisses what is "proposed" only.
ReadsPatchableProposed(e) == {s \in Suggs : sugg[s] # Nil /\ sugg[s].exec = e
                                            /\ sugg[s].status = "proposed"}

(* The suggestions a forced diagnosis of the execution will dismiss.       *)
ReadsPatchable(e) == {s \in Suggs : sugg[s] # Nil /\ sugg[s].exec = e
                                    /\ sugg[s].status \in Patchable}

Reads(S) == [s \in Suggs |-> IF s \in S THEN sugg[s].status ELSE Nil]
Held(s) == \E d \in Doctors : doctor[d].read[s] # Nil

(* The request has read its suggestions: from here to its commit another   *)
(* one overlaps with it.                                                   *)
Begins(d, what, on, S) ==
    /\ doctor[d].at = "idle"
    /\ Goes(d, [at |-> what, on |-> on, read |-> Reads(S)])
    /\ overlap' = overlap \cup {s \in S : Held(s)}
    /\ UNCHANGED <<World, sugg>>

(* diagnose_execution: suggestions that are not dismissed are an answer,   *)
(* unless the diagnosis is forced.                                         *)
Diagnose(d, e, force) ==
    /\ exec[e] # Nil
    /\ force \/ \A s \in Suggs : sugg[s] # Nil /\ sugg[s].exec = e => sugg[s].status = "dismissed"
    /\ Begins(d, "diagnose", e, IF force THEN ReadsPatchable(e) ELSE {})
    /\ doubled' = IF \E c \in Doctors : doctor[c].at = "diagnose" /\ doctor[c].on = e
                  THEN doubled \cup {e} ELSE doubled

Invalid == {a \in Agents : model[a] # Nil /\ model[a] \notin ValidModels}

(* _find_agent_for_suggestion: the first agent in the logs if it is still  *)
(* there, whichever agent failed, else the agent with an invalid model;    *)
(* when there are several the request fails.                               *)
Suspects(e) ==
    IF exec[e].logged # Nil /\ model[exec[e].logged] # Nil THEN {exec[e].logged} ELSE Invalid

(* The detectors in their order: only the fourth one writes a patch, and   *)
(* it looks at the agents of the workflow, whatever the error says.        *)
PatchesModel(e) ==
    /\ exec[e].error # "manual"
    /\ (exec[e].error = "model" \/ Invalid # {})

Written(d, to) ==
    [s \in Suggs |->
        IF doctor[d].read[s] \in {Nil, to} THEN sugg[s] ELSE [sugg[s] EXCEPT !.status = to]]

Returns(d) == Goes(d, Away) /\ UNCHANGED <<overlap, doubled>>

(* The new suggestion and the dismissals are one transaction; a deleted    *)
(* workflow is a 404, several suspects an error, and nothing is written.   *)
CommitDiagnosis(d) ==
    /\ doctor[d].at = "diagnose"
    /\ LET e == doctor[d].on
           refused == ~live \/ (PatchesModel(e) /\ Cardinality(Suspects(e)) > 1)
       IN  IF refused THEN UNCHANGED sugg
           ELSE \E s \in Suggs, target \in Agents \cup {Nil} :
                   /\ NewSugg(s)
                   /\ IF PatchesModel(e) /\ Suspects(e) # {}
                      THEN target \in Suspects(e) ELSE target = Nil
                   /\ sugg' = [Written(d, "dismissed") EXCEPT ![s] =
                                  [exec |-> e, target |-> target, status |-> "proposed"]]
    /\ Returns(d)
    /\ UNCHANGED World

\* Mutant: a replay, or an application, does not look at the status.
BeginsOnAny(d, s, what) ==
    /\ sugg[s] # Nil
    /\ Begins(d, what, s, {s})
    /\ UNCHANGED doubled

(* replay_suggestion and apply_suggestion refuse a settled suggestion.     *)
BeginsOn(d, s, what) ==
    /\ sugg[s] # Nil /\ sugg[s].status \notin {"applied", "dismissed"}
    /\ Begins(d, what, s, {s})
    /\ UNCHANGED doubled

(* _validate_replay_patch: the workflow is there, the target is, every     *)
(* node has its agent, and no invalid model is left.                       *)
Replayed(t) ==
    /\ live
    /\ \A a \in Agents : model[a] # Nil
    /\ Invalid \subseteq {t}

CommitReplay(d) ==
    /\ doctor[d].at = "replay"
    /\ sugg' = Written(d, IF Replayed(sugg[doctor[d].on].target) THEN "replay_passed"
                          ELSE "replay_failed")
    /\ Returns(d)
    /\ UNCHANGED World

(* apply_suggestion: the patch, the retry and the status are one           *)
(* transaction; the replay's outcome, the workflow and the plan's limits   *)
(* are not looked at.  A target that is gone is a 404.                     *)
CommitApply(d, retry) ==
    /\ doctor[d].at = "apply"
    /\ LET s == doctor[d].on
           t == sugg[s].target
       IN  IF t # Nil /\ model[t] = Nil THEN UNCHANGED <<model, retries, sugg>>
           ELSE /\ model' = IF t = Nil THEN model ELSE [model EXCEPT ![t] = SafeModel]
                /\ sugg' = Written(d, "applied")
                /\ IF ~retry THEN UNCHANGED <<retries>>
                   ELSE /\ \A i \in Suggs : retries[i] < MaxRetries
                        /\ retries' = [retries EXCEPT ![s] = @ + 1]
    /\ Returns(d)
    /\ UNCHANGED <<live, exec>>

\* Mutant: an applied suggestion can be dismissed.
DismissAny(d, s) ==
    /\ sugg[s] # Nil
    /\ Begins(d, "dismiss", s, {s})
    /\ UNCHANGED doubled

(* dismiss_suggestion refuses only an applied suggestion.                  *)
Dismiss(d, s) ==
    /\ sugg[s] # Nil /\ sugg[s].status # "applied"
    /\ Begins(d, "dismiss", s, {s})
    /\ UNCHANGED doubled

CommitDismiss(d) ==
    /\ doctor[d].at = "dismiss"
    /\ sugg' = Written(d, "dismissed")
    /\ Returns(d)
    /\ UNCHANGED World

GiveUp(d) ==
    /\ doctor[d].at # "idle"
    /\ Returns(d)
    /\ UNCHANGED <<World, sugg>>

DoctorNext ==
    \/ \E e \in Execs :
          \E error \in Errors, logged \in Agents \cup {Nil} : Fail(e, error, logged)
    \/ \E a \in Agents, m \in Models \cup {Nil} : EditAgent(a, m)
    \/ DeleteWorkflow
    \/ \E d \in Doctors :
          \/ \E e \in Execs, force \in BOOLEAN : Diagnose(d, e, force)
          \/ \E s \in Suggs :
                \/ \E what \in {"replay", "apply"} : BeginsOn(d, s, what)
                \/ Dismiss(d, s)
          \/ \E retry \in BOOLEAN : CommitApply(d, retry)
          \/ CommitDiagnosis(d) \/ CommitReplay(d) \/ CommitDismiss(d) \/ GiveUp(d)

DoctorSpec == DoctorInit /\ [][DoctorNext]_doctorVars

----------------------------------------------------------------------------
DoctorTypeOK ==
    /\ live \in BOOLEAN
    /\ model \in [Agents -> Models \cup {Nil}]
    /\ exec \in [Execs -> Execution \cup {Nil}]
    /\ retries \in [Suggs -> 0..MaxRetries]
    /\ sugg \in [Suggs -> Suggestion \cup {Nil}]
    /\ overlap \subseteq Suggs /\ doubled \subseteq Execs
    /\ doctor \in [Doctors ->
          [at : {"idle", "diagnose", "replay", "apply", "dismiss"},
           on : Execs \cup Suggs \cup {Nil}, read : [Suggs -> Statuses \cup {Nil}]]]

(* A suggestion is retried once: a second retry needs two requests that    *)
(* worked on it at the same time, both having read that it was not applied *)
(* or one of them setting it back.                                         *)
RetriedOnce == \A s \in Suggs \ overlap : retries[s] <= 1

(* An execution has one suggestion that can be applied, after a forced     *)
(* diagnosis too, unless two diagnoses of it overlapped or a replay put    *)
(* back a suggestion that a diagnosis dismissed meanwhile.                 *)
OneOpenSuggestion ==
    \A e \in Execs \ doubled :
        Cardinality({s \in Suggs \ overlap : sugg[s] # Nil /\ sugg[s].exec = e
                                             /\ sugg[s].status \in Patchable}) <= 1

(* A suggestion that was applied or dismissed stays so, unless requests    *)
(* overlapped on it.                                                       *)
SettledIsFinal ==
    [][\A s \in Suggs :
          /\ sugg[s] # Nil /\ sugg[s].status \in {"applied", "dismissed"}
          /\ s \notin overlap'
          => sugg'[s] = sugg[s]]_doctorVars
=============================================================================
