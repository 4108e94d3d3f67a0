-------------------------- MODULE WorkflowBuilder --------------------------
(***************************************************************************)
(* The page on which a user draws a workflow, and saves it by hand, two    *)
(* seconds after the last change, or before a run:                         *)
(* frontend/src/hooks/useBuilder.js, with update_workflow behind it.       *)
(*                                                                         *)
(* One page, opened any number of times; other users write the same row.   *)
(* A drawing is a whole value, since the definition is replaced as one;    *)
(* undo, redo, a new node or the revert of one whose agent was refused are *)
(* all another drawing.  An action that changes state stands for the       *)
(* rendering and the effects after it, with one exception: isSavingRef,    *)
(* which decides whether a save may begin, follows isSaving later.         *)
(***************************************************************************)
EXTENDS Naturals

CONSTANTS
    Drawings,   \* what can be drawn
    Slots,      \* bound: saves under way
    NoSave

VARIABLES
    stored,         \* workflows.definition
    page,           \* away, loading, open, or execute: the page of the run
    canvas,         \* nodes and edges; on the page of the run, the last ones shown
    unsaved,        \* hasUnsavedChanges
    armed,          \* the timer of the autosave
    isSaving,
    isSavingRef,
    save,           \* the saves under way
    overtaken       \* history: a change, a save or another user came in between

builderVars ==
    <<stored, page, canvas, unsaved, armed, isSaving, isSavingRef, save, overtaken>>

Begun == {s \in Slots : save[s] # NoSave}
(* Those of the page as it is open now: it forgets the saves it has left.  *)
Ours == {s \in Begun : save[s].ours}

BuilderInit ==
    /\ stored \in Drawings /\ canvas = stored
    /\ page = "away"
    /\ unsaved = FALSE /\ armed = FALSE
    /\ isSaving = FALSE /\ isSavingRef = FALSE
    /\ save = [s \in Slots |-> NoSave]
    /\ overtaken = FALSE

(* From now on no save under way accounts for what is shown and stored.    *)
Overtakes(saves) ==
    /\ overtaken' = TRUE
    /\ save' = [s \in Slots |->
                   IF saves[s] = NoSave THEN NoSave ELSE [saves[s] EXCEPT !.clean = FALSE]]

(* The page is left; nobody waits for its saves any more.                  *)
Quits(to, saves) ==
    /\ page' = to
    /\ unsaved' = FALSE /\ armed' = FALSE
    /\ isSaving' = FALSE /\ isSavingRef' = FALSE
    /\ save' = [s \in Slots |->
                   IF saves[s] = NoSave THEN NoSave ELSE [saves[s] EXCEPT !.ours = FALSE]]

----------------------------------------------------------------------------
(* The definition is fetched.                                              *)
OpensBuilder ==
    /\ page \in {"away", "execute"}
    /\ page' = "loading"
    /\ canvas' = stored
    /\ overtaken' = FALSE
    /\ UNCHANGED <<stored, unsaved, armed, isSaving, isSavingRef, save>>

(* The answer is rendered.  That changes nodes and edges, and the effect   *)
(* takes it for a change of the user's: the page opens unsaved.            *)
ShowsLoaded ==
    /\ page = "loading"
    /\ page' = "open" /\ unsaved' = TRUE /\ armed' = TRUE
    /\ UNCHANGED <<stored, canvas, isSaving, isSavingRef, save, overtaken>>

Draws(g) ==
    /\ page = "open" /\ g # canvas
    /\ canvas' = g /\ unsaved' = TRUE /\ armed' = TRUE
    /\ IF Ours = {} THEN UNCHANGED <<save, overtaken>> ELSE Overtakes(save)
    /\ UNCHANGED <<stored, page, isSaving, isSavingRef>>

(* handleSave, up to the request.                                          *)
BeginsSave(thenRun) ==
    /\ page = "open" /\ ~isSavingRef
    /\ isSaving' = TRUE
    /\ \E s \in Slots \ Begun :
          LET saves == [save EXCEPT ![s] = [drawing |-> canvas, at |-> "sent", ours |-> TRUE,
                                            thenRun |-> thenRun, clean |-> TRUE]]
          IN  IF Ours = {} THEN save' = saves /\ UNCHANGED overtaken ELSE Overtakes(saves)
    /\ UNCHANGED <<stored, page, canvas, unsaved, isSavingRef>>

SavesByHand == BeginsSave(FALSE) /\ UNCHANGED armed

TimerFires ==
    /\ armed /\ armed' = FALSE
    /\ \/ unsaved /\ BeginsSave(FALSE)
       \/ /\ ~unsaved \/ isSavingRef
          /\ UNCHANGED <<stored, page, canvas, unsaved, isSaving, isSavingRef, save, overtaken>>

\* Mutant: the run does not wait for a save.
RunsAtOnce ==
    /\ page = "open"
    /\ Quits("execute", save)
    /\ UNCHANGED <<stored, canvas, overtaken>>

(* handleRun: with unsaved changes it saves first, unless a save is under  *)
(* way already, for which it does not wait.                                *)
Runs ==
    \/ unsaved /\ BeginsSave(TRUE) /\ UNCHANGED armed
    \/ /\ page = "open" /\ (~unsaved \/ isSavingRef)
       /\ Quits("execute", save)
       /\ overtaken' = (overtaken \/ isSavingRef)
       /\ UNCHANGED <<stored, canvas>>

(* The effect that follows isSaving.                                       *)
FollowsSaving ==
    /\ isSavingRef # isSaving
    /\ isSavingRef' = isSaving
    /\ UNCHANGED <<stored, page, canvas, unsaved, armed, isSaving, save, overtaken>>

----------------------------------------------------------------------------
(* update_workflow commits, or refuses the graph.                          *)
Stores(s) ==
    /\ s \in Begun /\ save[s].at = "sent"
    /\ stored' = save[s].drawing
    /\ LET saves == [save EXCEPT ![s].at = "stored"]
       IN  IF save[s].ours THEN save' = saves /\ UNCHANGED overtaken ELSE Overtakes(saves)
    /\ UNCHANGED <<page, canvas, unsaved, armed, isSaving, isSavingRef>>

RefusesSave(s) ==
    /\ s \in Begun /\ save[s].at = "sent"
    /\ save' = [save EXCEPT ![s].at = "refused"]
    /\ UNCHANGED <<stored, page, canvas, unsaved, armed, isSaving, isSavingRef, overtaken>>

(* The answer: the rest of handleSave, and of handleRun, whose validation  *)
(* may still find fault with the drawing.                                  *)
Confirms(s) ==
    /\ s \in Ours /\ save[s].at = "stored"
    /\ overtaken' = (overtaken /\ ~save[s].clean)
    /\ LET saves == [save EXCEPT ![s] = NoSave]
       IN  \/ /\ unsaved' = FALSE /\ isSaving' = FALSE /\ save' = saves
              /\ UNCHANGED <<page, armed, isSavingRef>>
           \/ save[s].thenRun /\ Quits("execute", saves)
    /\ UNCHANGED <<stored, canvas>>

\* Mutant: the flag is reset in the finally block.
FailsSavedly(s) ==
    /\ s \in Ours /\ save[s].at \in {"stored", "refused"}
    /\ save' = [save EXCEPT ![s] = NoSave]
    /\ isSaving' = FALSE /\ unsaved' = FALSE
    /\ UNCHANGED <<stored, page, canvas, armed, isSavingRef, overtaken>>

(* A refusal, or an answer that is lost.                                   *)
FailsSave(s) ==
    /\ s \in Ours /\ save[s].at \in {"stored", "refused"}
    /\ save' = [save EXCEPT ![s] = NoSave]
    /\ isSaving' = FALSE
    /\ UNCHANGED <<stored, page, canvas, unsaved, armed, isSavingRef, overtaken>>

(* The answer to a page that has been left.                                *)
ForgetsSave(s) ==
    /\ s \in Begun \ Ours /\ save[s].at # "sent"
    /\ save' = [save EXCEPT ![s] = NoSave]
    /\ UNCHANGED <<stored, page, canvas, unsaved, armed, isSaving, isSavingRef, overtaken>>

LeavesBuilder ==
    /\ page \in {"loading", "open"}
    /\ Quits("away", save)
    /\ UNCHANGED <<stored, canvas, overtaken>>

(* Another user's update_workflow of the same row.                         *)
SomebodyStores(g) ==
    /\ stored' = g
    /\ Overtakes(save)
    /\ UNCHANGED <<page, canvas, unsaved, armed, isSaving, isSavingRef>>

BuilderNext ==
    \/ OpensBuilder \/ ShowsLoaded \/ LeavesBuilder
    \/ \E g \in Drawings : Draws(g) \/ SomebodyStores(g)
    \/ SavesByHand \/ TimerFires \/ Runs \/ FollowsSaving
    \/ \E s \in Slots :
          Stores(s) \/ RefusesSave(s) \/ Confirms(s) \/ FailsSave(s) \/ ForgetsSave(s)

BuilderSpec == BuilderInit /\ [][BuilderNext]_builderVars

----------------------------------------------------------------------------
(* What is shown as saved is stored, and a run is one of what was shown:   *)
(* failed saves, lost answers, timers and pages left in between lose       *)
(* nothing silently.  The exceptions are a change, a second save or a run  *)
(* while a save was under way, and another user's save.                    *)
NothingIsLostSilently ==
    page = "execute" \/ (page = "open" /\ ~unsaved) =>
        overtaken \/ stored = canvas
=============================================================================
