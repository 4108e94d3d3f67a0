----------------------------- MODULE MCCatalog -----------------------------
(* What the owners and editors of a tenant edit: workflows and agents,     *)
(* tools, the suggestions of the workflow doctor, and the drawing of a     *)
(* workflow.  A behaviour moves one of the four, its focus.                *)
EXTENDS WorkflowCatalog, ToolRegistry, WorkflowDoctor, WorkflowBuilder, TLC

CONSTANTS c1, c2, d1, d2

MCSymmetry == Permutations({c1, c2}) \cup Permutations({d1, d2})

VARIABLE focus

vars == <<focus, catalogVars, toolVars, doctorVars, builderVars>>

Init ==
    /\ focus \in {"catalog", "tools", "doctor", "builder"}
    /\ CatalogInit /\ ToolInit /\ DoctorInit /\ BuilderInit
    /\ focus # "doctor" => model = [a \in Agents |-> SafeModel]
    /\ focus # "builder" => stored = CHOOSE g \in Drawings : TRUE

Next ==
    /\ UNCHANGED focus
    /\ \/ focus = "catalog" /\ CatalogNext /\ UNCHANGED <<toolVars, doctorVars, builderVars>>
       \/ focus = "tools" /\ ToolNext /\ UNCHANGED <<catalogVars, doctorVars, builderVars>>
       \/ focus = "doctor" /\ DoctorNext /\ UNCHANGED <<catalogVars, toolVars, builderVars>>
       \/ focus = "builder" /\ BuilderNext /\ UNCHANGED <<catalogVars, toolVars, doctorVars>>

Spec == Init /\ [][Next]_vars

=============================================================================
