------------------------- MODULE AdmissionContract --------------------------
(***************************************************************************)
(* What the execution subsystem promises one tenant, whatever happens to   *)
(* the processes that run it: an execution is admitted only while the      *)
(* tenant has budget left and a free slot, both judged at the moment the   *)
(* execution becomes visible; an execution that is closed stays closed; a  *)
(* charge is booked on the tenant and on an execution at once, and never   *)
(* takes the tenant over its budget.                                       *)
(***************************************************************************)
EXTENDS Integers, FiniteSets

CONSTANTS
    Jobs,           \* executions
    Slots,          \* concurrent executions of the tenant's plan
    Allowance       \* the tenant's monthly budget

VARIABLES
    phase,          \* phase[j]: "absent", "open" (holds a slot) or "closed"
    booked,         \* booked[j]: tokens charged to j
    spent           \* tokens charged to the tenant

vars == <<phase, booked, spent>>

Open == {j \in Jobs : phase[j] = "open"}

Init ==
    /\ phase = [j \in Jobs |-> "absent"]
    /\ booked = [j \in Jobs |-> 0]
    /\ spent = 0

Admit(j) ==
    /\ phase[j] = "absent"
    /\ spent < Allowance
    /\ Cardinality(Open) < Slots
    /\ phase' = [phase EXCEPT ![j] = "open"]
    /\ UNCHANGED <<booked, spent>>

Close(j) ==
    /\ phase[j] = "open"
    /\ phase' = [phase EXCEPT ![j] = "closed"]
    /\ UNCHANGED <<booked, spent>>

Charge(j, n) ==
    /\ phase[j] # "absent"
    /\ spent + n <= Allowance
    /\ spent' = spent + n
    /\ booked' = [booked EXCEPT ![j] = @ + n]
    /\ UNCHANGED phase

Next ==
    \E j \in Jobs :
        \/ Admit(j)
        \/ Close(j)
        \/ \E n \in 0..Allowance : Charge(j, n)

Spec == Init /\ [][Next]_vars
=============================================================================
