--------------------------- MODULE MCSchedulerLease ----------------------------
(* SchedulerLease on small instances. *)
EXTENDS SchedulerLease, TLC

CONSTANTS p1, p2, c1, c2, d1

MCConnsOf == p1 :> {c1, c2} @@ p2 :> {d1}

\* The connections of a pool are alike.
MCSymmetry == Permutations({c1, c2})
=============================================================================
