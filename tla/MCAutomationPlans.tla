------------------------- MODULE MCAutomationPlans --------------------------
(* AutomationPlans on small instances. *)
EXTENDS AutomationPlans, TLC

CONSTANTS r1, r2, v1, v2

MCRunners == {r1, r2}
MCReviewers == {v1, v2}

\* Runners are alike, and so are the requests of reviewers.
MCSymmetry == Permutations(MCRunners) \cup Permutations(MCReviewers)
MCRunnerSymmetry == Permutations(MCRunners)
=============================================================================
