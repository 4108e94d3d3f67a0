CONSTANTS
    Plans = {1}
    Execs = {1,2,3,4}
    r1 = r1
    r2 = r2
    v1 = v1
    v2 = v2
    Runners <- MCRunners
    Proposers = {q1}
    Reviewers <- MCReviewers
    Proposals = {"approval_gated_retry", "other"}
    NoPlan = NoPlan
    NoExec = NoExec
    NoOne = NoOne
    OldDeadLetters = {1,2}
    PlanLimit = 2
    ScanWindow = 2
    ConcurrentLimit = 2
    Faults = TRUE
SYMMETRY MCSymmetry
SPECIFICATION Spec
INVARIANTS OncePerApproval 
