CONSTANTS
    Plans = {1, 2}
    Execs = {1,2,3}
    r1 = r1
    r2 = r2
    v1 = v1
    v2 = v2
    Runners <- MCRunners
    Proposers = {q1}
    Reviewers = {v1}
    Proposals = {"approval_gated_retry", "resume_guard"}
    NoPlan = NoPlan
    NoExec = NoExec
    NoOne = NoOne
    OldDeadLetters = {1,2}
    PlanLimit = 2
    ScanWindow = 2
    ConcurrentLimit = 2
    Faults = TRUE
SYMMETRY MCRunnerSymmetry
SPECIFICATION Spec
INVARIANTS VisibleClaimHasEffect
PROPERTIES ResumeIsRecorded
