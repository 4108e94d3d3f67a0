CONSTANTS
    d1 = d1
    d2 = d2
    Execs = {1, 2, 3}
    Workers <- MCWorkers2
    Procs <- MCWorkers2
    ProcOf <- MCProcOf
    NoExec = NoExec
    NoOne = NoOne
    Budget = 1
    MaxTokens = 1
    TokenCounts = {1}
    MaxNodes = 1
    MaxIterations = 1
    Workflows = {w1}
    ConcurrentLimit = 1
    BacklogLimit = 2
    ScanLimit = 3
    DispatchLimit = 2
    MaxAttempts = 2
    LastAdmitted = 3
    Faults = TRUE
SPECIFICATION Spec
SYMMETRY MCSymmetry
INVARIANTS   SingleRunner
CHECK_DEADLOCK FALSE
