CONSTANTS
    d1 = d1
    d2 = d2
    Execs = {1, 2, 3, 4}
    Workers <- MCWorkers1
    Procs <- MCWorkers1
    ProcOf <- MCProcOf
    NoExec = NoExec
    NoOne = NoOne
    Budget = 2
    MaxTokens = 1
    TokenCounts = {1}
    MaxNodes = 1
    MaxIterations = 1
    Workflows = {w1, w2}
    ConcurrentLimit = 1
    BacklogLimit = 2
    ScanLimit = 4
    DispatchLimit = 1
    MaxAttempts = 2
    LastAdmitted = 2
    Faults = FALSE
SPECIFICATION FairSpec
PROPERTY NoStarvation
CHECK_DEADLOCK FALSE
