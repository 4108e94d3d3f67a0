CONSTANTS
    e1 = e1
    e2 = e2
    p1 = p1
    p2 = p2
    Execs <- MCExecs
    Workers <- MCExecs
    Procs <- MCProcs2
    ProcOf <- MCTwoProcs
    NoExec = NoExec
    Budget = 3
    MaxTokens = 1
    TokenCounts = {1, 2}
    MaxNodes = 2
    MaxIterations = 2
    ConcurrentLimit = 1
    Cancels = {c1}
    Faults = TRUE
SPECIFICATION Spec
INVARIANTS ConcurrencyCapped LiveRunHoldsSlot
PROPERTIES NoResurrection ImplementsContract
CHECK_DEADLOCK FALSE
