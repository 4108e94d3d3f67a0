CONSTANTS
    p1 = p1
    p2 = p2
    c1 = c1
    c2 = c2
    d1 = d1
    Processes = {p1, p2}
    Conns = {c1, c2, d1}
    ConnsOf <- MCConnsOf
    NoConn = NoConn
    Tenants = {1, 2}
    Intervals = {1}
    FailedBackoff = 2
    TenantLimit = 1
    MaxEvaluation = 1
    MaxDepth = 2
    Faults = TRUE
SYMMETRY MCSymmetry
SPECIFICATION Spec
INVARIANTS OneEvaluation RunsAreSpaced DiagnosticsAgree
