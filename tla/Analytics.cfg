CONSTANTS
    p1 = p1
    p2 = p2
    r1 = r1
    r2 = r2
    Procs = {p1, p2}
    Readers = {r1, r2}
    ReaderProc <- MCReaderProc
    MaxCommits = 3
    NoEntry = NoEntry
    h1 = h1
    h2 = h2
    LastTenant = 2
    EvaluatorLimit = 2
    Routes <- MCRoutes
    a = a
    Unusable = {h2}
    Codes = {a}
    Incidents = {i1, i2}
    Evaluators = {e1}
    Operators = {o1}
    MaxFailures = 1
    Clerks = {k1, k2}
    MaxRows = 3
    NoRow = NoRow
SPECIFICATION Spec
INVARIANTS StaleOnlyByRace PostsAreSpaced
PROPERTIES ResolvedStaysResolved AlertsAreSent
