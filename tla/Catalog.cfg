CONSTANTS
    c1 = c1
    c2 = c2
    d1 = d1
    d2 = d2
    Workflows = {w1, w2}
    Nodes = {n1, n2}
    Editors = {e1, e2}
    MaxWorkflows = 1
    MaxAgents = 1
    MaxRuns = 2
    Nobody = Nobody
    Tools = {t1, t2}
    Names = {x, y}
    Secrets = {k}
    Clients = {c1, c2}
    Mask = Mask
    None = None
    Agents = {a1}
    Models = {safe, m}
    ValidModels = {safe}
    SafeModel = safe
    Doctors = {d1, d2}
    MaxExecs = 1
    MaxRetries = 2
    MaxSuggs = 2
    Nil = Nil
    Drawings = {g1, g2}
    Slots = {s1, s2}
    NoSave = NoSave
SYMMETRY MCSymmetry
SPECIFICATION Spec
INVARIANTS PlanLimitsHold  
    RetriedOnce OneOpenSuggestion 
PROPERTIES SettledIsFinal
