CONSTANTS
    NoNode = NoNode
    MaxNodes = 3
    MaxEdges = 3
    MaxRetries = 2
    MaxTools = 1
    MaxChunks = 1
    MaxIterations = 3
    Definitions <- MCDefinitions
    Clients = {c1}
    Faults = TRUE
SPECIFICATION FairSpec
INVARIANTS TypeOK  ToldStepsAreLogged FinalEventIsTrue
PROPERTIES ImplementsStream StreamEnds
CHECK_DEADLOCK FALSE
