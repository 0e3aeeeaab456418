SPECIFICATION FairSpec
CONSTANTS
    s1 = s1
    s2 = s2
    h1 = h1
    h2 = h2
    w1 = w1
    None = None
    Lost = Lost
    Sessions <- OneSession
    Indices <- TwoIndices
    NumChunks = 1
    MaxChunks = 1
    Handlers <- OneHandler
    Workers <- OneWorker
    Driver = "conforming"
    MaxFaults = 2
INVARIANT
    PromotedWhole
PROPERTY
    EventuallyCleaned
CHECK_DEADLOCK FALSE
