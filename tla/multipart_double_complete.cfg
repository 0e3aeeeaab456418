SPECIFICATION Spec
CONSTANTS
    s1 = s1
    s2 = s2
    h1 = h1
    h2 = h2
    w1 = w1
    None = None
    Lost = Lost
    Sessions <- OneSession
    Indices <- TwoIndices
    NumChunks = 2
    MaxChunks = 2
    Handlers <- TwoHandlers
    Workers <- NoWorker
    Driver = "conforming"
    MaxFaults = 0
SYMMETRY Symmetry
INVARIANT
    CompletedIsWhole
CHECK_DEADLOCK FALSE
