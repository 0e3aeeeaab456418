SPECIFICATION Spec
CONSTANTS
    k1 = k1
    k2 = k2
    k3 = k3
    a = a
    b = b
    x = x
    y = y
    h1 = h1
    h2 = h2
    w1 = w1
    None = None
    Torn = Torn
    Ids <- ThreeIds
    Stored <- OneStored
    Buckets <- OneBucket
    Contents <- OneContent
    Handlers <- TwoHandlers
    Workers <- OneWorker
    Ops <- UploadDelete
    DedupEnabled = FALSE
    Driver = "conforming"
    Dates <- SecondTick
    MaxTime = 1
    MaxFaults = 2
    MaxOpens = 1
SYMMETRY Symmetry
INVARIANTS
    DamageBounded
CHECK_DEADLOCK FALSE
