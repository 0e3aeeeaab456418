SPECIFICATION FairSpec
CONSTANTS
    k1 = k1
    k2 = k2
    k3 = k3
    a = a
    b = b
    x = x
    y = y
    h1 = h1
    h2 = h2
    w1 = w1
    None = None
    Torn = Torn
    Ids <- TwoIds
    Stored <- TwoStored
    Buckets <- OneBucket
    Contents <- OneContent
    Handlers <- OneHandler
    Workers <- OneWorker
    Ops <- EditDelete
    DedupEnabled = TRUE
    Driver = "conforming"
    Dates <- BothTicks
    MaxTime = 1
    MaxFaults = 1
    MaxOpens = 1
PROPERTIES
    EventuallyPurged
CHECK_DEADLOCK FALSE
