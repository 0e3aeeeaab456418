SPECIFICATION Spec
CONSTANTS
    k1 = k1
    k2 = k2
    k3 = k3
    a = a
    b = b
    x = x
    y = y
    h1 = h1
    h2 = h2
    w1 = w1
    None = None
    Torn = Torn
    Ids <- TwoIds
    Stored <- OneStored
    Buckets <- OneBucket
    Contents <- OneContent
    Handlers <- OneHandler
    Workers <- NoWorker
    Ops <- UploadOnly
    DedupEnabled = TRUE
    Driver = "filesystem"
    Dates <- NoDates
    MaxTime = 0
    MaxFaults = 0
    MaxOpens = 1
PROPERTIES
    BucketEnsured
CHECK_DEADLOCK FALSE
