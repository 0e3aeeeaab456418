SPECIFICATION Spec
CONSTANTS
    Components = {"limiter", "quota", "listing", "bus", "metrics", "resume"}
    None = None
    Addresses = {c1, c2}
    Requests = {r1, r2}
    max = 1
    window = 2
    TrustProxy = TRUE
    RequestFaults = 1
    Uploads = {u1, u2}
    Sessions = {m1}
    MaxStorageSize = 2
    Deletes = TRUE
    MaxSkips = 1
    MaxRows = 5
    RowChanges = 2
    MaxPageSize = 3
    DefaultPageSize = 2
    AskedSizes = {0, 1, 3, 4}
    Rules = {"empty", "pages"}
    Subscribers = {s1, s2}
    Events = {e1, e2}
    Recorders = {a1, a2}
    Durations = {1}
    Minute = 1
    MaxTime = 2
    MaxEvents = 2
    TableChanges = 2
    Width = 5
    Sizes = {1, 2, 5, 8, 9}
    ChunkSize = 2
    SendsChunkSize = TRUE
    DefaultChunkSize = 1
    maxChunkStatusEntries = 4
    Connections = {d1, d2}
    ChunkFaults = 2
INVARIANTS
    TypeOK
    
    StuckBounded
    
    MissesBounded
    RepeatsBounded
    OnlyTheSnapshot
    NoEventLost
    RecentWithinTotal
    
    WholeWhenNoneMissing
CHECK_DEADLOCK FALSE
