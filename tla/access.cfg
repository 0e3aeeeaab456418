SPECIFICATION Spec
CONSTANTS
    b1 = b1
    none = none
    keep = keep
    NoToken = none
    Keep = keep
    Blobs = {b1}
    Readers = {r1}
    Writers = {w1}
    Methods = {"GET", "PUT", "POST", "DELETE"}
    Paths <- AllPaths
    Arrivals <- SomeRequests
    Keys <- KeyPerms
    Edits <- SomeEdits
    LinkTTL = 1
    HashFallback = TRUE
    MaxTime = 2
INVARIANTS
    TypeOK
    RoutesAsDocumented
    SecretKept
    LapsedRefused
PROPERTY
    WritesPermitted
