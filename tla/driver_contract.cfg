SPECIFICATION Spec
CONSTANTS
    p1 = p1
    p2 = p2
    p3 = p3
    k1 = k1
    k2 = k2
    v1 = v1
    None = None
    Torn = Torn
    Callers <- ThreeCallers
    Dirs <- NestedBuckets
    Keys <- OneKey
    Bodies <- OneBody
    Standing <- Nothing
    OneVolume = TRUE
    Ops <- AllOps
    MaxFaults = 1
SYMMETRY Symmetry
INVARIANTS
    TypeOK
    Orderly
    NoEmptyDirs

    
CHECK_DEADLOCK FALSE
