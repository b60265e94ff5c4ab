SPECIFICATION Spec
CONSTANTS
    k1 = k1
    k2 = k2
    v1 = v1
    v2 = v2
    c1 = c1
    c2 = c2
    NoVal = NoVal
    NoKey = NoKey
    Keys <- TwoKeys
    Vals <- TwoVals
    Clients <- OneClient
    UseCas = TRUE
    NoEvict = FALSE
    StoreOpts <- AllOpts
    Ttls <- SomeTtls
    Scans <- AllScans
    MaxClock = 4
    MaxCas = 4
SYMMETRY SerialSymmetry
CHECK_DEADLOCK FALSE
INVARIANT CountExact
PROPERTY ImplementsCache
