SPECIFICATION Spec
CONSTANTS
    k1 = k1
    k2 = k2
    v1 = v1
    v2 = v2
    c1 = c1
    c2 = c2
    NoVal = NoVal
    NoKey = NoKey
    Keys <- TwoKeys
    Vals <- TwoVals
    Clients <- TwoClients
    UseCas = TRUE
    NoEvict = FALSE
    StoreOpts <- PlainOpts
    Ttls <- OneTtl
    Scans <- OnlyClear
    MaxClock = 3
    MaxCas = 4
SYMMETRY Symmetry
CHECK_DEADLOCK FALSE
INVARIANT NoFalseClear
