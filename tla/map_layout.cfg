SPECIFICATION Spec
CONSTANTS
    k1 = k1
    k2 = k2
    k3 = k3
    k4 = k4
    k5 = k5
    NoKey = NoKey
    Keys <- FiveKeys
    HashOf <- Hashes
    InitCap = 2
    LoadOpt = 75
    ShrinkPct = 25
    AllowShrink = TRUE
    DibMod = 256
INVARIANTS
    TypeOK
    LookupExact
    DibExact
    ReinsertSafe
    NothingPassedOver
PROPERTY
    ImplementsRoom
