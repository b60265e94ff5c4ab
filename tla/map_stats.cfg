SPECIFICATION SpecStats
CONSTANTS
    k1 = k1
    k2 = k2
    k3 = k3
    k4 = k4
    Keys <- FourKeys
    InitCap = 4
    Caps <- SmallCaps
    LoadOpt = 0
    ShrinkPct = 25
    AllowShrink = TRUE
    Sizes <- TwoSizes
    Garbage <- Stack
    MaxStores = 5
INVARIANTS RoomLeft StatsExact
SYMMETRY Symmetry

