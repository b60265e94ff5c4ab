SPECIFICATION FairSpec
CONSTANTS
    t1 = t1
    t2 = t2
    t3 = t3
    Threads <- TwoThreads
    NShards = 2
    Free = Free
    NoBatch = NoBatch
    Nil = Nil
    Wrap = 3
    OneKeyBatches = TRUE
    BatchScans = FALSE
INVARIANT NoLostIncrement
PROPERTY AlwaysFreed
