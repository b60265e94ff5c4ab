SPECIFICATION FairSpec
CONSTANTS
    N = 4
    NProcs = 2
CHECK_DEADLOCK FALSE
INVARIANT NoLostWakeup
PROPERTIES ImplementsLoad LoadEnds
