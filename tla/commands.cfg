SPECIFICATION Spec
CONSTANTS
    W = 4
    UseCas = TRUE
    UseSixpack = TRUE
    Base = 3
    tosix <- Six1
    c1 = c1
    c2 = c2
    None = None
    Conns <- TwoConns
    Proto <- Protos
    Keys <- TwoKeys
    NShards = 3
    ShardOf <- Shard2
    Menus <- AllMenus
    NProcs = 2
    SECOND = 2
    MILLISECOND = 1
    MONTH = 5
    Epoch = 2
    MaxVal = 3
    MaxClock = 3
VIEW View
INVARIANTS TypeOK Faithful AnswersMeant Isolated KeysComplete FlushComplete SweepComplete
CHECK_DEADLOCK FALSE
