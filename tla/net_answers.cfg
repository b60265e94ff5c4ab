SPECIFICATION FairSpec
CONSTANTS
    f1 = f1
    f2 = f2
    Fds <- TwoFds
    NThreads = 1
    MaxConns = 2
    QueueSize = 2
    Ports <- OnlyPlain
    Kinds <- AllKinds
    ThreadsFail = FALSE
    MaxCmds <- TwoOne
    MaxOpens = 2
CHECK_DEADLOCK FALSE
PROPERTIES Answered
