SPECIFICATION Spec
CONSTANTS
    f1 = f1
    f2 = f2
    Fds <- TwoFds
    NThreads = 2
    MaxConns = 1
    QueueSize = 1
    Ports <- BothPorts
    Kinds <- AllKinds
    ThreadsFail = TRUE
    MaxCmds <- TwoOne
    MaxOpens = 2
CHECK_DEADLOCK FALSE
INVARIANTS TypeOK Assertions WorkerKeepsConn RepliesInOrder LimitKept
