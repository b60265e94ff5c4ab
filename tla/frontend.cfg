SPECIFICATION Spec
CONSTANTS
    W = 8
    MAXARGS = 5
    MAXARGSZ = 20
    PGNAMEDATALEN = 4
    Scenarios <- AllScenarios
INVARIANTS
    ServedWhenWhole
    
    PasswordFirst
CHECK_DEADLOCK FALSE
