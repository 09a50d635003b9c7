SPECIFICATION FairSpec
CONSTANTS
    p1 = p1
    p2 = p2
    Pids <- TwoPids
    Workers = 4
    Expire = 0
    MaxQueue = 3
INVARIANTS
    LoopsAlive
PROPERTIES
    ImplementsLedger
    DeinitAdvances
    ExitedForgotten
    RunningRecorded
CHECK_DEADLOCK FALSE
