SPECIFICATION FairSpec
CONSTANTS
    N = 2
    t1 = t1
    t2 = t2
    t3 = t3
    NULL = NULL
    Wild = Wild
    Tasks <- ThreeTasks
    Looping <- NoTask
    UninitRuning <- NullOnly
    ControlPhases <- ReadyOnly
INVARIANT JoinUnblocked
PROPERTIES
    JoinAdvances
    DestroyReturns
    TaskServed
CHECK_DEADLOCK FALSE
