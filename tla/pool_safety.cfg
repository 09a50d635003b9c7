SPECIFICATION Spec
CONSTANTS
    N = 3
    t1 = t1
    t2 = t2
    t3 = t3
    NULL = NULL
    Wild = Wild
    Tasks <- ThreeTasks
    Looping <- NoTask
    UninitRuning <- NullOrWild
    ControlPhases <- AlwaysControl
SYMMETRY TaskSymmetry
INVARIANTS
    IInv
    RuningNotDangling
    NoLostWakeup
PROPERTY ImplementsTaskPool
CHECK_DEADLOCK FALSE
