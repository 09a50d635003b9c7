SPECIFICATION FairSpec
CONSTANTS
    r1 = r1
    r2 = r2
    rNull = rNull
    rNone = rNone
    execve_x = execve_x
    openat_x = openat_x
    close_e = close_e
    NULL = NULL
    Rules <- FourRules
    Tree <- SomeTree
    Hits <- SomeHits
    Directories <- SomeDirectories
    Types <- ThreeTypes
    Params <- SomeParams
    MaxParams = 2
    RingSize = 2
    MaxEvents = 3
INVARIANTS
    RulesKept
    EnrichedIsNewest
PROPERTIES
    ImplementsFeed
    LoopAdvances
    NewestSeen
CHECK_DEADLOCK FALSE
