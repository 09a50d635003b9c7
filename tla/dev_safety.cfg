SPECIFICATION FairSpec
CONSTANTS
    p1 = p1
    p2 = p2
    f1 = f1
    f2 = f2
    o1 = o1
    o2 = o2
    c1 = c1
    openat = openat
    NULL = NULL
    Procs <- TwoProcs
    Files <- TwoFiles
    Objs <- TwoObjs
    CPUs <- OneCPU
    Syscalls <- OneTraced
    Traced <- OneTraced
    TPs <- OneTP
    Cmds <- SomeCmds
    Regions <- BothRegions
    CmdlineMayFail = TRUE
INVARIANTS
    OneConsumer
    FilesOwn
    ReleaseUnblocked
PROPERTIES
    ImplementsReclamation
    ReleaseReturns
CHECK_DEADLOCK FALSE
