SPECIFICATION FairSpec
CONSTANTS
    c1 = c1
    c2 = c2
    CPUs <- TwoCPUs
    Size = 7
    E = 3
    Word = 32
    TornLens <- ShortLens
    MaxCalls = 6
INVARIANTS
    GateInv
    CountersSound
    UnreadIntact
    PollSeesAll
PROPERTIES
    ImplementsChannel
    SpaceExact
    AllDelivered
CHECK_DEADLOCK FALSE
