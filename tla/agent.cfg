SPECIFICATION FairSpec
CONSTANTS
    MaxSignals = 2
    MaxLogs = 2
    MaxAlerts = 1
    AlertWorkers = 2
INVARIANTS
    UsersGoneFirst
    ReleasedAtExit
PROPERTIES
    ReleasedInOrder
    CleanupAdvances
    CleanExit
CHECK_DEADLOCK FALSE
