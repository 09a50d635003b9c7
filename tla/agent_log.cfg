SPECIFICATION FairSpec
CONSTANTS
    MaxSignals = 1
    MaxLogs = 2
    MaxAlerts = 1
    AlertWorkers = 2
INVARIANT LogFlushed
CHECK_DEADLOCK FALSE
