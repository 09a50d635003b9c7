SPECIFICATION FairSpec
CONSTANTS
    MaxSignals = 2
    MaxLogs = 2
    MaxAlerts = 2
    AlertWorkers = 2
INVARIANT CtrlCSafe
CHECK_DEADLOCK FALSE
