CONSTANTS
    Node = {1, 2}
    StdLeaderId = TRUE
    MaxIndex = 3
    MaxBatch = 2
    MaxInputs = 3
    MaxCrashes = 0
    KeepLogs = 0
    LogsSinceLast = 0
    PersistCommitted = FALSE
    PersistApply = FALSE
    OlderTail = FALSE
SPECIFICATION Spec
INVARIANT CallbackStillToCome
CHECK_DEADLOCK FALSE
