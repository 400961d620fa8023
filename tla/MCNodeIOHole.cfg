CONSTANTS
    Node = {1, 2}
    StdLeaderId = TRUE
    MaxIndex = 3
    MaxBatch = 2
    MaxInputs = 4
    MaxCrashes = 1
    KeepLogs = 0
    LogsSinceLast = 0
    PersistCommitted = FALSE
    PersistApply = FALSE
    OlderTail = TRUE
SPECIFICATION Spec
INVARIANTS
    NoHole
CHECK_DEADLOCK FALSE
