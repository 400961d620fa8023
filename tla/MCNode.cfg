SPECIFICATION NodeSpec
CONSTANTS
    Node = {1, 2}
    StdLeaderId = TRUE
    MaxIndex = 3
    MaxBatch = 2
    MaxInputs = 4
    MaxCrashes = 1
    KeepLogs = 0
    LogsSinceLast = 1
    PersistCommitted = TRUE
    PersistApply = FALSE
    OlderTail = FALSE
    ListIndex = 7
    ListBatch = 3
    MaxLeader = 3
    Stores = {"memstore", "kvmem", "grpc", "v2", "opendal", "single", "rocks", "kvrocks"}
    StoreLog = 2
    StoreTerm = 2
    MaxBuilds = 2
    MaxInstalls = 1
    StoreCrashes = 1
    Chunks = 3
    MaxSnaps = 2
    MaxLate = 2
    MaxFaults = 2
    MaxPayloadEntries = 3
    Limit = 1
    HintTTL = 1
    Networks = {"memstore", "grpc", "v2"}
    TaskLog = 2
    TaskFaults = 1
INVARIANTS
    TypesOK
    RestartSucceeds
    ExpectedState
    AppliedOnce
    CommittedAgreed
    AckedDurable
    CommandsDrain
    ListAgrees
    PurgedIsInSnapshot
    AckedIsInstalled
    OneDataInFlight
    LogsKept
PROPERTIES
    LoadRestoresKeys
    SnapshotReachesFollower
    TaskServes
CHECK_DEADLOCK FALSE
