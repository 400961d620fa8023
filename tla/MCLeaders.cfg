SPECIFICATION LeadersSpec
CONSTANTS
    Node <- ThreeNodes
    StdLeaderId = TRUE
    MaxTerm = 2
    Lease = 1
    ElectionTimeout = 0
    SmallerLogTimeout = 0
    Electable <- OneAfterTheOther
    MaxDisruptions = 1
    ReadElectable <- OneThenAll
    SavesCommitted = TRUE
    MaxLog = 3
    MaxRestarts = 1
    MaxValue = 4
    Server = {1, 2, 3}
    User = {1, 2}
    Candidate = {2}
    App = {"memstore", "rocksdb", "grpc", "network-v2", "opendal", "singlethreaded"}
    Requests = {"write", "read", "linearizable_read"}
    MaxCalls = 2
    MaxDrops = 1
INVARIANTS LeadersComparable IInv LeaseInv ReadLinearizable GrantedIsGreatest
    ReadSeesAcked LeaderFound NoCallStuck
CHECK_DEADLOCK FALSE
