SPECIFICATION FairSpec
CONSTANTS
    Node <- TwoNodes
    StdLeaderId = TRUE
    MaxPayload = 3
    ProbeBlock = 2
    Value = {"a"}
    MaxTerm = 1
    MaxLog = 4
    MaxRestarts = 1
    MaxErrors = 2
    MaxDelayed = 1
    AsyncFlush = TRUE
    LimitedReads = TRUE
    Links <- FullMesh
    Initializers <- OneNode
    Electable = {}
INVARIANT LeaderValid
PROPERTY EventuallyCommitted
CHECK_DEADLOCK FALSE
