SPECIFICATION Spec
CONSTANTS
    Node <- ThreeNodes
    StdLeaderId = TRUE
    MaxPayload = 2
    ProbeBlock = 16
    Value = {"a", "b"}
    MaxTerm = 1
    MaxLog = 3
    MaxRestarts = 1
    MaxErrors = 0
    MaxDelayed = 0
    AsyncFlush = TRUE
    LimitedReads = FALSE
    Links <- FullMesh
    Initializers <- OneNode
    Electable = {}
INVARIANT LogIdIdentifiesEntry
CHECK_DEADLOCK FALSE
