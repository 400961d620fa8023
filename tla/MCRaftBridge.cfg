SPECIFICATION Spec
CONSTANTS
    Node <- ThreeNodes
    StdLeaderId = FALSE
    MaxPayload = 2
    ProbeBlock = 2
    Value = {"a"}
    MaxTerm = 2
    MaxLog = 3
    MaxRestarts = 1
    MaxErrors = 0
    MaxDelayed = 1
    AsyncFlush = FALSE
    LimitedReads = FALSE
    Links <- Bridge
    Initializers <- TwoNodes
    Electable = {1}
INVARIANTS LogMatching LeaderCompleteness
PROPERTY ImplementsLeadership
CHECK_DEADLOCK FALSE
