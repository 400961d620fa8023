SPECIFICATION Spec
CONSTANTS
    Node <- ThreeNodes
    StdLeaderId = TRUE
    MaxPayload = 1
    ProbeBlock = 2
    Value = {"a"}
    MaxTerm = 2
    MaxLog = 3
    MaxRestarts = 1
    MaxErrors = 0
    MaxDelayed = 0
    AsyncFlush = FALSE
    LimitedReads = FALSE
    Links <- Star
    Initializers <- OneNode
    Electable = {2}
INVARIANTS CommittedAgree MatchingIsReplicated
CHECK_DEADLOCK FALSE
