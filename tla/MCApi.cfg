SPECIFICATION ApiSpec
CONSTANTS
    Caller = {1, 2}
    Ops = {"write", "change", "sm", "trigger", "shutdown"}
    MaxForeign = 2
    MaxDisruptions = 2
    Cancels = 1
    Snapshots = TRUE
    StorageFails = TRUE
    Node = {1, 2}
    StdLeaderId = TRUE
    Self = 1
    Waiter = {w}
    MaxMoves = 2
    MaxIndex = 2
    Total = 20
    Unit = 2
    MaxQueue = 2
INVARIANTS
    AnswerIsOwn
    ShutdownInv
    WaitTold
PROPERTIES
    EveryCallReturns
    WaitWakes
    EveryChannelServed
CHECK_DEADLOCK FALSE
