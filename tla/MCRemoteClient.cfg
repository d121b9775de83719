SPECIFICATION FairSpec
CONSTANTS
    MaxConns = 1
    Modes <- AllModes
    BufSize = 3
    BlockSize = 4
    MacSize = 2
    Window = 2
    Replies <- SomeReplies
    MaxBreaks = 1
    Servers = {"s1", "s2"}
    MaxRuns = 5
    MaxCrashes = 1
    OtherCalls <- Others
INVARIANT HandledIsWanted
INVARIANT ReplyIsWhole
INVARIANT FailsForReason
PROPERTY CallsEnd
CHECK_DEADLOCK FALSE
