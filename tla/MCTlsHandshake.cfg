SPECIFICATION FairSpec
CONSTANTS
    MaxConns = 2
    Cases <- SmallCases
    Users = {"u"}
    Utf8 <- Names
    MaxEntries = 2
    MaxBreaks = 1
    MaxNow = 1
INVARIANT OpenIsNegotiated
INVARIANT FailureHasReason
INVARIANT MessagesSurvive
PROPERTY HandshakeEnds
PROPERTY ImplementsSession
CHECK_DEADLOCK FALSE
