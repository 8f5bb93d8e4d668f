SPECIFICATION MCSpec
CONSTANTS
    Keys = {k1, k2}
    Ports = {1, 2}
    Conns = {c1}
    None = None
    MaxIdentities = 3
    MaxOperations = 3
    Addrs = 2
    MaxAttempts = 2
    BackoffMin = 1
    BackoffMax = 3
    Size = 1
    Buffer = 1
    MaxOthers = 1
    StallTimeout = 1
    MaxWait = 2
    ReportStalled = TRUE
CHECK_DEADLOCK FALSE
PROPERTIES
    RotationIsSound
    WriterIsSafe
    HandlerReturns
    BridgeIsSound
    InfoIsInvisible
    VerdictsAreEarned
    ProbeEnds
