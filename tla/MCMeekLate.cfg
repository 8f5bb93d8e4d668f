SPECIFICATION MCSpec
CONSTANTS
    MaxBytes = 3
    MaxBodyBytes = 1
    MaxWriteBufBytes = 2
    PumpCap = 2
    MaxPollRetries = 1
    MaxPolls = 3
    MaxConns = 2
    LateRequests = TRUE
INVARIANTS
    NothingTwice
CHECK_DEADLOCK FALSE
