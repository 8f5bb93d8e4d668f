SPECIFICATION MCSpec
CONSTANTS
    MaxBytes = 1
    MaxBodyBytes = 1
    MaxWriteBufBytes = 2
    PumpCap = 2
    MaxPollRetries = 2
    MaxPolls = 1
    MaxConns = 2
    LateRequests = FALSE
INVARIANTS
    EndIsHonest
CHECK_DEADLOCK FALSE
