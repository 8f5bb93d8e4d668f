SPECIFICATION MCSpec
CONSTANTS
    Tags = {"a"}
    Groups = {"g", "h"}
    Replacers = {"g"}
    KindsOf <- OneKindEach
    MaxEnqueues = 3
    MaxSpawned = 2
    Networks = {"tcp", "udp"}
    Carries <- MCCarries
    LastResorts = {3}
    Delays = {1, 4}
    Stored <- MCStored
    FailLimit = 2
    SoftLimit = 1
    FailureWindow = 3
    Dedupe = 2
    GateMin = 1
    MaxPersistedAge = 1
    Tolerance = 1
    TolerancePercent = 50
    MaxEvents = 3
    Conns = {c1, c2}
    MaxEntries = 2
    MaxOwed = 2
    Callers = {w1, w2}
    Rate = 2
    Sizes = {1, 3}
    MaxTime = 2
    MaxDebt = 4
    Packets = {"a", "b"}
    MaxArrived = 4
CHECK_DEADLOCK FALSE
INVARIANTS
    UsageIsAccounted
    PacketsPassClean
PROPERTIES
    QueueKeepsItsWord
    WorkedQueueDrains
    RankingIsSound
    
