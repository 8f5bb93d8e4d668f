SPECIFICATION MCSpec
CONSTANTS
    Tags = {"a", "b", "l"}
    Objects = {"a1", "a2", "b1", "l1"}
    TagOf <- ObjectTags
    LastResort = {"l"}
    Excluded = {}
    Urls = {"u", "v"}
    DefaultUrl = "u"
    InitialTags <- OneTag
    Limit = 1
    MaxSequence = 2
    MaxMembership = 3
    MaxGeneration = 1
    MaxPauseEpoch = 1
    PauseSources = {"device"}
    MaxAge = 1
    MaxWaiting = 1
CHECK_DEADLOCK FALSE
INVARIANTS
    SlotsAccounted
    NeedsAreKept
    LiveAttemptIsCurrent
    NoMissedWakeup
PROPERTIES
    NeedsAreAnswered
    
