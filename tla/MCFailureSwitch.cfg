SPECIFICATION SwitchSpec
CONSTANTS
    Tags = {"a", "b"}
    Objects = {"a1", "b1"}
    TagOf <- ObjectTags
    LastResort = {}
    Excluded = {}
    Urls = {"u"}
    DefaultUrl = "u"
    NoTag = ""
    InitialTags <- TwoTags
    Persisted = {"b"}
    Limit = 2
    MaxSequence = 5
    MaxMembership = 2
    MaxGeneration = 0
    MaxPauseEpoch = 0
    PauseSources = {"device"}
    MaxAge = 0
CHECK_DEADLOCK FALSE
INVARIANTS
    StickyIsMember
PROPERTIES
    SwitchIsJustified
