SPECIFICATION WaitersSpec
CONSTANTS
    Tags = {"a"}
    Objects = {"a1"}
    TagOf <- ObjectTags
    LastResort = {}
    Excluded = {}
    Urls = {"u", "v"}
    DefaultUrl = "u"
    InitialTags <- OneTag
    Limit = 1
    MaxSequence = 4
    MaxMembership = 1
    MaxGeneration = 0
    MaxPauseEpoch = 0
    PauseSources = {"device"}
    MaxAge = 0
    MaxWaiting = 1
CHECK_DEADLOCK FALSE
PROPERTIES
    ExhaustionMeansFailure
