SPECIFICATION LiveSpec
CONSTANTS
    Tags = {"a"}
    Objects = {"a1"}
    TagOf <- ObjectTags
    LastResort = {}
    Excluded = {}
    Urls = {"u"}
    DefaultUrl = "u"
    InitialTags <- OneTag
    Limit = 1
    MaxSequence = 2
    MaxMembership = 1
    MaxGeneration = 1
    MaxPauseEpoch = 0
    PauseSources = {"device"}
    MaxAge = 0
    MaxWaiting = 1
CHECK_DEADLOCK FALSE
PROPERTIES
    
    CallersReturn
