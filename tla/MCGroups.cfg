SPECIFICATION MCSpec
CONSTANTS
    Tags = {"a", "b"}
    Objects = {"a1", "a2", "b1"}
    TagOf <- ObjectTags
    Networks = {"tcp"}
    Supports <- ObjectNetworks
    Urls = {u1, u2}
    DefaultUrl = u1
    Delays = {1, 3}
    Tolerance = 1
    Dials = {d1}
    MaxAttempts = 2
    MaxOverrides = 1
    None = None
    SelTags = {"a", "b"}
    SelObjects = {"a1", "a2", "b1"}
    SelTagOf <- SelectorTags
    SelDials = {d1, d2}
    Nothing = Nothing
    ProvedReadBytes = 1
CHECK_DEADLOCK FALSE

    
PROPERTIES
    GroupIsCurrent
    GroupSettles
    ChargesAreFair
    SilenceIsCharged
