SPECIFICATION MCTunnelsSpec
CONSTANTS
    MaxBytes = 2
    MaxBodyBytes = 1
    MaxWriteBufBytes = 2
    PumpCap = 2
    MaxPollRetries = 1
    MaxPolls = 2
    MaxConns = 2
    LateRequests = FALSE
    Sockets = {s1, s2}
    Timed = {s1}
    Burst = 2
    Sizes = {1, 2}
    MaxTime = 1
    MaxWrites = 3
    MaxSettings = 1
    Window = 3
    ConsecutiveSlowMin = 2
    MaxTrips = 1
    MaxDialing = 2
    RoomsOnly = FALSE
    Handlers = {h1, h2, h3}
    Speakers = {h1, h2}
    ShortIDs = {i1}
    ReverseTags = {t1, t2}
    Vacant = Vacant
    MaxPairings = 1
    TunnelDials = {d1, d2}
    MaxTickets = 3
    NoSession = NoSession
CHECK_DEADLOCK FALSE
INVARIANTS
    ConnDiesByItsClose
PROPERTIES
    TunnelIsFaithful
    TokensAreDealtInTurn
    OutboundIsSound
    SessionsAreSound
    TunnelIsSound
