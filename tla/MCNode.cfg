SPECIFICATION MCSpec
CONSTANTS
    RouteIds = {r1, r2}
    Nobody = Nobody
    MaxCreds = 3
    MaxDevices = 2
    Conns = {"c1", "c2", "c3"}
    Ips = {"ip1", "ip2"}
    IpOf <- TwoClients
    Listeners = {l1, l2}
    NoListener = NoListener
    Protocols <- OneProtocol
    Ports = {p1}
    Mappings = {m1, m2}
    Ops = {o1, o2}
    Loops = {l1, l2}
    None = None
    MaxTeardowns = 1
CHECK_DEADLOCK FALSE
INVARIANTS
    RoutesAreHonest
    IdentityIsKept
    PortsAreAccounted
    ConnectionsAreSeenOut
PROPERTIES
    StopEnds
    PortIsFreed
