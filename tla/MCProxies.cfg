SPECIFICATION ProxiesSpec
CONSTANTS
    Conns = {c1, c2}
    MaxFlows = 1
    OutSize = 2
    MaxReqs = 5
    Tunnels = {t1, t2}
    Handlers = {b1, b2}
    Original = Original
    MaxHeld = 3
    Hosts = {h1, h2, h3}
    Files = {"a", "b"}
    clean <- MCclean
    Shakes = {k1, k2}
    None = None
    Torn = Torn
    MaxMade = 3
    Streams = {s1, s2, s3}
    RemoteAddr <- MCRemoteAddr
    StreamSize = 2
    MaxEvents = 3
    DefaultLimit = 2
    MaxResults = 3
    Routes <- MCRoutes
    Default = "default"
    NoTarget = "none"
    Logins <- MCLogins
    ReqCap = 1
    Window = 1
    MaxIn = 1
    MaxAsked = 2
    MaxOut = 1
    MaxErr = 1
    h1 = h1
    h2 = h2
    h3 = h3
    s1 = s1
    s2 = s2
    s3 = s3
INVARIANTS
    FlowsListed
    DecisionsKept
    CertsMatch
    StreamsAndPages
    SessionsServed
    RouterGoesOn
PROPERTIES
    FlowsKept
    HeldRequestsEnd
    InputFollowsRequest
CHECK_DEADLOCK FALSE
