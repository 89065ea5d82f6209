\* The daemon ends and starts again; the proxy of the source may be null, and
\* the source may crash.
CONSTANTS
    s1 = s1
    p1 = p1
    p2 = p2
    d1 = d1
    None = None
    NullProxy = NullProxy
    MaxLives = 1
    MaxTimeouts = 0
    Fragile <- MCFragile
    MaxInbox = 1
    SourceId <- MCSourceId
    PlayerId <- MCPlayerId
    Proxy <- MCProxy
    RequestData <- MCRequestData
    ProxyOutcome <- MCProxyOutcome
    Wiring <- MCWiring
    Mortal <- MCMortal
SPECIFICATION ServiceSpec
INVARIANTS
    ServiceTypeOK
    BelieveOrOrphaned
    ToldByThisDaemon
PROPERTY SignalHonoured
