\* No call times out, no process crashes: only the daemon is restarted.
CONSTANTS
    s1 = s1
    p1 = p1
    p2 = p2
    d1 = d1
    None = None
    NullProxy = NullProxy
    MaxLives = 1
    MaxTimeouts = 0
    Fragile <- MCNobody
    MaxInbox = 1
    SourceId <- MCSourceId
    PlayerId <- MCPlayerId
    Proxy <- MCProxy
    RequestData <- MCRequestData
    ProxyOutcome <- MCProxyOutcome
    Wiring <- MCWiring
    Mortal <- MCNobody
SPECIFICATION ServiceSpec
INVARIANT Exclusive
