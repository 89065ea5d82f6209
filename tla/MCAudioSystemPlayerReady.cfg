\* PlayerReadyWhenSelected does not hold.
CONSTANTS
    s1 = s1
    s2 = s2
    p1 = p1
    p2 = p2
    d1 = d1
    None = None
    NullProxy = NullProxy
    MaxLives = 2
    MaxTimeouts = 0
    SourceId <- MCSourceId
    PlayerId <- MCPlayerId
    Proxy <- MCProxy
    RequestData <- MCRequestData
    ProxyOutcome <- MCProxyOutcome
    Wiring <- MCWiring
    Mortal <- MCMortal
SPECIFICATION SystemSpec
INVARIANT PlayerReadyWhenSelected
