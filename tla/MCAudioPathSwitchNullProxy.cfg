\* PeersCanBeCalled does not hold if creating a proxy may fail.
CONSTANTS
    s1 = s1
    s2 = s2
    s3 = s3
    p1 = p1
    p2 = p2
    x = x
    d1 = d1
    d2 = d2
    None = None
    NullProxy = NullProxy
    SourceId <- MCSourceId
    PlayerId <- MCPlayerId
    Proxy <- MCProxy
    RequestData <- MCRequestData
    ProxyOutcome <- MCProxyMayFail
    Wiring <- MCWiring
SPECIFICATION SwitchSpec
INVARIANT PeersCanBeCalled
