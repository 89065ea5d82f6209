\* Proxies can always be created: the daemon never stops.
CONSTANTS
    s1 = s1
    s2 = s2
    s3 = s3
    p1 = p1
    p2 = p2
    x = x
    d1 = d1
    d2 = d2
    None = None
    NullProxy = NullProxy
    SourceId <- MCSourceId
    PlayerId <- MCPlayerId
    Proxy <- MCProxy
    RequestData <- MCRequestData
    ProxyOutcome <- MCProxyOutcome
    Wiring <- MCWiring
SPECIFICATION SwitchSpec
INVARIANTS
    SwitchTypeOK
    SourceXorPending
    PathIntact
    LookupsSucceed
    CallsInOrder
    SwitchInv
PROPERTY ImplementsRoute
