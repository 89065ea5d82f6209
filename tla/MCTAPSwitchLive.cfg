\* Liveness: two calls at a time, without symmetry.
CONSTANTS
    s1 = s1
    s2 = s2
    s3 = s3
    p1 = p1
    p2 = p2
    x = x
    d1 = d1
    d2 = d2
    i1 = i1
    i2 = i2
    i3 = i3
    None = None
    NullProxy = NullProxy
    SourceId <- MCTwoSources
    PlayerId <- MCPlayerId
    Proxy <- MCProxy
    RequestData <- MCOneData
    ProxyOutcome <- MCProxyOutcome
    Wiring <- MCTwoPaths
    Invocation <- MCTwoInvocations
SPECIFICATION Spec
INVARIANT HandlerCanGoOn
PROPERTIES
    HandlersFinish
    DeferredAnswered
