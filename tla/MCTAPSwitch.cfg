\* Safety: three calls at a time, two kinds of request data.
CONSTANTS
    s1 = s1
    s2 = s2
    s3 = s3
    p1 = p1
    p2 = p2
    x = x
    d1 = d1
    d2 = d2
    i1 = i1
    i2 = i2
    i3 = i3
    None = None
    NullProxy = NullProxy
    SourceId <- MCSourceId
    PlayerId <- MCPlayerId
    Proxy <- MCProxy
    RequestData <- MCRequestData
    ProxyOutcome <- MCProxyOutcome
    Wiring <- MCWiring
    Invocation <- MCInvocation
SPECIFICATION Spec
SYMMETRY Symmetry
INVARIANTS
    TypeOK
    PendingOnlyWhileBlocked
    QueueMatchesPending
    NoRequestLost
    SignalTracksRoute
    SignalTracksPlayer
    NoUnexpectedResult
PROPERTY AnswersTruthful
