\* Two-part registrations, again and again, crashes, restarts, errors, and up to two calls that time out.
CONSTANTS
    s1 = s1
    p1 = p1
    p2 = p2
    d1 = d1
    None = None
    NullProxy = NullProxy
    MaxLives = 3
    MaxTimeouts = 2
    SourceId <- MCSourceId
    PlayerId <- MCPlayerId
    Proxy <- MCProxy
    RequestData <- MCRequestData
    ProxyOutcome <- MCProxyOutcome
    Wiring <- MCWiring
    Mortal <- MCMortal
SPECIFICATION RegisteringSpec
INVARIANTS
    RegisteringTypeOK
    AnsweredBeforeCalled
    SwitchBelievesProcesses
PROPERTY ImplementsSystem
