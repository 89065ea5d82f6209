\* Overlapping registrations, some of which get no proxy.
CONSTANTS
    s1 = s1
    s2 = s2
    p1 = p1
    p2 = p2
    x = x
    i1 = i1
    i2 = i2
    None = None
    NullProxy = NullProxy
    SourceId <- MCSourceId
    PlayerId <- MCPlayerId
    Proxy <- MCProxy
    Invocation <- MCInvocation
SPECIFICATION Spec
SYMMETRY Symmetry
INVARIANTS
    TypeOK
    EveryPathKnown
    EveryComponentListed
PROPERTY PathsOnlyGrow
