SPECIFICATION ServerSpec
CONSTANTS
    a = a
    b = b
    c = c
    d = d
    NoUpstream = NoUpstream
    Upstreams <- MCUpstreams
    Priority <- MCPriority
    OptOut <- MCOptOut
    Publishers <- MCPublishers
    Keys <- MCKeys
    Bodies <- MCBodies
    MaxInflight = 3
INVARIANTS
    TypeOK
    InflightBounded
    AskedOnce
    OptOutsNotHedged
    FallbackLast
PROPERTIES
    NegativeJustified
    RequestEnds
CHECK_DEADLOCK FALSE
