SPECIFICATION MCSpec
CONSTANTS
    left = left
    right = right
    c1 = c1
    c2 = c2
    c3 = c3
    c4 = c4
    same = same
    other = other
    Nodes <- MCNodes
    Clients <- MCClients
    Home <- MCHome
    Hash <- MCHash
    RaceLimit = 1
    GateLimit = 1
    MaxDepth = 3
    MaxRequests = 2
INVARIANTS
    TypeOK
    HopsBounded
PROPERTY
    LookupsAnswered
CHECK_DEADLOCK FALSE
