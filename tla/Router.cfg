SPECIFICATION MCSpec
CONSTANTS
    r1 = r1
    r2 = r2
    r3 = r3
    cache = cache
    plain = plain
    vetoed = vetoed
    None = None
    Upstreams = {cache}
    Verifies <- MCVerifies
    Bodies <- MCBodies
    Configs <- MCConfigs
    Requests = {r1, r2, r3}
    RouteTTL = 1
    NegativeTTL = 1
    MissTTL = 1
    MaxTime = 2
    Arrivals = {"Client", "Peer", "PeerOfPeer"}
    Flaky = {cache}
    Lifetimes = {1}
    MaxRestarts = 1
INVARIANTS
    TypeOK
    FiltersHonoured
    ReuseBounded
    OneOpenFlight
    SingleFlight
PROPERTY
    LookupsComplete
CHECK_DEADLOCK FALSE
