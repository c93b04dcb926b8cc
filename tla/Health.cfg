SPECIFICATION MCSpec
CONSTANTS
    cache = cache
    s1 = s1
    s2 = s2
    NoRow = NoRow
    Urls = {cache}
    Slots = {s1, s2}
    DegradedAt = 1
    DownAt = 2
    SlowDegraded = 1
    SlowDown = 2
    Tries = 2
    MaxQueue = 2
INVARIANTS
    TypeOK
    NothingLost
PROPERTIES
    Recovers
    Excluded
    Corrected
