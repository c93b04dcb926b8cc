SPECIFICATION Spec
CONSTANTS
    n1 = n1
    n2 = n2
    conf = conf
    lan1 = lan1
    lan2 = lan2
    Names <- MCNames
    Urls <- MCUrls
    Configured <- MCConfigured
    Expiration = 1
INVARIANTS
    TypeOK
    Tracked
    TableExact
PROPERTY
    Forgotten
