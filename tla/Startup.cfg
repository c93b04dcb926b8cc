SPECIFICATION Spec
CONSTANTS
    p = p
    q = q
    Processes = {p, q}
    None = None
    NoKey = NoKey
    PasswordFiles <- MCPasswordFiles
    Netrc <- MCNetrc
    DefaultUrl <- MCDefaultUrl
    Narinfos <- MCNarinfos
    Setups <- MCSetups
CHECK_DEADLOCK FALSE
INVARIANTS
    TypeOK
    FiltersAsWritten
    KeyShared
    CredentialsPaired
    WhollyBound
PROPERTY
    StartsAgain
