SPECIFICATION Spec
CONSTANTS
    p = p
    q = q
    Processes = {p, q}
    None = None
    NoKey = NoKey
    PasswordFiles <- MCPasswordFiles
    Netrc <- MCNetrc
    DefaultUrl <- MCDefaultUrl
    Narinfos <- MCNarinfos
    Setups <- MCPasswordSetups
CHECK_DEADLOCK FALSE
INVARIANT
    PasswordFileUsable
