SPECIFICATION Spec
CONSTANTS
    Tokens = {t1, t2}
    Requests = {r1, r2}
    NoToken = NoToken
    NoFile = NoFile
    Nobody = Nobody
    SessionTtl = 3
    CacheTtl = 2
    CacheOn = TRUE
    Outages = TRUE
    Crashes = TRUE
    Overlap = TRUE
SYMMETRY Symmetry
INVARIANTS
    TypeOK
    CacheWithinSession
PROPERTIES
    LogoutIsFinal
CHECK_DEADLOCK FALSE
