SPECIFICATION Spec
CONSTANTS
    Tokens = {t1, t2}
    Requests = {r1}
    NoToken = NoToken
    NoFile = NoFile
    Nobody = Nobody
    SessionTtl = 2
    CacheTtl = 1
    CacheOn = TRUE
    Outages = TRUE
    Crashes = TRUE
    Overlap = FALSE
INVARIANTS
    LiveIsAccepted
PROPERTIES
    SessionsKept
CHECK_DEADLOCK FALSE
