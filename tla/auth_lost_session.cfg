SPECIFICATION Spec
CONSTANTS
    Tokens = {t1, t2}
    Requests = {r1, r2}
    NoToken = NoToken
    NoFile = NoFile
    Nobody = Nobody
    SessionTtl = 1
    CacheTtl = 1
    CacheOn = FALSE
    Outages = FALSE
    Crashes = FALSE
    Overlap = TRUE
PROPERTIES
    SessionsKept
CHECK_DEADLOCK FALSE
