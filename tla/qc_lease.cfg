SPECIFICATION FairSpec
CONSTANTS
    Samples = {s1}
    Users = {u1, u2}
    Leases = {l1, l2}
    NoUser = NoUser
    NoLease = NoLease
    NoSample = NoSample
    Orphan = Orphan
    Blank = {}
    LockTtl = 2
    LeaseTtl = 1
    MaxRevision = 0
    MaxSubmissions = 0
    RedisOn = TRUE
    Outages = TRUE
    Crashes = TRUE
INVARIANTS
    TypeOK
    KeyAgreesWithRow
    OneActiveLeasePerSample
PROPERTIES
    StaleKeysGoAway
CHECK_DEADLOCK FALSE
