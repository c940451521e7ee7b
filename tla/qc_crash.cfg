SPECIFICATION Spec
CONSTANTS
    Samples = {s1, s2}
    Users = {u1}
    Leases = {l1}
    NoUser = NoUser
    NoLease = NoLease
    NoSample = NoSample
    Orphan = Orphan
    Blank = {s2}
    LockTtl = 1
    LeaseTtl = 1
    MaxRevision = 1
    MaxSubmissions = 1
    RedisOn = FALSE
    Outages = FALSE
    Crashes = TRUE
SYMMETRY Symmetry
INVARIANTS
    SubmittedBatchIsClosed
    CompletedIsMaterialized
CHECK_DEADLOCK FALSE
