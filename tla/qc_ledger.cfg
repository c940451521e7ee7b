SPECIFICATION Spec
CONSTANTS
    Samples = {s1}
    Users = {u1, u2}
    Leases = {l1, l2}
    NoUser = NoUser
    NoLease = NoLease
    NoSample = NoSample
    Orphan = Orphan
    Blank = {}
    LockTtl = 1
    LeaseTtl = 1
    MaxRevision = 2
    MaxSubmissions = 2
    RedisOn = FALSE
    Outages = FALSE
    Crashes = FALSE
INVARIANTS
    NoLostUpdate
    TaskTracksHistory
    LeasesOfAssignee
    TasksFollowAssignment
PROPERTIES
    LedgerRefined
CHECK_DEADLOCK FALSE
