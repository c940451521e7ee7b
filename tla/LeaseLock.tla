----------------------------- MODULE LeaseLock -----------------------------
(***************************************************************************)
(* The Redis side of sample leases (runtime_coordination.py): one key per  *)
(* sample, holding the id of the lease that was granted it, with a time to *)
(* live.  Redis is advisory: it may lose every key at any moment, or stop  *)
(* answering, and the coordinator turns each RedisError into "no".         *)
(* With RedisOn = FALSE the process runs the NoopRuntimeCoordinator.       *)
(***************************************************************************)
EXTENDS Naturals

CONSTANTS
    Samples,      \* the samples of the batch
    Leases,       \* the lease ids that can be issued (a bound on acquisitions)
    NoLease,      \* the key is absent
    Orphan,       \* a lease id whose row was never saved (crash after SET NX)
    LockTtl,      \* life of a key, in ticks (PLATFORM_REDIS_LEASE_TTL_SECONDS)
    RedisOn,      \* Redis configured?
    Outages       \* may Redis stop answering and come back?

ASSUME LeaseLockAssumption ==
    /\ LockTtl \in Nat \ {0}
    /\ NoLease \notin Leases
    /\ Orphan \notin Leases
    /\ NoLease # Orphan
    /\ RedisOn \in BOOLEAN
    /\ Outages \in BOOLEAN

VARIABLES
    lock,         \* lock[s]: the key uvp:lease:<dataset>:<s>
    redisUp       \* does Redis answer?

lockVars == <<lock, redisUp>>

Holder == Leases \cup {NoLease, Orphan}

FreeKey == [holder |-> NoLease, ttl |-> 0]

LockTypeOK ==
    /\ lock \in [Samples -> [holder : Holder, ttl : 0..LockTtl]]
    /\ redisUp \in BOOLEAN

LockInit ==
    /\ lock = [s \in Samples |-> FreeKey]
    /\ redisUp = TRUE

\* Mutant: an unreachable Redis grants the lock (the fallback fails open).
CanAcquireFailOpen(k, s) ==
    RedisOn /\ redisUp => k[s].holder = NoLease

\* SET key value NX EX: would acquire_sample_lease_lock succeed on the keys k?
CanAcquire(k, s) ==
    RedisOn => redisUp /\ k[s].holder = NoLease

\* GET key = value, the test both Lua scripts start with (refresh, release).
HeldBy(k, s, l) ==
    RedisOn => redisUp /\ k[s].holder = l

\* Mutant: a refresh adds to the time to live that is left.
HeldLonger(k, s, l) ==
    IF RedisOn /\ redisUp
    THEN [k EXCEPT ![s] = [holder |-> l, ttl |-> @.ttl + LockTtl]] ELSE k

\* The key after a successful SET NX or EXPIRE.
Held(k, s, l) ==
    IF RedisOn /\ redisUp THEN [k EXCEPT ![s] = [holder |-> l, ttl |-> LockTtl]] ELSE k

\* DEL of the keys of S; the error of an unreachable Redis is swallowed.
Freed(k, S) ==
    [s \in Samples |-> IF s \in S /\ redisUp THEN FreeKey ELSE k[s]]

\* One tick of Redis's own clock: a key whose time to live runs out is gone.
Aged(k) ==
    [s \in Samples |->
        IF k[s].ttl <= 1 THEN FreeKey ELSE [k[s] EXCEPT !.ttl = @ - 1]]

\* A restart, FLUSHDB or failover loses every key.
RedisLoss ==
    /\ lock # [s \in Samples |-> FreeKey]
    /\ lock' = [s \in Samples |-> FreeKey]
    /\ UNCHANGED redisUp

\* Redis stops answering, or answers again; its keys keep ageing meanwhile.
RedisOutage ==
    /\ RedisOn /\ Outages
    /\ redisUp' = ~redisUp
    /\ UNCHANGED lock
=============================================================================
