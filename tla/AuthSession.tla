---------------------------- MODULE AuthSession ----------------------------
(***************************************************************************)
(* Login sessions (auth.py): the stored list of sessions and the cache of  *)
(* single sessions that Redis may keep beside it.                          *)
(*                                                                         *)
(* Handlers run one after another on the event loop, but the session of a  *)
(* request is resolved before, in a thread of the pool.  So resolving      *)
(* interleaves with login, with logout and with other resolving, and each  *)
(* of them rewrites the whole list it read: read, change, write a          *)
(* temporary file of a fixed name, rename it over the list.                *)
(*                                                                         *)
(* Left out: users and role bindings, the audit log, requests that carry   *)
(* no token.  A cached session is always one that was valid when it was    *)
(* cached, so that the cache needs no copy of revoked_at.  The write of a  *)
(* temporary file is one step, the time to live is computed and set in one *)
(* step, and the database store, which replaces all rows in a transaction, *)
(* is the same list without the file.                                      *)
(***************************************************************************)
EXTENDS Naturals

CONSTANTS
    Tokens,       \* the tokens that can be issued (a bound on logins)
    Requests,     \* requests that can be in flight
    NoToken,      \* a login has no token yet
    NoFile,       \* no temporary file; nothing read
    Nobody,       \* the event loop is between two handlers
    SessionTtl,   \* life of a session, in ticks (PLATFORM_SESSION_TTL_MINUTES)
    CacheTtl,     \* longest life of a cache entry, in ticks
    CacheOn,      \* Redis configured?
    Outages,      \* may Redis stop answering and come back?
    Crashes,      \* may the process stop anywhere, and start again?
    Overlap       \* may a request begin while another is in flight?

ASSUME AuthSessionAssumption ==
    /\ NoToken \notin Tokens
    /\ NoFile \notin [Tokens -> {"absent", "open", "revoked"}]
    /\ Nobody \notin Requests
    /\ SessionTtl \in Nat \ {0}
    /\ CacheTtl \in Nat \ {0}
    /\ {CacheOn, Outages, Crashes, Overlap} \subseteq BOOLEAN

VARIABLES
    rows,         \* sessions.json: the state of each token's session
    tmp,          \* sessions.json.tmp
    left,         \* left[t]: time to expires_at
    cache,        \* cache[t]: time to live of the cache entry, 0 if there is none
    redisUp,      \* does Redis answer?
    minted,       \* tokens drawn so far
    issued,       \* tokens some client was given
    loop,         \* the request whose handler runs
    req           \* the requests in flight

vars == <<rows, tmp, left, cache, redisUp, minted, issued, loop, req>>

Rows == [Tokens -> {"absent", "open", "revoked"}]

\* pc tells the next call the request makes; due the tokens whose time was up at
\* its `now`; work the list it will write; found whether its token is valid.
Request ==
    [pc : {"idle", "lookup", "list", "write", "rename", "fill", "queued", "answered"},
     kind : {"use", "login", "logout"},
     token : Tokens \cup {NoToken},
     due : SUBSET Tokens,
     work : Rows \cup {NoFile},
     found : BOOLEAN]

Idle == [pc |-> "idle", kind |-> "use", token |-> NoToken, due |-> {},
         work |-> NoFile, found |-> FALSE]

Init ==
    /\ rows = [t \in Tokens |-> "absent"]
    /\ tmp = NoFile
    /\ left = [t \in Tokens |-> 0]
    /\ cache = [t \in Tokens |-> 0]
    /\ redisUp = TRUE
    /\ minted = {}
    /\ issued = {}
    /\ loop = Nobody
    /\ req = [r \in Requests |-> Idle]

-----------------------------------------------------------------------------
\* The cache (runtime_coordination.py).

\* get_session; an unreachable Redis has nothing.
Cached(t) == CacheOn /\ redisUp /\ cache[t] > 0

\* Mutant: the longer of the two lives is taken.
LongerLife(t) == IF left[t] < CacheTtl THEN CacheTtl ELSE left[t]

\* The life of a new entry: that of the session, at most CacheTtl.
CacheLife(t) == IF left[t] < CacheTtl THEN left[t] ELSE CacheTtl

\* set_session: nothing is cached for a session whose time is up.
Filled(t) ==
    IF CacheOn /\ redisUp /\ left[t] > 0 THEN [cache EXCEPT ![t] = CacheLife(t)] ELSE cache

\* invalidate_session
Dropped(t) == IF CacheOn /\ redisUp THEN [cache EXCEPT ![t] = 0] ELSE cache

-----------------------------------------------------------------------------
\* Requests come in.

MayBegin(r) ==
    /\ req[r].pc = "idle"
    /\ Overlap \/ \A q \in Requests : req[q].pc = "idle"

BeginLogin(r) ==
    /\ MayBegin(r)
    /\ req' = [req EXCEPT ![r] = [Idle EXCEPT !.pc = "queued", !.kind = "login"]]
    /\ UNCHANGED <<rows, tmp, left, cache, redisUp, minted, issued, loop>>

\* resolve_context with a token: its clock is read here.
Begin(r, kind, t) ==
    /\ MayBegin(r)
    /\ kind \in {"use", "logout"} /\ t \in issued
    /\ req' = [req EXCEPT ![r] =
                 [Idle EXCEPT !.pc = "lookup", !.kind = kind, !.token = t,
                              !.due = {x \in Tokens : left[x] = 0}]]
    /\ UNCHANGED <<rows, tmp, left, cache, redisUp, minted, issued, loop>>

-----------------------------------------------------------------------------
\* resolve_session, in a thread of the pool.

\* A resolved logout goes on to its handler; anything else is answered.
After(r, found) ==
    IF found /\ req[r].kind = "logout" THEN "queued" ELSE "answered"

\* Mutant: what the cache does not have is refused.
LookupCacheOnly(r) ==
    /\ req[r].pc = "lookup"
    /\ req' = [req EXCEPT ![r].pc = After(r, Cached(req[r].token)),
                          ![r].found = Cached(req[r].token)]
    /\ UNCHANGED <<rows, tmp, left, cache, redisUp, minted, issued, loop>>

\* A hit ends the resolution; otherwise the list decides.
Lookup(r) ==
    LET t == req[r].token
        hit == Cached(t) /\ t \notin req[r].due
    IN  /\ req[r].pc = "lookup"
        /\ req' = [req EXCEPT ![r].pc = IF hit THEN After(r, TRUE) ELSE "list",
                              ![r].found = hit]
        /\ cache' = IF hit THEN cache ELSE Dropped(t)
        /\ UNCHANGED <<rows, tmp, left, redisUp, minted, issued, loop>>

\* Mutant: a logged-out session still counts as valid.
ValidUnlessDue(t, due) == rows[t] # "absent" /\ t \notin due

\* revoked_at is None and expires_at > now
Valid(t, due) == rows[t] = "open" /\ t \notin due

\* Mutant: sessions whose time is up are dropped from the list.
PurgedRows(due) ==
    [t \in Tokens |-> IF rows[t] = "open" /\ t \in due THEN "absent" ELSE rows[t]]

\* The list with the sessions of due marked as over.
MarkedRows(due) ==
    [t \in Tokens |-> IF rows[t] = "open" /\ t \in due THEN "revoked" ELSE rows[t]]

\* Read the list; sessions whose time is up are to be marked, and the whole list
\* saved, if there are any.
List(r) ==
    LET due == req[r].due
        marked == MarkedRows(due)
    IN  /\ req[r].pc = "list"
        /\ req' = [req EXCEPT
                     ![r].pc = IF marked = rows THEN "fill" ELSE "write",
                     ![r].work = IF marked = rows THEN NoFile ELSE marked,
                     ![r].found = Valid(req[r].token, due)]
        /\ UNCHANGED <<rows, tmp, left, cache, redisUp, minted, issued, loop>>

\* Cache what was found, or forget the token.
Fill(r) ==
    LET t == req[r].token
    IN  /\ req[r].pc = "fill" /\ loop # r
        /\ cache' = IF req[r].found THEN Filled(t) ELSE Dropped(t)
        /\ req' = [req EXCEPT ![r].pc = After(r, req[r].found)]
        /\ UNCHANGED <<rows, tmp, left, redisUp, minted, issued, loop>>

-----------------------------------------------------------------------------
\* save_sessions, in a thread or in a handler.

WriteTmp(r) ==
    /\ req[r].pc = "write"
    /\ tmp' = req[r].work
    /\ req' = [req EXCEPT ![r].pc = "rename"]
    /\ UNCHANGED <<rows, left, cache, redisUp, minted, issued, loop>>

\* Whatever the temporary file holds becomes the list.
Rename(r) ==
    /\ req[r].pc = "rename" /\ tmp # NoFile
    /\ rows' = tmp
    /\ tmp' = NoFile
    /\ req' = [req EXCEPT ![r].pc = "fill", ![r].work = NoFile]
    /\ UNCHANGED <<left, cache, redisUp, minted, issued, loop>>

\* Somebody else renamed the file already: the request fails.
RenameFails(r) ==
    /\ req[r].pc = "rename" /\ tmp = NoFile
    /\ req' = [req EXCEPT ![r] = Idle]
    /\ loop' = IF loop = r THEN Nobody ELSE loop
    /\ UNCHANGED <<rows, tmp, left, cache, redisUp, minted, issued>>

-----------------------------------------------------------------------------
\* The handlers, on the event loop.

\* create_session up to the save: a fresh token joins the list just read.
Login(r, t) ==
    /\ req[r].pc = "queued" /\ req[r].kind = "login" /\ loop = Nobody
    /\ t \notin minted
    /\ minted' = minted \cup {t}
    /\ loop' = r
    /\ left' = [left EXCEPT ![t] = SessionTtl]
    /\ req' = [req EXCEPT ![r].pc = "write", ![r].token = t,
                          ![r].work = [rows EXCEPT ![t] = "open"]]
    /\ UNCHANGED <<rows, tmp, cache, redisUp, issued>>

\* revoke_session up to the save; nothing to do if the session is not open.
Logout(r) ==
    LET t == req[r].token
    IN  /\ req[r].pc = "queued" /\ req[r].kind = "logout" /\ loop = Nobody
        /\ IF rows[t] = "open"
           THEN /\ loop' = r
                /\ req' = [req EXCEPT ![r].pc = "write",
                                      ![r].work = [rows EXCEPT ![t] = "revoked"]]
           ELSE /\ req' = [req EXCEPT ![r] = Idle]
                /\ UNCHANGED loop
        /\ UNCHANGED <<rows, tmp, left, cache, redisUp, minted, issued>>

\* What the handler does to the cache once the list is saved.
Settled(t, kind) == IF kind = "login" THEN Filled(t) ELSE Dropped(t)

\* The rest of the handler; a login hands out its token.
Finish(r) ==
    LET t == req[r].token
    IN  /\ req[r].pc = "fill" /\ loop = r
        /\ cache' = Settled(t, req[r].kind)
        /\ issued' = IF req[r].kind = "login" THEN issued \cup {t} ELSE issued
        /\ loop' = Nobody
        /\ req' = [req EXCEPT ![r] = Idle]
        /\ UNCHANGED <<rows, tmp, left, redisUp, minted>>

\* The response to a request that was only to be resolved, or was refused.
Respond(r) ==
    /\ req[r].pc = "answered"
    /\ req' = [req EXCEPT ![r] = Idle]
    /\ UNCHANGED <<rows, tmp, left, cache, redisUp, minted, issued, loop>>

-----------------------------------------------------------------------------
\* The environment.

Less(n) == IF n > 0 THEN n - 1 ELSE 0

Tick ==
    /\ \E t \in Tokens : left[t] > 0 \/ cache[t] > 0
    /\ left' = [t \in Tokens |-> Less(left[t])]
    /\ cache' = [t \in Tokens |-> Less(cache[t])]
    /\ UNCHANGED <<rows, tmp, redisUp, minted, issued, loop, req>>

RedisOutage ==
    /\ Outages /\ CacheOn
    /\ redisUp' = ~redisUp
    /\ UNCHANGED <<rows, tmp, left, cache, minted, issued, loop, req>>

RedisLoss ==
    /\ Outages /\ \E t \in Tokens : cache[t] > 0
    /\ cache' = [t \in Tokens |-> 0]
    /\ UNCHANGED <<rows, tmp, left, redisUp, minted, issued, loop, req>>

\* The process stops and starts again; files and Redis stay as they are.
Restart ==
    /\ Crashes /\ \E r \in Requests : req[r].pc # "idle"
    /\ req' = [r \in Requests |-> Idle]
    /\ loop' = Nobody
    /\ UNCHANGED <<rows, tmp, left, cache, redisUp, minted, issued>>

Next ==
    \/ \E r \in Requests :
         \/ BeginLogin(r)
         \/ \E kind \in {"use", "logout"}, t \in issued : Begin(r, kind, t)
         \/ Lookup(r) \/ List(r) \/ Fill(r)
         \/ WriteTmp(r) \/ Rename(r) \/ RenameFails(r)
         \/ \E t \in Tokens : Login(r, t)
         \/ Logout(r) \/ Finish(r) \/ Respond(r)
    \/ Tick \/ RedisOutage \/ RedisLoss \/ Restart

Spec == Init /\ [][Next]_vars

-----------------------------------------------------------------------------
\* The type invariant.
TypeOK ==
    /\ rows \in Rows
    /\ tmp \in Rows \cup {NoFile}
    /\ left \in [Tokens -> 0..SessionTtl]
    /\ cache \in [Tokens -> 0..CacheTtl]
    /\ redisUp \in BOOLEAN
    /\ issued \subseteq minted /\ minted \subseteq Tokens
    /\ loop \in Requests \cup {Nobody}
    /\ req \in [Requests -> Request]

\* The cached copy of a session never outlives the session, whichever request
\* cached it and however late: resolving may therefore trust a hit.
CacheWithinSession == \A t \in Tokens : cache[t] <= left[t]

\* Request r can still bring t back: it will save a list in which t is open, or
\* cache t as it found it.
Carries(r, t) ==
    \/ req[r].work # NoFile /\ req[r].work[t] = "open"
    \/ /\ req[r].token = t /\ req[r].found /\ loop # r
       /\ req[r].pc \in {"write", "rename", "fill"}

\* t was given to a client and nothing is left of it.
Dead(t) ==
    /\ t \in issued
    /\ rows[t] # "open" /\ cache[t] = 0
    /\ \A r \in Requests : ~Carries(r, t)

\* Logging out is final once the requests that saw the session have ended: no
\* interleaving, outage or restart brings a dead token back to the list or to
\* the cache.
LogoutIsFinal == [][\A t \in Tokens : Dead(t) => Dead(t)']_vars

\* A request with the token of an open session is not refused, with or without
\* Redis, across restarts; requests are taken one at a time.
LiveIsAccepted ==
    \A r \in Requests :
        req[r].pc = "answered" /\ ~req[r].found => rows[req[r].token] # "open"

\* Sessions are durable state: "users, roles, durable sessions"
\* (docs/architecture/state-persistence-boundaries.md:94).  A stored session stays
\* stored, and a revoked one stays revoked.
SessionsKept ==
    [][\A t \in Tokens :
         /\ rows[t] # "absent" => rows'[t] # "absent"
         /\ rows[t] = "revoked" => rows'[t] = "revoked"]_vars
=============================================================================
