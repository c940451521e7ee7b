------------------------- MODULE AuthSession_proofs -------------------------
(***************************************************************************)
(* Theorems about AuthSession, for every number of tokens, requests and    *)
(* ticks, with every overlap, outage and restart.                          *)
(***************************************************************************)
EXTENDS AuthSession, TLAPS

USE AuthSessionAssumption

-----------------------------------------------------------------------------
\* Operators on the cache keep its type, and lengthen no entry beyond the life
\* of its session.
LEMMA CacheType ==
    ASSUME TypeOK, NEW t \in Tokens \cup {NoToken}
    PROVE  /\ Filled(t) \in [Tokens -> 0..CacheTtl]
           /\ Dropped(t) \in [Tokens -> 0..CacheTtl]
           /\ CacheWithinSession =>
                \A x \in Tokens : Filled(t)[x] <= left[x] /\ Dropped(t)[x] <= left[x]
<1>0. CacheTtl \in Nat /\ 0 \in 0..CacheTtl
  BY AuthSessionAssumption
<1>1. \A x \in Tokens : left[x] \in Nat /\ cache[x] \in 0..CacheTtl
  BY DEF TypeOK
<1>2. ASSUME NEW x \in Tokens
      PROVE  CacheLife(x) \in 0..CacheTtl /\ CacheLife(x) <= left[x]
  BY <1>0, <1>1 DEF CacheLife
<1>3. cache \in [Tokens -> 0..CacheTtl]
  BY DEF TypeOK
<1>4. Filled(t) \in [Tokens -> 0..CacheTtl]
  BY <1>2, <1>3 DEF Filled
<1>5. Dropped(t) \in [Tokens -> 0..CacheTtl]
  BY <1>0, <1>3 DEF Dropped
<1>6. ASSUME CacheWithinSession, NEW x \in Tokens
      PROVE  Filled(t)[x] <= left[x] /\ Dropped(t)[x] <= left[x]
  <2>1. cache[x] <= left[x] /\ 0 <= left[x]
    BY <1>1, <1>6 DEF CacheWithinSession
  <2>2. Filled(t)[x] = cache[x] \/ Filled(t)[x] = CacheLife(x)
    BY <1>3 DEF Filled
  <2>3. Dropped(t)[x] = cache[x] \/ Dropped(t)[x] = 0
    BY <1>3 DEF Dropped
  <2> QED BY <1>2, <2>1, <2>2, <2>3
<1> QED BY <1>4, <1>5, <1>6

\* A record of a request stays one when its fields change within their sets.
LEMMA RequestType ==
    ASSUME TypeOK, NEW r \in Requests
    PROVE  /\ req[r] \in Request
           /\ Idle \in Request
           /\ \A t : After(r, t) \in {"queued", "answered"}
           /\ rows \in Rows
           /\ \A due : MarkedRows(due) \in Rows
           /\ \A t, c : c \in {"open", "revoked"} => [rows EXCEPT ![t] = c] \in Rows
<1>1. req[r] \in Request /\ rows \in Rows
  BY DEF TypeOK
<1>2. Idle \in Request
  BY DEF Idle, Request
<1>3. \A t : After(r, t) \in {"queued", "answered"}
  BY DEF After
<1>4. \A due : MarkedRows(due) \in Rows
  BY <1>1 DEF MarkedRows, Rows
<1>5. \A t, c : c \in {"open", "revoked"} => [rows EXCEPT ![t] = c] \in Rows
  BY <1>1 DEF Rows
<1> QED BY <1>1, <1>2, <1>3, <1>4, <1>5

-----------------------------------------------------------------------------
\* A login past its queue holds the event loop, and its token is nobody else's yet.
LoginOwns ==
    \A r \in Requests :
        req[r].kind = "login" /\ req[r].pc \notin {"idle", "queued"} =>
            loop = r /\ req[r].token \in minted \ issued

\* Nobody but a request about to rename it left the temporary file, or else nobody
\* is about to rename one.
TmpOwned ==
    tmp # NoFile =>
        \A r \in Requests : req[r].pc = "rename" =>
            \E q \in Requests : req[q].pc = "rename" /\ req[q].work = tmp

\* The type invariant.
LEMMA InitType == Init => TypeOK
BY DEF Init, TypeOK, Rows, Request, Idle

LEMMA StepType == TypeOK /\ LoginOwns /\ [Next]_vars => TypeOK'
<1> SUFFICES ASSUME TypeOK, LoginOwns, [Next]_vars
             PROVE  TypeOK'
  OBVIOUS
<1>1. ASSUME NEW r \in Requests, BeginLogin(r) PROVE TypeOK'
  <2>1. [Idle EXCEPT !.pc = "queued", !.kind = "login"] \in Request
    BY DEF Idle, Request
  <2> QED BY <1>1, <2>1 DEF BeginLogin, TypeOK
<1>2. ASSUME NEW r \in Requests, NEW kind \in {"use", "logout"}, NEW t \in issued,
             Begin(r, kind, t)
      PROVE  TypeOK'
  <2>1. t \in Tokens
    BY DEF TypeOK
  <2>2. [Idle EXCEPT !.pc = "lookup", !.kind = kind, !.token = t,
                     !.due = {x \in Tokens : left[x] = 0}] \in Request
    BY <2>1 DEF Idle, Request
  <2> QED BY <1>2, <2>2 DEF Begin, TypeOK
<1>3. ASSUME NEW r \in Requests, Lookup(r) PROVE TypeOK'
  <2> DEFINE hit == Cached(req[r].token) /\ req[r].token \notin req[r].due
  <2>1. hit \in BOOLEAN /\ (IF hit THEN After(r, TRUE) ELSE "list") \in
            {"queued", "answered", "list"}
    BY RequestType
  <2>2. req' = [req EXCEPT ![r].pc = IF hit THEN After(r, TRUE) ELSE "list", ![r].found = hit]
    BY <1>3 DEF Lookup
  <2> HIDE DEF hit
  <2>3. [req[r] EXCEPT !.pc = IF hit THEN After(r, TRUE) ELSE "list", !.found = hit] \in Request
    BY <2>1, RequestType DEF Request
  <2>4. req' \in [Requests -> Request]
    BY <2>2, <2>3 DEF TypeOK
  <2>5. req[r].token \in Tokens \cup {NoToken}
    BY RequestType DEF Request
  <2>6. cache' \in [Tokens -> 0..CacheTtl]
    BY <1>3, <2>5, CacheType DEF Lookup, TypeOK
  <2> QED BY <1>3, <2>4, <2>6 DEF Lookup, TypeOK
<1>4. ASSUME NEW r \in Requests, List(r) PROVE TypeOK'
  <2> DEFINE m == MarkedRows(req[r].due)
             f == Valid(req[r].token, req[r].due)
  <2>1. m \in Rows /\ f \in BOOLEAN
    BY RequestType DEF Valid
  <2>2. req' = [req EXCEPT ![r].pc = IF m = rows THEN "fill" ELSE "write",
                           ![r].work = IF m = rows THEN NoFile ELSE m,
                           ![r].found = f]
    BY <1>4 DEF List
  <2> HIDE DEF m, f
  <2>3. [req[r] EXCEPT !.pc = IF m = rows THEN "fill" ELSE "write",
                       !.work = IF m = rows THEN NoFile ELSE m,
                       !.found = f] \in Request
    <3>1. (IF m = rows THEN "fill" ELSE "write") \in {"fill", "write"}
          /\ (IF m = rows THEN NoFile ELSE m) \in Rows \cup {NoFile}
      BY <2>1
    <3>2. req[r] \in Request
      BY RequestType
    <3> QED
      BY <2>1, <3>1, <3>2 DEF Request
  <2>4. req' \in [Requests -> Request]
    BY <2>2, <2>3 DEF TypeOK
  <2> QED BY <1>4, <2>4 DEF List, TypeOK
<1>5. ASSUME NEW r \in Requests, Fill(r) PROVE TypeOK'
  <2>1. req[r].token \in Tokens \cup {NoToken}
    BY RequestType DEF Request
  <2>2. [req[r] EXCEPT !.pc = After(r, req[r].found)] \in Request
    BY RequestType DEF Request
  <2>3. cache' \in [Tokens -> 0..CacheTtl]
    BY <1>5, <2>1, CacheType DEF Fill
  <2> QED BY <1>5, <2>2, <2>3 DEF Fill, TypeOK
<1>6. ASSUME NEW r \in Requests, WriteTmp(r) PROVE TypeOK'
  <2>1. [req[r] EXCEPT !.pc = "rename"] \in Request /\ req[r].work \in Rows \cup {NoFile}
    BY RequestType DEF Request
  <2> QED BY <1>6, <2>1 DEF WriteTmp, TypeOK
<1>7. ASSUME NEW r \in Requests, Rename(r) PROVE TypeOK'
  <2>1. [req[r] EXCEPT !.pc = "fill", !.work = NoFile] \in Request
    BY RequestType DEF Request
  <2> QED BY <1>7, <2>1 DEF Rename, TypeOK
<1>8. ASSUME NEW r \in Requests, RenameFails(r) PROVE TypeOK'
  BY <1>8, RequestType DEF RenameFails, TypeOK
<1>9. ASSUME NEW r \in Requests, NEW t \in Tokens, Login(r, t) PROVE TypeOK'
  <2>1. [rows EXCEPT ![t] = "open"] \in Rows
    BY RequestType
  <2>2. [req[r] EXCEPT !.pc = "write", !.token = t,
                       !.work = [rows EXCEPT ![t] = "open"]] \in Request
    BY <2>1, RequestType DEF Request
  <2>3. req' \in [Requests -> Request]
    BY <1>9, <2>2 DEF Login, TypeOK
  <2>4. left' \in [Tokens -> 0..SessionTtl]
    BY <1>9 DEF Login, TypeOK
  <2> QED BY <1>9, <2>3, <2>4 DEF Login, TypeOK
<1>10. ASSUME NEW r \in Requests, Logout(r) PROVE TypeOK'
  <2> DEFINE w == [rows EXCEPT ![req[r].token] = "revoked"]
  <2>1. w \in Rows
    BY RequestType
  <2> HIDE DEF w
  <2>2. [req[r] EXCEPT !.pc = "write", !.work = w] \in Request
    BY <2>1, RequestType DEF Request
  <2>3. req' \in [Requests -> Request]
    BY <1>10, <2>2, RequestType DEF Logout, TypeOK, w
  <2>4. loop' \in Requests \cup {Nobody}
    BY <1>10 DEF Logout, TypeOK
  <2> QED BY <1>10, <2>3, <2>4 DEF Logout, TypeOK
<1>11. ASSUME NEW r \in Requests, Finish(r) PROVE TypeOK'
  <2>1. req[r].token \in Tokens \cup {NoToken}
    BY RequestType DEF Request
  <2>2. cache' \in [Tokens -> 0..CacheTtl]
    BY <1>11, <2>1, CacheType DEF Finish, Settled
  <2>3. issued' \subseteq minted
    BY <1>11 DEF Finish, LoginOwns, TypeOK
  <2> QED BY <1>11, <2>2, <2>3, RequestType DEF Finish, TypeOK
<1>12. ASSUME NEW r \in Requests, Respond(r) PROVE TypeOK'
  BY <1>12, RequestType DEF Respond, TypeOK
<1>13. ASSUME Tick PROVE TypeOK'
  BY <1>13 DEF Tick, TypeOK, Less
<1>14. ASSUME RedisOutage \/ RedisLoss PROVE TypeOK'
  <2>1. redisUp' \in BOOLEAN
    BY <1>14, Zenon DEF RedisOutage, RedisLoss, TypeOK
  <2>2. 0 \in 0..CacheTtl
    BY AuthSessionAssumption
  <2> QED BY <1>14, <2>1, <2>2 DEF RedisOutage, RedisLoss, TypeOK
<1>15. ASSUME Restart PROVE TypeOK'
  BY <1>15, RequestType DEF Restart, TypeOK
<1>16. CASE UNCHANGED vars
  BY <1>16 DEF vars, TypeOK
<1> QED
  BY <1>1, <1>2, <1>3, <1>4, <1>5, <1>6, <1>7, <1>8, <1>9, <1>10, <1>11, <1>12,
     <1>13, <1>14, <1>15, <1>16 DEF Next

-----------------------------------------------------------------------------
\* The two facts about requests in flight are inductive with TypeOK.

\* What a logout of an open session does to the requests.
LEMMA LogoutWrites ==
    ASSUME TypeOK, NEW r \in Requests, Logout(r), rows[req[r].token] = "open"
    PROVE  /\ loop = Nobody /\ loop' = r
           /\ req[r].pc = "queued" /\ req[r].kind = "logout"
           /\ req'[r].pc = "write" /\ req'[r].kind = "logout"
           /\ req'[r].work = [rows EXCEPT ![req[r].token] = "revoked"]
           /\ \A q \in Requests \ {r} : req'[q] = req[q]
           /\ UNCHANGED <<rows, tmp, left, cache, redisUp, minted, issued>>
<1> DEFINE w == [rows EXCEPT ![req[r].token] = "revoked"]
<1>1. /\ loop = Nobody /\ loop' = r /\ req[r].pc = "queued" /\ req[r].kind = "logout"
      /\ req' = [req EXCEPT ![r].pc = "write", ![r].work = w]
      /\ UNCHANGED <<rows, tmp, left, cache, redisUp, minted, issued>>
  BY DEF Logout
<1> HIDE DEF w
<1>2. /\ req'[r].pc = "write" /\ req'[r].kind = "logout" /\ req'[r].work = w
      /\ \A q \in Requests \ {r} : req'[q] = req[q]
  BY <1>1 DEF TypeOK, Request
<1> QED BY <1>1, <1>2 DEF w

LEMMA StepLogin == TypeOK /\ LoginOwns /\ [Next]_vars => LoginOwns'
<1> SUFFICES ASSUME TypeOK, LoginOwns, [Next]_vars
             PROVE  LoginOwns'
  OBVIOUS
<1> USE DEF TypeOK, LoginOwns
<1>1. ASSUME NEW r \in Requests, BeginLogin(r) PROVE LoginOwns'
  BY <1>1 DEF BeginLogin, Idle
<1>2. ASSUME NEW r \in Requests, NEW kind \in {"use", "logout"}, NEW t \in issued,
             Begin(r, kind, t)
      PROVE  LoginOwns'
  BY <1>2 DEF Begin, Idle
<1>3. ASSUME NEW r \in Requests, Lookup(r) PROVE LoginOwns'
  <2>1. \A q \in Requests : req'[q].kind = req[q].kind /\ req'[q].token = req[q].token
    BY <1>3 DEF Lookup
  <2>2. \A q \in Requests : q = r \/ req'[q].pc = req[q].pc
    BY <1>3 DEF Lookup
  <2>3. req[r].pc = "lookup" /\ UNCHANGED <<loop, minted, issued>>
    BY <1>3 DEF Lookup
  <2> QED BY <2>1, <2>2, <2>3
<1>4. ASSUME NEW r \in Requests, List(r) PROVE LoginOwns'
  BY <1>4 DEF List
<1>5. ASSUME NEW r \in Requests, Fill(r) PROVE LoginOwns'
  BY <1>5 DEF Fill
<1>6. ASSUME NEW r \in Requests, WriteTmp(r) PROVE LoginOwns'
  BY <1>6 DEF WriteTmp
<1>7. ASSUME NEW r \in Requests, Rename(r) PROVE LoginOwns'
  BY <1>7 DEF Rename
<1>8. ASSUME NEW r \in Requests, RenameFails(r) PROVE LoginOwns'
  BY <1>8 DEF RenameFails, Idle
<1>9. ASSUME NEW r \in Requests, NEW t \in Tokens, Login(r, t) PROVE LoginOwns'
  BY <1>9 DEF Login
<1>10. ASSUME NEW r \in Requests, Logout(r) PROVE LoginOwns'
  <2>1. CASE rows[req[r].token] = "open"
    BY <1>10, <2>1, LogoutWrites
  <2>2. CASE rows[req[r].token] # "open"
    BY <1>10, <2>2 DEF Logout, Idle
  <2> QED BY <2>1, <2>2
<1>11. ASSUME NEW r \in Requests, Finish(r) PROVE LoginOwns'
  BY <1>11 DEF Finish, Idle
<1>12. ASSUME NEW r \in Requests, Respond(r) PROVE LoginOwns'
  BY <1>12 DEF Respond, Idle
<1>13. ASSUME Tick \/ RedisOutage \/ RedisLoss PROVE LoginOwns'
  BY <1>13 DEF Tick, RedisOutage, RedisLoss
<1>14. ASSUME Restart PROVE LoginOwns'
  BY <1>14 DEF Restart, Idle
<1>15. CASE UNCHANGED vars
  BY <1>15 DEF vars
<1> QED
  BY <1>1, <1>2, <1>3, <1>4, <1>5, <1>6, <1>7, <1>8, <1>9, <1>10, <1>11, <1>12,
     <1>13, <1>14, <1>15 DEF Next

LEMMA StepTmp == TypeOK /\ TmpOwned /\ [Next]_vars => TmpOwned'
<1> SUFFICES ASSUME TypeOK, TmpOwned, [Next]_vars
             PROVE  TmpOwned'
  OBVIOUS
<1> USE DEF TypeOK, TmpOwned
<1>1. ASSUME NEW r \in Requests, BeginLogin(r) PROVE TmpOwned'
  BY <1>1 DEF BeginLogin, MayBegin, Idle
<1>2. ASSUME NEW r \in Requests, NEW kind \in {"use", "logout"}, NEW t \in issued,
             Begin(r, kind, t)
      PROVE  TmpOwned'
  BY <1>2 DEF Begin, MayBegin, Idle
<1>3. ASSUME NEW r \in Requests, Lookup(r) PROVE TmpOwned'
  BY <1>3 DEF Lookup, After
<1>4. ASSUME NEW r \in Requests, List(r) PROVE TmpOwned'
  BY <1>4 DEF List
<1>5. ASSUME NEW r \in Requests, Fill(r) PROVE TmpOwned'
  BY <1>5 DEF Fill, After
<1>6. ASSUME NEW r \in Requests, WriteTmp(r) PROVE TmpOwned'
  BY <1>6 DEF WriteTmp
<1>7. ASSUME NEW r \in Requests, Rename(r) \/ RenameFails(r) PROVE TmpOwned'
  BY <1>7 DEF Rename, RenameFails
<1>9. ASSUME NEW r \in Requests, NEW t \in Tokens, Login(r, t) PROVE TmpOwned'
  BY <1>9 DEF Login
<1>10. ASSUME NEW r \in Requests, Logout(r) PROVE TmpOwned'
  <2>1. CASE rows[req[r].token] = "open"
    <3>1. /\ req[r].pc = "queued" /\ req'[r].pc = "write" /\ tmp' = tmp
          /\ \A q \in Requests : q = r \/ req'[q] = req[q]
      BY <1>10, <2>1, LogoutWrites
    <3> QED BY <3>1
  <2>2. CASE rows[req[r].token] # "open"
    BY <1>10, <2>2 DEF Logout, Idle
  <2> QED BY <2>1, <2>2
<1>11. ASSUME NEW r \in Requests, Finish(r) PROVE TmpOwned'
  BY <1>11 DEF Finish, Idle
<1>12. ASSUME NEW r \in Requests, Respond(r) PROVE TmpOwned'
  BY <1>12 DEF Respond, Idle
<1>13. ASSUME Tick \/ RedisOutage \/ RedisLoss PROVE TmpOwned'
  BY <1>13 DEF Tick, RedisOutage, RedisLoss
<1>14. ASSUME Restart PROVE TmpOwned'
  BY <1>14 DEF Restart, Idle
<1>15. CASE UNCHANGED vars
  BY <1>15 DEF vars
<1> QED
  BY <1>1, <1>2, <1>3, <1>4, <1>5, <1>6, <1>7, <1>9, <1>10, <1>11, <1>12,
     <1>13, <1>14, <1>15 DEF Next

-----------------------------------------------------------------------------
\* No cache entry is set, or kept, beyond the life of its session.
LEMMA StepCache ==
    TypeOK /\ CacheWithinSession /\ [Next]_vars => CacheWithinSession'
<1> SUFFICES ASSUME TypeOK, CacheWithinSession, [Next]_vars, NEW t \in Tokens
             PROVE  cache'[t] <= left'[t]
  BY DEF CacheWithinSession
<1>t. /\ left[t] \in 0..SessionTtl /\ cache[t] \in 0..CacheTtl /\ cache[t] <= left[t]
      /\ SessionTtl \in Nat /\ CacheTtl \in Nat
      /\ \A r \in Requests : req[r].token \in Tokens \cup {NoToken}
  BY AuthSessionAssumption DEF TypeOK, CacheWithinSession, Request
<1>1. ASSUME NEW r \in Requests, Lookup(r) \/ Fill(r) \/ Finish(r)
      PROVE  cache'[t] <= left'[t]
  <2>1. left' = left
    BY <1>1 DEF Lookup, Fill, Finish
  <2>2. \/ cache' = cache \/ cache' = Filled(req[r].token) \/ cache' = Dropped(req[r].token)
    BY <1>1 DEF Lookup, Fill, Finish, Settled
  <2> QED BY <1>t, <2>1, <2>2, CacheType
<1>2. ASSUME NEW r \in Requests, NEW x \in Tokens, Login(r, x)
      PROVE  cache'[t] <= left'[t]
  <2>1. left'[t] = left[t] \/ left'[t] = SessionTtl
    BY <1>2 DEF Login, TypeOK
  <2>2. cache' = cache
    BY <1>2 DEF Login
  <2> QED BY <1>t, <2>1, <2>2
<1>3. ASSUME Tick PROVE cache'[t] <= left'[t]
  <2>1. cache'[t] = Less(cache[t]) /\ left'[t] = Less(left[t])
    BY <1>3 DEF Tick
  <2> QED BY <1>t, <2>1 DEF Less
<1>4. ASSUME RedisLoss PROVE cache'[t] <= left'[t]
  <2>1. cache'[t] = 0 /\ left' = left
    BY <1>4 DEF RedisLoss
  <2> QED BY <1>t, <2>1
<1>5. ASSUME UNCHANGED <<cache, left>> PROVE cache'[t] <= left'[t]
  BY <1>t, <1>5
<1>6. \A r \in Requests :
        BeginLogin(r) \/ (\E kind \in {"use", "logout"}, x \in issued : Begin(r, kind, x))
          \/ List(r) \/ WriteTmp(r) \/ Rename(r) \/ RenameFails(r) \/ Logout(r)
          \/ Respond(r)
        => UNCHANGED <<cache, left>>
  BY DEF BeginLogin, Begin, List, WriteTmp, Rename, RenameFails, Logout, Respond
<1>7. RedisOutage \/ Restart \/ UNCHANGED vars => UNCHANGED <<cache, left>>
  BY DEF RedisOutage, Restart, vars
<1> QED BY <1>1, <1>2, <1>3, <1>4, <1>5, <1>6, <1>7 DEF Next

-----------------------------------------------------------------------------
\* No step revives a dead token.
LEMMA StepDead ==
    ASSUME TypeOK, LoginOwns, TmpOwned, [Next]_vars, NEW t \in Tokens, Dead(t)
    PROVE  Dead(t)'
<1> USE DEF TypeOK
<1>t. /\ t \in issued /\ t \in minted /\ rows[t] # "open" /\ cache[t] = 0
      /\ \A r \in Requests : ~Carries(r, t)
  BY DEF Dead
<1>n. NoFile \notin Rows /\ t # NoToken /\ Nobody \notin Requests
  BY AuthSessionAssumption DEF Rows
\* A step that neither opens t nor caches it, and lets no request carry it.
<1>d. ASSUME issued \subseteq issued', rows'[t] # "open", cache'[t] = 0,
             \A r \in Requests : ~Carries(r, t)'
      PROVE  Dead(t)'
  BY <1>t, <1>d DEF Dead
<1>i. ASSUME NEW r \in Requests, req'[r] = Idle PROVE ~Carries(r, t)'
  BY <1>i DEF Idle, Carries
\* The others carry t no more than before when a request's step leaves them alone.
<1>o. ASSUME NEW r \in Requests, \A q \in Requests \ {r} : req'[q] = req[q],
             ~Carries(r, t)', \A q \in Requests \ {r} : loop = q => loop' = q
      PROVE  \A q \in Requests : ~Carries(q, t)'
  BY <1>o, <1>t DEF Carries
<1>1. ASSUME NEW r \in Requests, BeginLogin(r) PROVE Dead(t)'
  <2>1. ~Carries(r, t)'
    BY <1>1 DEF BeginLogin, Idle, Carries
  <2> QED BY <1>1, <1>d, <1>o, <1>t, <2>1 DEF BeginLogin
<1>2. ASSUME NEW r \in Requests, NEW kind \in {"use", "logout"}, NEW x \in issued,
             Begin(r, kind, x)
      PROVE  Dead(t)'
  <2>1. ~Carries(r, t)'
    BY <1>2 DEF Begin, Idle, Carries
  <2> QED BY <1>2, <1>d, <1>o, <1>t, <2>1 DEF Begin
<1>3. ASSUME NEW r \in Requests, Lookup(r) PROVE Dead(t)'
  <2>1. /\ req'[r].work = req[r].work /\ req'[r].pc \notin {"write", "rename", "fill"}
        /\ \A q \in Requests \ {r} : req'[q] = req[q]
    BY <1>3 DEF Lookup, After
  <2>2. ~Carries(r, t)'
    BY <1>t, <2>1 DEF Carries
  <2>3. cache'[t] = 0
    BY <1>3, <1>t DEF Lookup, Dropped
  <2> QED BY <1>3, <1>d, <1>o, <1>t, <2>1, <2>2, <2>3 DEF Lookup
<1>4. ASSUME NEW r \in Requests, List(r) PROVE Dead(t)'
  <2>1. MarkedRows(req[r].due)[t] # "open" /\ (req[r].token = t => ~Valid(req[r].token, req[r].due))
    BY <1>t DEF MarkedRows, Valid
  <2>2. /\ req'[r].work \in {NoFile, MarkedRows(req[r].due)}
        /\ req'[r].token = req[r].token
        /\ req'[r].found = Valid(req[r].token, req[r].due)
        /\ \A q \in Requests \ {r} : req'[q] = req[q]
    BY <1>4 DEF List
  <2>3. ~Carries(r, t)'
    BY <2>1, <2>2 DEF Carries
  <2> QED BY <1>4, <1>d, <1>o, <1>t, <2>2, <2>3 DEF List
<1>5. ASSUME NEW r \in Requests, Fill(r) PROVE Dead(t)'
  <2>1. /\ req'[r].work = req[r].work /\ req'[r].pc \notin {"write", "rename", "fill"}
        /\ \A q \in Requests \ {r} : req'[q] = req[q]
    BY <1>5 DEF Fill, After
  <2>2. ~Carries(r, t)'
    BY <1>t, <2>1 DEF Carries
  <2>3. ~(req[r].token = t /\ req[r].found)
    BY <1>5, <1>t DEF Fill, Carries
  <2>4. cache'[t] = 0
    BY <1>5, <1>t, <2>3 DEF Fill, Filled, Dropped
  <2> QED BY <1>5, <1>d, <1>o, <1>t, <2>1, <2>2, <2>4 DEF Fill
<1>6. ASSUME NEW r \in Requests, WriteTmp(r) PROVE Dead(t)'
  <2>1. /\ req'[r].work = req[r].work /\ req'[r].token = req[r].token
        /\ req'[r].found = req[r].found /\ req[r].pc = "write"
        /\ \A q \in Requests \ {r} : req'[q] = req[q]
    BY <1>6 DEF WriteTmp
  <2>2. ~Carries(r, t)'
    BY <1>6, <1>t, <2>1 DEF Carries, WriteTmp
  <2> QED BY <1>6, <1>d, <1>o, <1>t, <2>1, <2>2 DEF WriteTmp
\* The file that is renamed is the work of some request, and none opens t.
<1>7. ASSUME NEW r \in Requests, Rename(r) PROVE Dead(t)'
  <2>1. PICK q \in Requests : req[q].work = tmp
    BY <1>7 DEF Rename, TmpOwned
  <2>2. rows'[t] # "open"
    BY <1>7, <1>t, <2>1 DEF Rename, Carries
  <2>3. /\ req'[r].work = NoFile /\ req'[r].token = req[r].token
        /\ req'[r].found = req[r].found /\ req[r].pc = "rename"
        /\ \A x \in Requests \ {r} : req'[x] = req[x]
    BY <1>7 DEF Rename
  <2>4. ~Carries(r, t)'
    BY <1>7, <1>t, <2>3 DEF Carries, Rename
  <2> QED BY <1>7, <1>d, <1>o, <1>t, <2>2, <2>3, <2>4 DEF Rename
<1>8. ASSUME NEW r \in Requests, RenameFails(r) \/ Respond(r) PROVE Dead(t)'
  <2>1. req'[r] = Idle /\ \A q \in Requests \ {r} : req'[q] = req[q]
    BY <1>8 DEF RenameFails, Respond
  <2> QED BY <1>8, <1>d, <1>i, <1>o, <1>t, <2>1 DEF RenameFails, Respond
\* A login mints another token than t.
<1>9. ASSUME NEW r \in Requests, NEW x \in Tokens, Login(r, x) PROVE Dead(t)'
  <2>1. x # t /\ loop = Nobody /\ loop' = r
    BY <1>9, <1>t DEF Login
  <2>2. /\ req'[r].work = [rows EXCEPT ![x] = "open"] /\ req'[r].token = x
        /\ \A q \in Requests \ {r} : req'[q] = req[q]
    BY <1>9 DEF Login
  <2>3. [rows EXCEPT ![x] = "open"][t] = rows[t]
    BY <2>1 DEF Rows
  <2>4. ~Carries(r, t)'
    BY <1>t, <2>1, <2>2, <2>3 DEF Carries
  <2> QED BY <1>9, <1>d, <1>n, <1>o, <1>t, <2>1, <2>2, <2>4 DEF Login
<1>10. ASSUME NEW r \in Requests, Logout(r) PROVE Dead(t)'
  <2>1. CASE rows[req[r].token] = "open"
    <3>1. loop = Nobody /\ loop' = r
      BY <1>10, <2>1, LogoutWrites
    <3>2. /\ req'[r].work = [rows EXCEPT ![req[r].token] = "revoked"]
          /\ \A q \in Requests \ {r} : req'[q] = req[q]
      BY <1>10, <2>1, LogoutWrites
    <3>3. [rows EXCEPT ![req[r].token] = "revoked"][t] # "open"
      BY <1>t DEF Rows
    <3>4. ~Carries(r, t)'
      BY <3>1, <3>2, <3>3 DEF Carries
    <3> QED BY <1>10, <1>d, <1>n, <1>o, <1>t, <3>1, <3>2, <3>4 DEF Logout
  <2>2. CASE rows[req[r].token] # "open"
    <3>1. /\ req'[r] = Idle /\ \A q \in Requests \ {r} : req'[q] = req[q]
          /\ loop' = loop
      BY <1>10, <2>2 DEF Logout
    <3> QED BY <1>10, <1>d, <1>i, <1>o, <1>t, <3>1 DEF Logout
  <2> QED BY <2>1, <2>2
\* The token a login hands out was not issued before, so it is not t.
<1>11. ASSUME NEW r \in Requests, Finish(r) PROVE Dead(t)'
  <2>1. req'[r] = Idle /\ \A q \in Requests \ {r} : req'[q] = req[q]
    BY <1>11 DEF Finish
  <2>2. req[r].kind = "login" => req[r].token # t
    BY <1>11, <1>t DEF Finish, LoginOwns
  <2>3. cache'[t] = 0
    BY <1>11, <1>t, <2>2 DEF Finish, Settled, Filled, Dropped
  <2>4. issued \subseteq issued'
    BY <1>11 DEF Finish
  <2> QED BY <1>11, <1>d, <1>i, <1>o, <1>t, <2>1, <2>3, <2>4 DEF Finish
<1>12. ASSUME Tick \/ RedisLoss \/ RedisOutage PROVE Dead(t)'
  <2>1. cache'[t] = 0
    BY <1>12, <1>t DEF Tick, RedisLoss, RedisOutage, Less
  <2>2. UNCHANGED <<rows, issued, loop, req>>
    BY <1>12 DEF Tick, RedisLoss, RedisOutage
  <2>3. \A r \in Requests : ~Carries(r, t)'
    BY <1>t, <2>2 DEF Carries
  <2> QED BY <1>d, <1>t, <2>1, <2>2, <2>3
<1>13. ASSUME Restart PROVE Dead(t)'
  BY <1>13, <1>d, <1>i, <1>t DEF Restart
<1>14. CASE UNCHANGED vars
  BY <1>14, <1>t DEF vars, Dead, Carries
<1> QED
  BY <1>1, <1>2, <1>3, <1>4, <1>5, <1>6, <1>7, <1>8, <1>9, <1>10, <1>11, <1>12,
     <1>13, <1>14 DEF Next

-----------------------------------------------------------------------------
AuthInv == TypeOK /\ LoginOwns /\ TmpOwned /\ CacheWithinSession

LEMMA AuthInductive == Spec => []AuthInv
<1>1. Init => AuthInv
  <2>1. Init => LoginOwns /\ TmpOwned /\ CacheWithinSession
    BY DEF Init, LoginOwns, TmpOwned, CacheWithinSession, Idle
  <2> QED BY <2>1, InitType DEF AuthInv
<1>2. AuthInv /\ [Next]_vars => AuthInv'
  BY StepType, StepLogin, StepTmp, StepCache DEF AuthInv
<1> QED BY <1>1, <1>2, PTL DEF Spec

\* Every variable keeps its type.
THEOREM SessionTypes == Spec => []TypeOK
<1>1. AuthInv => TypeOK
  BY DEF AuthInv
<1> QED BY <1>1, AuthInductive, PTL

\* A cache entry never outlives its session (set_session's time to live).
THEOREM CacheEndsInTime == Spec => []CacheWithinSession
<1>1. AuthInv => CacheWithinSession
  BY DEF AuthInv
<1> QED BY <1>1, AuthInductive, PTL

\* Logging out is final once the requests that saw the session have ended.
THEOREM DeadStaysDead == Spec => LogoutIsFinal
<1>1. AuthInv /\ [Next]_vars => [\A t \in Tokens : Dead(t) => Dead(t)']_vars
  BY StepDead DEF AuthInv
<1> QED BY <1>1, AuthInductive, PTL DEF Spec, LogoutIsFinal

-----------------------------------------------------------------------------
\* Requests taken one at a time (Overlap = FALSE).

\* The list W forgets no stored session and reopens no revoked one.
KeepsSessions(W) ==
    \A t \in Tokens :
        /\ rows[t] # "absent" => W[t] # "absent"
        /\ rows[t] = "revoked" => W[t] = "revoked"

\* Sessions of the list W have tokens that were drawn.
OfMinted(W) == \A t \in Tokens : W[t] # "absent" => t \in minted

\* A request that has found its token invalid and is not in a handler.
Refused(r) == ~req[r].found /\ loop # r

\* What is true of a request that nobody disturbs: the list it writes is a change
\* of the stored one and is what it finds in the temporary file, and a token it
\* refuses is not open in the list it writes, nor, afterwards, in the stored one.
Undisturbed(r) ==
    /\ req[r].pc \in {"write", "rename"} <=> req[r].work # NoFile
    /\ req[r].work # NoFile => KeepsSessions(req[r].work) /\ OfMinted(req[r].work)
    /\ req[r].pc = "rename" => tmp = req[r].work
    /\ req[r].pc \in {"lookup", "list"} => req[r].token \in Tokens
    /\ Refused(r) /\ req[r].pc \in {"write", "rename"} => req[r].work[req[r].token] # "open"
    /\ Refused(r) /\ req[r].pc = "fill" => rows[req[r].token] # "open"
    /\ req[r].pc = "answered" /\ ~req[r].found => rows[req[r].token] # "open"

OneByOne ==
    /\ \A q, r \in Requests : req[q].pc # "idle" /\ req[r].pc # "idle" => q = r
    /\ \A r \in Requests : Undisturbed(r)
    /\ OfMinted(rows)

\* An idle request has nothing that could be disturbed.
LEMMA IdleUndisturbed ==
    ASSUME NEW r, req[r] = Idle
    PROVE  Undisturbed(r)
BY DEF Undisturbed, Idle

\* It is enough to look at the request that moves: the others are idle.
LEMMA OneMoves ==
    ASSUME OneByOne, NEW r \in Requests,
           \A q \in Requests \ {r} : req'[q] = req[q] /\ req[q].pc = "idle",
           Undisturbed(r)', OfMinted(rows)'
    PROVE  OneByOne'
<1>1. \A q \in Requests \ {r} : Undisturbed(q)'
  <2> SUFFICES ASSUME NEW q \in Requests \ {r} PROVE Undisturbed(q)'
    OBVIOUS
  <2>1. req'[q].pc = "idle" /\ req'[q].work = NoFile
    BY DEF OneByOne, Undisturbed
  <2> QED BY <2>1 DEF Undisturbed
<1>2. \A q \in Requests \ {r} : req'[q].pc = "idle"
  OBVIOUS
<1> QED BY <1>1, <1>2 DEF OneByOne

\* Steps that leave the requests, the list, the file, the tokens and the event loop
\* alone.
LEMMA NobodyMoves ==
    ASSUME OneByOne, UNCHANGED <<rows, tmp, minted, loop, req>>
    PROVE  OneByOne'
BY DEF OneByOne, Undisturbed, OfMinted, KeepsSessions, Refused

\* The lists that the code builds from the stored one.
LEMMA ListsKeepSessions ==
    ASSUME TypeOK, OfMinted(rows)
    PROVE  /\ \A due : KeepsSessions(MarkedRows(due)) /\ OfMinted(MarkedRows(due))
           /\ \A t \in Tokens : rows[t] = "open" =>
                /\ KeepsSessions([rows EXCEPT ![t] = "revoked"])
                /\ OfMinted([rows EXCEPT ![t] = "revoked"])
           /\ \A t \in Tokens \ minted : KeepsSessions([rows EXCEPT ![t] = "open"])
<1>1. rows \in Rows
  BY DEF TypeOK
<1> QED BY <1>1 DEF KeepsSessions, OfMinted, MarkedRows, Rows

LEMMA StepOneByOne ==
    ASSUME Overlap = FALSE, TypeOK, OneByOne, [Next]_vars
    PROVE  OneByOne'
<1> USE DEF TypeOK
<1>n. NoFile \notin Rows /\ Nobody \notin Requests
  BY DEF Rows
<1>t. \A r \in Requests : req[r] \in Request
  OBVIOUS
\* While a request is under way the others are idle.
<1>o. \A r \in Requests : req[r].pc # "idle" => \A q \in Requests \ {r} : req[q].pc = "idle"
  BY DEF OneByOne
<1>u. \A r \in Requests : Undisturbed(r)
  BY DEF OneByOne
<1>m. OfMinted(rows)
  BY DEF OneByOne
<1>i. ASSUME NEW r \in Requests, req'[r] = Idle, \A q \in Requests \ {r} : req'[q] = req[q],
             req[r].pc # "idle", UNCHANGED <<rows, minted>>
      PROVE  OneByOne'
  <2>1. Undisturbed(r)'
    BY <1>i DEF Undisturbed, Idle
  <2>2. OfMinted(rows)'
    BY <1>i, <1>m DEF OfMinted
  <2> QED BY <1>i, <1>o, <2>1, <2>2, OneMoves
<1>1. ASSUME NEW r \in Requests,
             BeginLogin(r) \/ \E kind \in {"use", "logout"}, x \in issued : Begin(r, kind, x)
      PROVE  OneByOne'
  <2>1. /\ \A q \in Requests \ {r} : req'[q] = req[q] /\ req[q].pc = "idle"
        /\ UNCHANGED <<rows, minted>>
    BY <1>1 DEF BeginLogin, Begin, MayBegin
  <2>2. /\ req'[r].work = NoFile /\ req'[r].pc \in {"queued", "lookup"}
        /\ req'[r].pc = "lookup" => req'[r].token \in Tokens
    <3>1. CASE BeginLogin(r)
      BY <3>1, <1>t DEF BeginLogin, Idle
    <3>2. ASSUME NEW kind \in {"use", "logout"}, NEW x \in issued, Begin(r, kind, x)
          PROVE  req'[r].work = NoFile /\ req'[r].pc = "lookup" /\ req'[r].token = x
      BY <3>2, <1>t DEF Begin, Idle
    <3>3. issued \subseteq Tokens
      OBVIOUS
    <3> QED BY <1>1, <3>1, <3>2, <3>3
  <2>3. Undisturbed(r)'
    BY <2>2 DEF Undisturbed
  <2> QED BY <2>1, <2>3, <1>m, OneMoves DEF OfMinted
<1>2. ASSUME NEW r \in Requests, Lookup(r) PROVE OneByOne'
  <2>1. /\ req[r].pc = "lookup"
        /\ \A q \in Requests \ {r} : req'[q] = req[q] /\ UNCHANGED <<rows, minted>>
    BY <1>2 DEF Lookup
  <2>2. /\ req'[r].work = req[r].work /\ req'[r].token = req[r].token
        /\ \/ req'[r].pc \in {"queued", "answered"} /\ req'[r].found
           \/ req'[r].pc = "list"
    <3> DEFINE hit == Cached(req[r].token) /\ req[r].token \notin req[r].due
    <3>1. req' = [req EXCEPT ![r].pc = IF hit THEN After(r, TRUE) ELSE "list",
                             ![r].found = hit]
      BY <1>2 DEF Lookup
    <3>2. hit \in BOOLEAN /\ After(r, TRUE) \in {"queued", "answered"}
      BY DEF After
    <3> HIDE DEF hit
    <3>3. CASE hit
      BY <3>1, <3>2, <3>3, <1>t DEF Request
    <3>4. CASE ~hit
      BY <3>1, <3>4, <1>t DEF Request
    <3> QED BY <3>2, <3>3, <3>4
  <2>3. Undisturbed(r)'
    BY <2>1, <2>2, <1>u DEF Undisturbed
  <2>4. UNCHANGED <<rows, minted>>
    BY <1>2 DEF Lookup
  <2> QED BY <2>1, <2>3, <2>4, <1>m, <1>o, OneMoves DEF OfMinted
<1>3. ASSUME NEW r \in Requests, List(r) PROVE OneByOne'
  <2> DEFINE due == req[r].due
             t == req[r].token
             marked == MarkedRows(due)
  <2>1. /\ req[r].pc = "list" /\ UNCHANGED <<rows, minted, loop>>
        /\ \A q \in Requests \ {r} : req'[q] = req[q]
    BY <1>3 DEF List
  <2>2. /\ req'[r].token = t /\ req'[r].found = Valid(t, due)
        /\ \/ marked = rows /\ req'[r].pc = "fill" /\ req'[r].work = NoFile
           \/ req'[r].pc = "write" /\ req'[r].work = marked
    BY <1>3, <1>t DEF List
  <2>3. t \in Tokens
    BY <2>1, <1>u DEF Undisturbed
  <2>4. ~Valid(t, due) => marked[t] # "open"
    BY <2>3 DEF Valid, MarkedRows
  <2>5. marked \in Rows
    BY RequestType
  <2>6. KeepsSessions(marked) /\ OfMinted(marked)
    BY <1>m, ListsKeepSessions
  <2> HIDE DEF due, t, marked
  <2>7. Undisturbed(r)'
    BY <2>1, <2>2, <2>4, <2>5, <2>6, <1>n DEF Undisturbed, KeepsSessions, OfMinted, Refused
  <2> QED BY <2>1, <2>7, <1>m, <1>o, OneMoves DEF OfMinted
<1>4. ASSUME NEW r \in Requests, Fill(r) PROVE OneByOne'
  <2>1. /\ req[r].pc = "fill" /\ loop # r /\ UNCHANGED <<rows, minted>>
        /\ \A q \in Requests \ {r} : req'[q] = req[q]
    BY <1>4 DEF Fill
  <2>2. /\ req'[r].work = req[r].work /\ req'[r].token = req[r].token
        /\ req'[r].found = req[r].found
        /\ req'[r].pc \in {"queued", "answered"}
    BY <1>4, <1>t DEF Fill, After
  <2>3. Undisturbed(r)'
    BY <2>1, <2>2, <1>u DEF Undisturbed, Refused
  <2> QED BY <2>1, <2>3, <1>m, <1>o, OneMoves DEF OfMinted
<1>5. ASSUME NEW r \in Requests, WriteTmp(r) PROVE OneByOne'
  <2>1. /\ req[r].pc = "write" /\ UNCHANGED <<rows, minted, loop>>
        /\ \A q \in Requests \ {r} : req'[q] = req[q]
    BY <1>5 DEF WriteTmp
  <2>2. /\ req'[r].work = req[r].work /\ req'[r].token = req[r].token
        /\ req'[r].found = req[r].found
        /\ req'[r].pc = "rename" /\ tmp' = req[r].work
    BY <1>5, <1>t DEF WriteTmp
  <2>3. Undisturbed(r)'
    BY <2>1, <2>2, <1>u DEF Undisturbed, Refused, KeepsSessions, OfMinted
  <2> QED BY <2>1, <2>3, <1>m, <1>o, OneMoves DEF OfMinted
<1>6. ASSUME NEW r \in Requests, Rename(r) PROVE OneByOne'
  <2>1. /\ req[r].pc = "rename" /\ rows' = req[r].work /\ UNCHANGED <<minted, loop>>
        /\ \A q \in Requests \ {r} : req'[q] = req[q]
    BY <1>6, <1>u DEF Rename, Undisturbed
  <2>2. /\ req'[r].work = NoFile /\ req'[r].token = req[r].token
        /\ req'[r].found = req[r].found
        /\ req'[r].pc = "fill"
    BY <1>6, <1>t DEF Rename
  <2>3. Undisturbed(r)'
    BY <2>1, <2>2, <1>u DEF Undisturbed, Refused
  <2>4. OfMinted(rows)'
    BY <2>1, <1>u DEF Undisturbed, OfMinted
  <2> QED BY <2>1, <2>3, <2>4, <1>o, OneMoves
<1>7. ASSUME NEW r \in Requests, RenameFails(r) \/ Finish(r) \/ Respond(r)
      PROVE  OneByOne'
  BY <1>7, <1>i DEF RenameFails, Finish, Respond
<1>8. ASSUME NEW r \in Requests, NEW t \in Tokens, Login(r, t) PROVE OneByOne'
  <2>1. /\ req[r].pc = "queued" /\ t \notin minted /\ minted' = minted \cup {t}
        /\ loop' = r /\ UNCHANGED rows
        /\ \A q \in Requests \ {r} : req'[q] = req[q]
    BY <1>8 DEF Login
  <2>2. req'[r].pc = "write" /\ req'[r].work = [rows EXCEPT ![t] = "open"]
    BY <1>8, <1>t DEF Login
  <2>3. [rows EXCEPT ![t] = "open"] \in Rows
    BY RequestType
  <2>4. KeepsSessions([rows EXCEPT ![t] = "open"])
    BY <2>1, <1>m, ListsKeepSessions
  <2>5. OfMinted([rows EXCEPT ![t] = "open"])' /\ OfMinted(rows)'
    BY <2>1, <1>m DEF OfMinted, Rows
  <2>6. Undisturbed(r)'
    BY <2>1, <2>2, <2>3, <2>4, <2>5, <1>n DEF Undisturbed, Refused, KeepsSessions, OfMinted
  <2> QED BY <2>1, <2>5, <2>6, <1>o, OneMoves
<1>9. ASSUME NEW r \in Requests, Logout(r) PROVE OneByOne'
  <2> DEFINE t == req[r].token
             W == [rows EXCEPT ![t] = "revoked"]
  <2>1. CASE rows[t] = "open"
    <3>1. /\ req[r].pc = "queued" /\ loop' = r /\ UNCHANGED <<rows, minted>>
          /\ \A q \in Requests \ {r} : req'[q] = req[q]
      BY <1>9, <2>1 DEF Logout
    <3>2. req'[r].pc = "write" /\ req'[r].work = W
      BY <1>9, <2>1, LogoutWrites
    <3>3. W \in Rows
      BY RequestType
    <3>4. KeepsSessions(W) /\ OfMinted(W)
      BY <2>1, <1>m DEF KeepsSessions, OfMinted, Rows
    <3> HIDE DEF W
    <3>5. Undisturbed(r)'
      BY <3>1, <3>2, <3>3, <3>4, <1>n DEF Undisturbed, Refused, KeepsSessions, OfMinted
    <3> QED BY <3>1, <3>5, <1>m, <1>o, OneMoves DEF OfMinted
  <2>2. CASE rows[t] # "open"
    BY <1>9, <2>2, <1>i DEF Logout
  <2> QED BY <2>1, <2>2
<1>10. ASSUME Restart PROVE OneByOne'
  <2>1. \A r \in Requests : req'[r] = Idle
    BY <1>10 DEF Restart
  <2>2. \A r \in Requests : Undisturbed(r)'
    BY <2>1 DEF Undisturbed, Idle
  <2>3. UNCHANGED <<rows, minted>>
    BY <1>10 DEF Restart
  <2>4. \A r \in Requests : req'[r].pc = "idle"
    BY <2>1 DEF Idle
  <2> QED BY <2>2, <2>3, <2>4, <1>m DEF OneByOne, OfMinted
<1>11. ASSUME Tick \/ RedisOutage \/ RedisLoss \/ UNCHANGED vars PROVE OneByOne'
  BY <1>11, NobodyMoves DEF Tick, RedisOutage, RedisLoss, vars
<1> QED
  BY <1>1, <1>2, <1>3, <1>4, <1>5, <1>6, <1>7, <1>8, <1>9, <1>10, <1>11 DEF Next

LEMMA InductiveOneByOne ==
    ASSUME Overlap = FALSE
    PROVE  Spec => [](TypeOK /\ OneByOne)
<1>1. Init => OneByOne
  <2> SUFFICES ASSUME Init PROVE OneByOne
    OBVIOUS
  <2>1. \A r \in Requests : req[r] = Idle
    BY DEF Init
  <2>2. \A r \in Requests : Undisturbed(r) /\ req[r].pc = "idle"
    <3>1. \A r \in Requests : Undisturbed(r)
      BY <2>1, IdleUndisturbed
    <3> QED BY <2>1, <3>1 DEF Idle
  <2> QED BY <2>2 DEF Init, OneByOne, OfMinted
<1>2. TypeOK /\ OneByOne /\ [Next]_vars => OneByOne'
  BY StepOneByOne
<1> QED BY <1>1, <1>2, SessionTypes, PTL DEF Spec

\* With requests taken one at a time, none with the token of an open session is
\* refused, whatever Redis does and wherever the process stops.
THEOREM LiveAccepted ==
    ASSUME Overlap = FALSE
    PROVE  Spec => []LiveIsAccepted
<1>1. OneByOne => LiveIsAccepted
  BY DEF OneByOne, Undisturbed, LiveIsAccepted
<1> QED BY <1>1, InductiveOneByOne, PTL

\* With requests taken one at a time, no list that is saved forgets a session or
\* reopens one that was revoked.
THEOREM SessionsStay ==
    ASSUME Overlap = FALSE
    PROVE  Spec => SessionsKept
<1>1. ASSUME OneByOne, [Next]_vars
      PROVE  [KeepsSessions(rows')]_vars
  <2>1. ASSUME NEW r \in Requests, Rename(r) PROVE KeepsSessions(rows')
    BY <1>1, <2>1 DEF OneByOne, Undisturbed, Rename
  <2>2. ASSUME UNCHANGED rows PROVE KeepsSessions(rows')
    BY <2>2 DEF KeepsSessions
  <2>3. \/ \E r \in Requests : Rename(r)
        \/ UNCHANGED rows
    BY <1>1 DEF Next, vars, BeginLogin, Begin, Lookup, List, Fill, WriteTmp, RenameFails,
                Login, Logout, Finish, Respond, Tick, RedisOutage, RedisLoss, Restart
  <2> QED BY <2>1, <2>2, <2>3
<1>2. OneByOne /\ [Next]_vars =>
        [\A t \in Tokens : /\ rows[t] # "absent" => rows'[t] # "absent"
                           /\ rows[t] = "revoked" => rows'[t] = "revoked"]_vars
  BY <1>1 DEF KeepsSessions
<1> QED BY <1>2, InductiveOneByOne, PTL DEF Spec, SessionsKept
=============================================================================
