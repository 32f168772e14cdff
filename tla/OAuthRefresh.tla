---------------------------- MODULE OAuthRefresh ----------------------------
(***************************************************************************)
(* One OAuth upstream credential: get_valid_access_token of                *)
(* upstream/client.py, run by concurrent proxied requests, and a new login *)
(* of its user (handle_cf_oauth_callback of services/oauth_service.py).    *)
(*                                                                         *)
(* A refresh token is <<family, n>>: the n-th of the consent `family'.     *)
(* Access tokens are told apart by nothing, only whether one is cached     *)
(* counts; a cached one may be missed at any time (TTL, Redis down).       *)
(*                                                                         *)
(* The session of a request has loaded the credential row before (the      *)
(* token was resolved with it).  The SELECT ... FOR UPDATE finds it in the *)
(* identity map and leaves its attributes alone: the request goes on with  *)
(* the row as it was first read.                                           *)
(***************************************************************************)
EXTENDS Naturals, FiniteSets

CONSTANTS
    None,
    Requests,  \* proxied requests that need an access token
    Logins,    \* logins of the user while they run
    First,     \* the consent the row holds at the start
    Locking,   \* subset of BOOLEAN: does with_row_lock lock (MySQL) or not (SQLite)?
    Rotates,   \* subset of BOOLEAN: does the token endpoint replace refresh tokens?
    ExpiresIn, \* subset of BOOLEAN: may its answers carry expires_in?
    Offline    \* subset of BOOLEAN: does a consent bring a refresh token?  With the
               \* default scopes ("openid offline_access") it does

ASSUME OAuthAssumption ==
    /\ None \notin Requests \cup Logins /\ First \notin Logins
    /\ Locking \subseteq BOOLEAN /\ Rotates \subseteq BOOLEAN /\ ExpiresIn \subseteq BOOLEAN
    /\ Offline \subseteq BOOLEAN
    /\ IsFiniteSet(Requests) /\ IsFiniteSet(Logins)

VARIABLES
    locking, rotates,
    row,      \* the credential row: [refresh, expires, version]
    rowLock,  \* the request that holds the row lock, or None
    cached,   \* is an access token in the cache?
    current,  \* family -> the number of the refresh token the endpoint accepts
    lost,     \* the families of which an answer of the endpoint was lost
    req,      \* request -> [phase, seen (the row it loaded), reply, result]
    login     \* login -> [phase, seen]

vars == <<locking, rotates, row, rowLock, cached, current, lost, req, login>>

Families == {First} \cup Logins
Generations == 0..Cardinality(Requests)                   \* each request refreshes once
Versions == 1..(1 + Cardinality(Requests) + Cardinality(Logins))

RefreshTokens == Families \X Generations
Rows == [refresh : RefreshTokens, expires : BOOLEAN, version : Versions]
Replies == [refresh : RefreshTokens, expires : BOOLEAN]

ASSUME NoneAssumption == None \notin Rows \cup Replies   \* it stands for a row not read

ReqStates == [phase : {"idle", "cache", "lock", "grant", "update", "store", "done"},
              seen : Rows \cup {None}, reply : Replies \cup {None},
              result : {None, "ok", "error"}]
LoginStates == [phase : {"idle", "read", "done"}, seen : Rows \cup {None}]

Init ==
    /\ locking \in Locking /\ rotates \in Rotates
    /\ row \in [refresh : {<<First, 0>>}, expires : ExpiresIn, version : {1}]
    /\ rowLock = None
    /\ cached = FALSE
    /\ current = [f \in Families |-> 0]
    /\ lost = {}
    /\ req = [q \in Requests |-> [phase |-> "idle", seen |-> None, reply |-> None,
                                  result |-> None]]
    /\ login = [l \in Logins |-> [phase |-> "idle", seen |-> None]]

Unlocked == IF locking THEN None ELSE rowLock

(***************************************************************************)
(* get_valid_access_token, for a credential of type "oauth".               *)
(***************************************************************************)
\* The request's session loads the row.
Load(q) ==
    /\ req[q].phase = "idle"
    /\ req' = [req EXCEPT ![q].phase = "cache", ![q].seen = row]
    /\ UNCHANGED <<locking, rotates, row, rowLock, cached, current, lost, login>>

CacheHit(q) ==
    /\ req[q].phase = "cache" /\ cached
    /\ req' = [req EXCEPT ![q].phase = "done", ![q].result = "ok"]
    /\ UNCHANGED <<locking, rotates, row, rowLock, cached, current, lost, login>>

CacheMiss(q) ==
    /\ req[q].phase = "cache"
    /\ req' = [req EXCEPT ![q].phase = "lock"]
    /\ UNCHANGED <<locking, rotates, row, rowLock, cached, current, lost, login>>

\* SELECT ... FOR UPDATE returns; there is no expiry to check.  That the database
\* gives up on a long wait is a setting of its own and left out: EveryoneEnds must
\* hold because whoever has the row gives it back.
LockRow(q) ==
    /\ req[q].phase = "lock" /\ ~req[q].seen.expires
    /\ rowLock = None
    /\ rowLock' = IF locking THEN q ELSE None
    /\ req' = [req EXCEPT ![q].phase = "grant"]
    /\ UNCHANGED <<locking, rotates, row, cached, current, lost, login>>

\* It returns, and comparing token_expires_at, which comes back from the database
\* without a time zone, with datetime.now(UTC) raises TypeError; the session ends.
CompareRaises(q) ==
    /\ req[q].phase = "lock" /\ req[q].seen.expires
    /\ rowLock = None
    /\ req' = [req EXCEPT ![q].phase = "done", ![q].result = "error"]
    /\ UNCHANGED <<locking, rotates, row, rowLock, cached, current, lost, login>>

\* The endpoint accepts the refresh token t and has `next' as the one to use now.
Exchange(t, next) ==
    /\ current[t[1]] = t[2]
    /\ next = <<t[1], IF rotates THEN t[2] + 1 ELSE t[2]>>
    /\ current' = [current EXCEPT ![t[1]] = next[2]]

\* refresh_access_token: the grant is performed.
Refresh(q) ==
    /\ req[q].phase = "grant"
    /\ \E next \in RefreshTokens, e \in ExpiresIn :
          /\ Exchange(req[q].seen.refresh, next)
          /\ req' = [req EXCEPT ![q].phase = "update",
                                ![q].reply = [refresh |-> next, expires |-> e]]
    /\ UNCHANGED <<locking, rotates, row, rowLock, cached, lost, login>>

\* Mutant of RefreshRefused: the session is never closed.
RefreshRefusedKeepsSession(q) ==
    /\ req[q].phase = "grant"
    /\ req' = [req EXCEPT ![q].phase = "done", ![q].result = "error"]
    /\ UNCHANGED <<locking, rotates, row, rowLock, cached, current, lost, login>>

\* The endpoint refuses a refresh token that was replaced, or fails, or is not
\* reached, before it performs the grant: the call raises, and the end of the session
\* gives the row back.
RefreshRefused(q) ==
    /\ req[q].phase = "grant"
    /\ rowLock' = Unlocked
    /\ req' = [req EXCEPT ![q].phase = "done", ![q].result = "error"]
    /\ UNCHANGED <<locking, rotates, row, cached, current, lost, login>>

\* The grant is performed, but its answer does not arrive, or the worker dies
\* before it is stored.
RefreshLost(q) ==
    /\ req[q].phase = "grant"
    /\ \E next \in RefreshTokens : Exchange(req[q].seen.refresh, next)
    /\ lost' = lost \cup {req[q].seen.refresh[1]}
    /\ rowLock' = Unlocked
    /\ req' = [req EXCEPT ![q].phase = "done", ![q].result = "error"]
    /\ UNCHANGED <<locking, rotates, row, cached, login>>

\* Mutant of Stored: the refresh token of the answer is ignored.
StoredKeepsRefresh(seen, reply) ==
    [refresh |-> seen.refresh, expires |-> reply.expires, version |-> seen.version + 1]

\* Mutant of Stored: an answer without a refresh token empties the column.
StoredWithoutFallback(seen, reply) ==
    [refresh |-> IF reply.refresh = seen.refresh THEN None ELSE reply.refresh,
     expires |-> reply.expires, version |-> seen.version + 1]

\* The columns the UPDATE sets; an answer without a refresh token keeps the old one.
Stored(seen, reply) ==
    [refresh |-> reply.refresh, expires |-> reply.expires, version |-> seen.version + 1]

\* Mutant of Fenced: the UPDATE has no cred_version in its WHERE clause.
FencedById(q) == TRUE

\* WHERE cred_version == locked.cred_version
Fenced(q) == row.version = req[q].seen.version

\* The UPDATE and its commit.
UpdateRow(q) ==
    /\ req[q].phase = "update"
    /\ row' = IF Fenced(q) THEN Stored(req[q].seen, req[q].reply) ELSE row
    /\ rowLock' = Unlocked
    /\ req' = [req EXCEPT ![q].phase = "store"]
    /\ UNCHANGED <<locking, rotates, cached, current, lost, login>>

\* Cached only when the answer had an expires_in; Redis errors are swallowed.
StoreCache(q) ==
    /\ req[q].phase = "store"
    /\ cached' = (cached \/ req[q].reply.expires)
    /\ req' = [req EXCEPT ![q].phase = "done", ![q].result = "ok"]
    /\ UNCHANGED <<locking, rotates, row, rowLock, current, lost, login>>

(***************************************************************************)
(* handle_cf_oauth_callback for a user whose credential exists: the row is *)
(* read, then written with the version that was read plus one.  The cache  *)
(* is left as it is.                                                       *)
(***************************************************************************)
LoginRead(l) ==
    /\ login[l].phase = "idle"
    /\ login' = [login EXCEPT ![l].phase = "read", ![l].seen = row]
    /\ UNCHANGED <<locking, rotates, row, rowLock, cached, current, lost, req>>

\* Without a new refresh token the column is not written.
LoginCommit(l) ==
    /\ login[l].phase = "read"
    /\ rowLock = None
    /\ \E e \in ExpiresIn, offline \in Offline :
          row' = [refresh |-> IF offline THEN <<l, 0>> ELSE row.refresh, expires |-> e,
                  version |-> login[l].seen.version + 1]
    /\ login' = [login EXCEPT ![l].phase = "done"]
    /\ UNCHANGED <<locking, rotates, rowLock, cached, current, lost, req>>

Continue(q) ==
    \/ CacheHit(q) \/ CacheMiss(q) \/ LockRow(q) \/ CompareRaises(q)
    \/ Refresh(q) \/ RefreshRefused(q) \/ RefreshLost(q) \/ UpdateRow(q) \/ StoreCache(q)

Next ==
    \/ \E q \in Requests : Load(q) \/ Continue(q)
    \/ \E l \in Logins : LoginRead(l) \/ LoginCommit(l)

\* A handler at an await is resumed, and the endpoint answers or the call fails;
\* nothing makes a request or a login begin.
Fairness == /\ \A q \in Requests : WF_vars(Continue(q))
            /\ \A l \in Logins : WF_vars(LoginCommit(l))

Spec == Init /\ [][Next]_vars /\ Fairness

(***************************************************************************)
(* Properties.                                                             *)
(***************************************************************************)
TypeOK ==
    /\ locking \in BOOLEAN /\ rotates \in BOOLEAN /\ cached \in BOOLEAN
    /\ row \in Rows
    /\ rowLock \in Requests \cup {None}
    /\ current \in [Families -> Generations]
    /\ lost \subseteq Families
    /\ req \in [Requests -> ReqStates]
    /\ login \in [Logins -> LoginStates]

Usable(t) == current[t[1]] = t[2]

\* The stored refresh token is one the endpoint accepts, or the request that used
\* it up is about to replace it: whatever requests and logins do to each other, a
\* credential is lost to its user only when an answer of the endpoint was.  The lost
\* answer is excepted because the code has no remedy for it.  "Usable" is what the
\* endpoint makes of the token: with an expiry in the row the code does not get as
\* far as presenting it (CompareRaises).
StoredTokenIsUsable ==
    \/ Usable(row.refresh)
    \/ row.refresh[1] \in lost
    \/ \E q \in Requests :
          /\ req[q].phase = "update"
          /\ Usable(req[q].reply.refresh) /\ req[q].seen.version = row.version

\* A refresh replaces only the row it was granted for, however long the endpoint
\* took ("conditional cred_version bump (fences stale writers)"), as long as no
\* login, which may use a version number a second time, has gone by: after one the
\* fence does let an older refresh through, and nothing is claimed.
StaleWriterIsFenced ==
    [][\A q \in Requests :
         req[q].phase = "update" /\ req'[q].phase = "store" /\ row' # row =>
             row = req[q].seen \/ \E l \in Logins : login[l].phase = "done"]_vars

\* Every request for a token and every login that has begun ends: a refresh that was
\* refused or that failed does not leave the others waiting for the row.
EveryoneEnds ==
    /\ \A q \in Requests : (req[q].phase # "idle") ~> (req[q].phase = "done")
    /\ \A l \in Logins : (login[l].phase # "idle") ~> (login[l].phase = "done")

\* What is looked at inside the row lock is the row as it then is
\* (get_valid_access_token: "expiry is re-checked inside the lock (a waiter may find
\* a concurrent refresher already rotated it), and only then is the refresh grant
\* performed").  The code does not have this property: a waiter goes on with the row
\* it loaded before, and presents the refresh token that has been replaced.
RecheckIsCurrent ==
    \A q \in Requests : locking /\ req[q].phase = "grant" => req[q].seen = row
=============================================================================
