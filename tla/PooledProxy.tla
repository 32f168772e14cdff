---------------------------- MODULE PooledProxy ----------------------------
(***************************************************************************)
(* DnsProxy in one worker, whose engine has a bounded connection pool.     *)
(*                                                                         *)
(* A request's session takes a connection when its token is resolved and   *)
(* keeps it until it commits or is closed; the mutation lock is taken on a *)
(* second one (engine.connect() in _mutate_dns_record_by_id).  A request   *)
(* that finds the pool empty waits, and gets an exception after            *)
(* pool_timeout.  What a request commits besides its audit row is a        *)
(* refresh of an OAuth credential: then its session gives its connection   *)
(* back and needs another one for the audit row.                           *)
(***************************************************************************)
EXTENDS DnsProxy

CONSTANTS
    Capacity,     \* pool_size + max_overflow of create_async_engine
    OAuthTokens   \* the tokens that are bound to an OAuth credential

\* There is one worker: if it died, the pool and all the requests would go with it.
ASSUME PooledProxyAssumption ==
    /\ Capacity \in Nat \ {0} /\ OAuthTokens \subseteq Tokens /\ IsFiniteSet(Requests)
    /\ "crash" \notin Faults

VARIABLES
    session,   \* the requests whose session has a connection
    locker     \* the requests that have a connection for the mutation lock

pool == <<session, locker>>
pooledVars == <<records, lock, pc, req, pre, decision, flight, audit, answer, session, locker>>

Available == Cardinality(session) + Cardinality(locker) < Capacity

PooledInit == Init /\ session = {} /\ locker = {}

(***************************************************************************)
(* The session's connection.                                               *)
(***************************************************************************)
\* The session after a call of resolve_upstream_auth: get_valid_access_token may
\* have had to refresh the token, and has then committed.
Resolved(q, c) == {session \cup {q}} \cup {s \in {session \ {q}} : c.token \in OAuthTokens}

\* resolve_scoped_token's SELECT takes a connection; the by-id handlers go on to
\* resolve_upstream_auth.
Arrive(q, c) ==
    /\ Available
    /\ Receive(q, c)
    /\ session' \in IF c.method = "POST" THEN {session \cup {q}} ELSE Resolved(q, c)
    /\ UNCHANGED locker

\* The pool stays empty for pool_timeout: require_scoped_token raises.
Refused(q, c) ==
    /\ pc[q] = "idle"
    /\ ~Available
    /\ req' = [req EXCEPT ![q] = c]
    /\ answer' = [answer EXCEPT ![q] = "error"]
    /\ Goto(q, "done")
    /\ UNCHANGED <<records, lock, pre, decision, flight, audit, session, locker>>

\* create_dns_record resolves the upstream credential once the call is allowed.
PooledDecide(q) ==
    /\ Decide(q)
    /\ session' \in IF req[q].method = "POST" /\ decision'[q] = "allow"
                    THEN Resolved(q, req[q])
                    ELSE {session}
    /\ UNCHANGED locker

\* Mutant of CanWrite: audit rows are written in a session of their own.
CanWriteApart(q) == Available

\* The session can execute a statement.
CanWrite(q) == q \in session \/ Available

\* write_audit commits, which gives the connection back, and then takes one to
\* refresh the row; that SELECT may fail, the row is there.
PooledWriteAudit(q) ==
    /\ CanWrite(q)
    /\ WriteAudit(q)
    /\ session' \in {session \cup {q}, session \ {q}}
    /\ UNCHANGED locker

\* The pool stays empty for pool_timeout: _record_audit swallows the exception.
AuditTimeout(q) ==
    /\ pc[q] = "audit"
    /\ ~CanWrite(q)
    /\ Goto(q, "reply")
    /\ UNCHANGED <<records, lock, req, pre, decision, flight, audit, answer, session, locker>>

\* The dependency get_session ends.
Close(q) ==
    /\ pc[q] = "done"
    /\ q \in session
    /\ session' = session \ {q}
    /\ UNCHANGED <<vars, locker>>

(***************************************************************************)
(* The connection of the mutation lock.                                    *)
(***************************************************************************)
Connect(q) ==
    /\ pc[q] = "lock"
    /\ q \notin locker
    /\ Available
    /\ locker' = locker \cup {q}
    /\ UNCHANGED <<vars, session>>

\* Mutant of ConnectTimeout: the pool has no timeout.
ConnectTimeoutNever(q) == FALSE /\ UNCHANGED pooledVars

\* engine.connect() raises TimeoutError, which is no LockUnavailable: answered as an
\* internal error.
ConnectTimeout(q) ==
    /\ pc[q] = "lock"
    /\ q \notin locker
    /\ ~Available
    /\ Raise(q, "reply")
    /\ UNCHANGED pool

PooledAcquireLock(q) == q \in locker /\ AcquireLock(q) /\ UNCHANGED pool

\* Mutant of PooledLockTimeout: the connection is opened without `async with'.
PooledLockTimeoutLeaks(q) == q \in locker /\ LockTimeout(q) /\ UNCHANGED pool

\* The exception leaves the `async with' of the connection.
PooledLockTimeout(q) ==
    /\ q \in locker
    /\ LockTimeout(q)
    /\ locker' = locker \ {q}
    /\ UNCHANGED session

PooledRelease(q) ==
    /\ Release(q)
    /\ locker' = locker \ {q}
    /\ UNCHANGED session

PooledHandler(q) ==
    \/ Connect(q) \/ ConnectTimeout(q) \/ PooledAcquireLock(q) \/ PooledLockTimeout(q)
    \/ (Fetch(q) \/ Answered(q) \/ Reply(q)) /\ UNCHANGED pool
    \/ PooledDecide(q) \/ PooledRelease(q)
    \/ PooledWriteAudit(q) \/ AuditTimeout(q) \/ Close(q)

PooledNext ==
    \E q \in Requests :
        \/ \E c \in Calls : Arrive(q, c) \/ Refused(q, c)
        \/ PooledHandler(q)
        \/ (Upstream(q) \/ Failure(q)) /\ UNCHANGED pool

\* A handler at an await is resumed by the event loop: a wait for the pool or the lock
\* is over when there is one, or when its timeout has passed.  Cloudflare deals with
\* every request that reached it; nothing makes a client send one.
PooledSpec ==
    /\ PooledInit /\ [][PooledNext]_pooledVars
    /\ \A q \in Requests :
          /\ WF_pooledVars(PooledHandler(q))
          /\ WF_pooledVars(Upstream(q) /\ UNCHANGED pool)

(***************************************************************************)
(* Properties.                                                             *)
(***************************************************************************)
\* Whoever holds a mutation lock holds the connection it was taken on, and a request
\* outside the `async with' has none: a connection never goes back to the pool, and
\* on to another request, with a lock on it, and none is lost to the pool.
LockLivesOnItsConnection ==
    \A q \in Requests :
        /\ \A k \in LockNames : lock[k] = q => q \in locker
        /\ q \in locker => pc[q] \in {"lock", "fetch", "decide", "await", "release"}

\* A mutation that was carried out is in the audit log when its client has been
\* answered, with two exceptions: the client was told of an error (a timeout, an
\* answer that does not parse, a lost lock), or its token is bound to an OAuth
\* credential and its session, which had given its connection back to commit a refresh,
\* found none in the pool.  A full pool alone does not cost the row of a request whose
\* session still has its connection.
\* (The database itself works: without the fault "audit".)
AuditGapIsKnown ==
    \A q \in Requests :
        flight[q] = "applied" /\ answer[q] # None /\ audit[q] = None =>
            \/ answer[q] = "error"
            \/ req[q].token \in OAuthTokens /\ q \notin session
=============================================================================
