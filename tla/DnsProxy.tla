------------------------------ MODULE DnsProxy ------------------------------
(***************************************************************************)
(* The proxied single-record endpoints of routers/proxy_dns.py: GET, POST, *)
(* PATCH, PUT and DELETE on dns_records.  Requests run concurrently, in    *)
(* several workers; an action is what one of them does between two awaits. *)
(* Cloudflare is a process of its own: a forwarded mutation is carried out *)
(* some time after it was sent, whether or not its sender still waits.     *)
(*                                                                         *)
(* Faults names the failures that may happen:                              *)
(*   "authorize"  authorize_dns_request raises: its pre-image fetch (a     *)
(*                transport error, a status >= 400), or its matching of    *)
(*                a name or a body that it does not expect                 *)
(*   "timeout"    httpx gives up on a forwarded mutation                   *)
(*   "badbody"    upstream.json() raises on the answer                     *)
(*   "audit"      the audit row cannot be written                          *)
(*   "lockloss"   MySQL drops the connection that holds the lock           *)
(*   "crash"      the worker dies                                          *)
(***************************************************************************)
EXTENDS Authorizer

CONSTANTS
    Faults,         \* which failures may happen
    InitialRecords  \* the records the upstream may hold at the start

ASSUME DnsProxyAssumption ==
    /\ InitialRecords \subseteq
          [RecordIds -> {i \in Images : i.content = None} \cup {Free, Gone}]
    /\ Faults \subseteq {"authorize", "timeout", "badbody", "audit", "lockloss", "crash"}
    /\ None \notin {"allow", "notfound", "forbidden", "error", "ok", "upstream_error",
                   "unavailable"}
    /\ None \notin [decision : {"allow", "notfound", "forbidden"},
                     pre_image : Images \cup {None}]

VARIABLES
    records,   \* record id -> its image upstream, Free or Gone
    lock,      \* <<zone, rid>> -> the request holding the advisory lock, or None
    pc,        \* request -> the await it is at
    req,       \* request -> its call, None before it arrives
    pre,       \* request -> the pre-image it fetched, None on a 404
    decision,  \* request -> "allow", "notfound", "forbidden", or "error" (an exception)
    flight,    \* request -> its forwarded mutation: "none", "sent", "applied", "rejected"
    audit,     \* request -> its audit row [decision, pre_image], None when it has none
    answer     \* request -> what its client was told, None before

vars == <<records, lock, pc, req, pre, decision, flight, audit, answer>>

LockNames == Zones \X RecordIds
LockName(c) == <<c.zone, c.rid>>   \* mutation_lock_name

Init ==
    /\ records \in InitialRecords
    /\ lock = [k \in LockNames |-> None]
    /\ pc = [q \in Requests |-> "idle"]
    /\ req = [q \in Requests |-> None]
    /\ pre = [q \in Requests |-> None]
    /\ decision = [q \in Requests |-> None]
    /\ flight = [q \in Requests |-> "none"]
    /\ audit = [q \in Requests |-> None]
    /\ answer = [q \in Requests |-> None]

Goto(q, where) == pc' = [pc EXCEPT ![q] = where]

\* Mutant of Finish: only what was allowed is audited.
FinishAllowedOnly(c, d) ==
    IF d # "allow" \/ c.method = "GET" THEN "reply" ELSE "audit"

\* Where the handler goes with decision d once it holds no lock: an exception is
\* answered at once (main.py), an allowed GET is not audited, the rest is.
Finish(c, d) ==
    IF d = "error" \/ (c.method = "GET" /\ d = "allow") THEN "reply" ELSE "audit"

\* Mutant of Leave: an exception gets past the `finally'.
LeaveWithoutFinally(c, d) ==
    IF NeedsLock(c) /\ d # "error" THEN "release" ELSE Finish(c, d)

\* Where it goes from inside the critical section: first to the `finally' of
\* advisory_lock, if it took the lock.
Leave(c, d) == IF NeedsLock(c) THEN "release" ELSE Finish(c, d)

(***************************************************************************)
(* The handlers.                                                           *)
(***************************************************************************)
\* create_dns_record, get_dns_record, _mutate_dns_record_by_id: the token has been
\* resolved; is_lock_exempt picks the way of a by-id mutation.
Receive(q, c) ==
    /\ pc[q] = "idle"
    /\ req' = [req EXCEPT ![q] = c]
    /\ Goto(q, CASE c.method = "POST" -> "decide"
                 [] NeedsLock(c)      -> "lock"
                 [] OTHER             -> "fetch")
    /\ UNCHANGED <<records, lock, pre, decision, flight, audit, answer>>

\* Mutant of AcquireLock: the result of GET_LOCK is not looked at.
AcquireLockUnchecked(q) ==
    /\ pc[q] = "lock"
    /\ lock' = [lock EXCEPT ![LockName(req[q])] = q]
    /\ Goto(q, "fetch")
    /\ UNCHANGED <<records, req, pre, decision, flight, audit, answer>>

\* GET_LOCK returned 1.
AcquireLock(q) ==
    /\ pc[q] = "lock"
    /\ lock[LockName(req[q])] = None
    /\ lock' = [lock EXCEPT ![LockName(req[q])] = q]
    /\ Goto(q, "fetch")
    /\ UNCHANGED <<records, req, pre, decision, flight, audit, answer>>

\* GET_LOCK returned 0 after its timeout: 503, and no audit row.
LockTimeout(q) ==
    /\ pc[q] = "lock"
    /\ lock[LockName(req[q])] # None
    /\ answer' = [answer EXCEPT ![q] = "unavailable"]
    /\ Goto(q, "done")
    /\ UNCHANGED <<records, lock, req, pre, decision, flight, audit>>

\* Mutant of Fetch: a 404 is not told apart from an answer.
FetchIgnores404(q) ==
    /\ pc[q] = "fetch"
    /\ pre' = [pre EXCEPT ![q] = records[req[q].rid]]
    /\ Goto(q, "decide")
    /\ UNCHANGED <<records, lock, req, decision, flight, audit, answer>>

\* fetch_cf_record.
Fetch(q) ==
    /\ pc[q] = "fetch"
    /\ LET image == records[req[q].rid]
       IN  pre' = [pre EXCEPT ![q] = IF Exists(image) THEN image ELSE None]
    /\ Goto(q, "decide")
    /\ UNCHANGED <<records, lock, req, decision, flight, audit, answer>>

\* authorize_dns_request has its pre-image: deny, or send the mutation upstream.
Decide(q) ==
    LET c == req[q]
        d == Authorize(c, pre[q])
        sends == d = "allow" /\ c.method # "GET"
    IN  /\ pc[q] = "decide"
        /\ decision' = [decision EXCEPT ![q] = d]
        /\ flight' = [flight EXCEPT ![q] = IF sends THEN "sent" ELSE "none"]
        /\ Goto(q, IF sends THEN "await" ELSE Leave(c, d))
        /\ UNCHANGED <<records, lock, req, pre, audit, answer>>

\* forward_request returned Cloudflare's answer.
Answered(q) ==
    /\ pc[q] = "await"
    /\ flight[q] \in {"applied", "rejected"}
    /\ Goto(q, Leave(req[q], "allow"))
    /\ UNCHANGED <<records, lock, req, pre, decision, flight, audit, answer>>

\* RELEASE_LOCK; on a connection that was lost the statement raises.
Release(q) ==
    LET k == LockName(req[q])
        d == IF lock[k] = q THEN decision[q] ELSE "error"
    IN  /\ pc[q] = "release"
        /\ lock' = IF lock[k] = q THEN [lock EXCEPT ![k] = None] ELSE lock
        /\ decision' = [decision EXCEPT ![q] = d]
        /\ Goto(q, Finish(req[q], d))
        /\ UNCHANGED <<records, req, pre, flight, audit, answer>>

\* _record_audit committed the row.
WriteAudit(q) ==
    /\ pc[q] = "audit"
    /\ audit' = [audit EXCEPT ![q] = [decision |-> decision[q], pre_image |-> pre[q]]]
    /\ Goto(q, "reply")
    /\ UNCHANGED <<records, lock, req, pre, decision, flight, answer>>

\* The response goes out; Cloudflare's own refusal is passed on verbatim.
Reply(q) ==
    /\ pc[q] = "reply"
    /\ answer' = [answer EXCEPT ![q] =
                    IF decision[q] # "allow" THEN decision[q]
                    ELSE IF flight[q] = "rejected" THEN "upstream_error" ELSE "ok"]
    /\ Goto(q, "done")
    /\ UNCHANGED <<records, lock, req, pre, decision, flight, audit>>

(***************************************************************************)
(* Cloudflare.                                                             *)
(***************************************************************************)
Apply(q) ==
    /\ flight[q] = "sent"
    /\ Effect(req[q], q, records, records')
    /\ flight' = [flight EXCEPT ![q] = "applied"]
    /\ UNCHANGED <<lock, pc, req, pre, decision, audit, answer>>

\* The record is gone, or Cloudflare turns the body down.
Reject(q) ==
    /\ flight[q] = "sent"
    /\ flight' = [flight EXCEPT ![q] = "rejected"]
    /\ UNCHANGED <<records, lock, pc, req, pre, decision, audit, answer>>

(***************************************************************************)
(* Failures.                                                               *)
(***************************************************************************)
Raise(q, where) ==
    /\ decision' = [decision EXCEPT ![q] = "error"]
    /\ Goto(q, where)
    /\ UNCHANGED <<records, lock, req, pre, flight, audit, answer>>

\* Nothing has been sent; for a POST, also when the upstream credential cannot be resolved.
AuthorizeError(q) ==
    "authorize" \in Faults /\ pc[q] \in {"fetch", "decide"} /\ Raise(q, Leave(req[q], "error"))

\* The mutation stays in flight.
ForwardTimeout(q) == "timeout" \in Faults /\ pc[q] = "await" /\ Raise(q, Leave(req[q], "error"))

BadBody(q) ==
    "badbody" \in Faults /\ pc[q] = "audit" /\ decision[q] = "allow" /\ Raise(q, "reply")

\* _record_audit swallows the exception.
AuditFails(q) ==
    /\ "audit" \in Faults
    /\ pc[q] = "audit"
    /\ Goto(q, "reply")
    /\ UNCHANGED <<records, lock, req, pre, decision, flight, audit, answer>>

LoseLock(q) ==
    /\ "lockloss" \in Faults
    /\ pc[q] \in {"fetch", "decide", "await", "release"}
    /\ NeedsLock(req[q]) /\ lock[LockName(req[q])] = q
    /\ lock' = [lock EXCEPT ![LockName(req[q])] = None]
    /\ UNCHANGED <<records, pc, req, pre, decision, flight, audit, answer>>

\* MySQL frees the lock when the dead worker's connection closes.
Crash(q) ==
    /\ "crash" \in Faults
    /\ pc[q] \notin {"idle", "done", "crashed"}
    /\ lock' = [k \in LockNames |-> IF lock[k] = q THEN None ELSE lock[k]]
    /\ Goto(q, "crashed")
    /\ UNCHANGED <<records, req, pre, decision, flight, audit, answer>>

Handler(q) ==
    \/ AcquireLock(q) \/ LockTimeout(q) \/ Fetch(q) \/ Decide(q) \/ Answered(q)
    \/ Release(q) \/ WriteAudit(q) \/ Reply(q)

Upstream(q) == Apply(q) \/ Reject(q)

Failure(q) ==
    \/ AuthorizeError(q) \/ ForwardTimeout(q) \/ BadBody(q) \/ AuditFails(q)
    \/ LoseLock(q) \/ Crash(q)

Next ==
    \E q \in Requests :
        \/ \E c \in Calls : Receive(q, c)
        \/ Handler(q)
        \/ Upstream(q)
        \/ Failure(q)

Spec == Init /\ [][Next]_vars

(***************************************************************************)
(* Properties.                                                             *)
(***************************************************************************)
TypeOK ==
    /\ records \in [RecordIds -> Images \cup {Free, Gone}]
    /\ lock \in [LockNames -> Requests \cup {None}]
    /\ pc \in [Requests -> {"idle", "lock", "fetch", "decide", "await", "release",
                            "audit", "reply", "done", "crashed"}]
    /\ req \in [Requests -> Calls \cup {None}]
    /\ pre \in [Requests -> Images \cup {None}]
    /\ decision \in [Requests -> {None, "allow", "notfound", "forbidden", "error"}]
    /\ flight \in [Requests -> {"none", "sent", "applied", "rejected"}]
    /\ audit \in [Requests -> [decision : {"allow", "notfound", "forbidden"},
                               pre_image : Images \cup {None}] \cup {None}]
    /\ answer \in [Requests -> {None, "ok", "notfound", "forbidden", "upstream_error",
                                "unavailable", "error"}]

\* Request q has a by-id mutation on its way to Cloudflare, and the record exists.
InFlight(q) ==
    flight[q] = "sent" /\ ByIdMutation(req[q]) /\ Exists(records[req[q].rid])

\* No time-of-check-to-time-of-use window: a mutation on its way to Cloudflare is
\* authorised, old and new image, for the record as it is now, not only for the
\* pre-image that was fetched (_mutate_dns_record_by_id: "closing the TOCTOU window
\* between reading the record's current name/type and forwarding the mutation").
InFlightAuthorized ==
    \A q \in Requests : InFlight(q) => Permitted(req[q], records)

\* When Cloudflare carries out a by-id mutation it replaces the very version the
\* proxy fetched, so the pre_image of the audit row is the image that was lost.
PreImageIsReplaced ==
    [][\A q \in Requests :
         flight[q] = "sent" /\ flight'[q] = "applied" /\ ByIdMutation(req[q])
           => records[req[q].rid] = pre[q]]_vars

\* A client that is told of a refusal or of a mutation finds it in the audit log:
\* the row is there before the answer, and says what was decided (proxy_dns.py:
\* "Denies and mutations are written to the audit log before responding").
AuditedBeforeAnswer ==
    \A q \in Requests :
        answer[q] \in {"ok", "notfound", "forbidden", "upstream_error"} =>
            \/ audit[q] # None /\ audit[q].decision = decision[q]
            \/ answer[q] = "ok" /\ req[q].method = "GET"

\* A request that is over, however it ended, holds no mutation lock: exceptions,
\* timeouts and crashes between GET_LOCK and RELEASE_LOCK included.
FinishedHoldsNoLock ==
    \A q \in Requests, k \in LockNames :
        pc[q] \in {"audit", "reply", "done", "crashed"} => lock[k] # q

\* The image a full-body write leaves behind is inside the writer's scope, even when
\* the record was renamed under its feet, the lock was lost or the call timed out.
FullBodyStaysInScope ==
    \A q \in Requests, r \in RecordIds :
        Exists(records[r]) /\ records[r].content = q /\ FullBody(req[q]) =>
            Grants(req[q], records[r].name, records[r].type, req[q].rid)

\* The claim behind skipping the lock: a lock-exempt mutation on its way stays
\* authorised whatever other requests do to the record meanwhile.
ExemptInFlightAuthorized ==
    \A q \in Requests :
        InFlight(q) /\ ~NeedsLock(req[q]) => Permitted(req[q], records)

\* Every request that arrived gets an answer, unless its worker dies: nobody waits for
\* ever on a lock, on another request (failed ones included), on Cloudflare or, in
\* PooledProxy, on a connection.
EventuallyAnswered ==
    \A q \in Requests : (pc[q] # "idle") ~> (answer[q] # None \/ pc[q] = "crashed")

\* The calls are atomic: see AtomicProxy.
Atomic == INSTANCE AtomicProxy WITH took <- {q \in Requests : flight[q] = "applied"}

\* Every behaviour of the handlers is one of AtomicProxy: a mutation is authorised
\* and carried out in one step, before its answer, and a refused one never is.
CallsAreAtomic == Atomic!Spec
=============================================================================
