-------------------------- MODULE DnsAtomicityProofs --------------------------
(***************************************************************************)
(* Proofs that the mutation lock does what the comments of proxy_dns.py    *)
(* claim for it, when every by-id mutation takes it and nothing makes a    *)
(* request give it up while its mutation is on its way; and that the calls *)
(* are then atomic.                                                        *)
(***************************************************************************)
EXTENDS DnsProxyProofs

\* Neither conjunct can go: ForwardTimeout, LoseLock and Crash free the lock of a
\* mutation that is still on its way, and the run dns_exempt shows what a lock-exempt
\* call does to one.
Reliable ==
    /\ Faults \cap {"timeout", "lockloss", "crash"} = {}
    /\ \A c \in Calls : ByIdMutation(c) => NeedsLock(c)

\* The lock is held through the critical section, and a mutation is in flight only
\* inside it.
InCritical(q) ==
    /\ pc[q] # "crashed"
    /\ pc[q] \in Critical /\ NeedsLock(req[q]) => lock[LockName(req[q])] = q
    /\ flight[q] = "sent" => pc[q] = "await"

CriticalInv == \A q \in Requests : InCritical(q)

\* The only failures left: they leave the lock and the records alone.
Mishap(q) == AuthorizeError(q) \/ BadBody(q) \/ AuditFails(q)

\* A step leaves whoever is in its critical section there, with its lock.
LEMMA CriticalStep ==
    ASSUME Reliable
    PROVE  TypeOK /\ ControlInv /\ CriticalInv /\ [Next]_vars => CriticalInv'
<1> SUFFICES ASSUME TypeOK, ControlInv, CriticalInv, [Next]_vars PROVE CriticalInv'
  OBVIOUS
<1>u. CASE UNCHANGED vars
  BY <1>u DEF vars, CriticalInv, InCritical
<1>n. ASSUME NEW q \in Requests, Step(q) PROVE CriticalInv'
  <2>f. Failure(q) => Mishap(q)
    BY DEF Reliable, Failure, Mishap, ForwardTimeout, LoseLock, Crash
  <2>c. Control(q) /\ InCritical(q) /\ None \notin Requests
    BY ConstantsAssumption DEF ControlInv, CriticalInv
  <2> USE DEF TypeOK, Goto, Critical
  <2>o. ASSUME NEW p \in Requests \ {q} PROVE InCritical(p)'
    <3>1. InCritical(p) /\ Control(p)
      BY DEF CriticalInv, ControlInv
    <3>2. /\ pc'[p] = pc[p] /\ req'[p] = req[p] /\ decision'[p] = decision[p]
          /\ flight'[p] = flight[p]
      BY <1>n, StepIsLocal DEF OthersUnchanged
    <3>3. ASSUME pc[p] \in Critical, NeedsLock(req[p])
          PROVE  lock'[LockName(req[p])] = p
      <4>1. lock[LockName(req[p])] = p /\ req[p] \in Calls /\ LockName(req[p]) \in LockNames
        BY <3>1, <3>3, CallType DEF InCritical, Control, NeedsLock
      <4>2. CASE AcquireLock(q)
        BY <2>c, <4>1, <4>2 DEF AcquireLock
      <4>3. CASE Release(q)
        BY <4>1, <4>3 DEF Release
      <4>4. CASE ~AcquireLock(q) /\ ~Release(q)
        <5>1. lock' = lock
          BY <1>n, <2>f, <4>4
             DEF Step, Handler, Upstream, Receive, LockTimeout, Fetch, Decide, Answered,
                 WriteAudit, Reply, Apply, Reject, Mishap, AuthorizeError, BadBody, AuditFails,
                 Raise
        <5> QED BY <4>1, <5>1
      <4> QED BY <4>2, <4>3, <4>4
    <3> QED BY <3>1, <3>2, <3>3 DEF InCritical
  <2>q. InCritical(q)'
    <3> USE DnsProxyAssumption DEF InCritical
    <3>1. ASSUME NEW c \in Calls, Receive(q, c) PROVE InCritical(q)'
      <4>1. flight[q] = "none"
        BY <2>c, <3>1 DEF Receive, Control
      <4>2. pc'[q] \in {"decide", "lock", "fetch"} /\ (pc'[q] \in Critical => ~NeedsLock(c))
        BY <3>1, CallType DEF Receive, NeedsLock
      <4> QED BY <2>c, <3>1, <4>1, <4>2 DEF Receive
    <3>2. CASE AcquireLock(q)
      <4>1. LockName(req[q]) \in LockNames
        BY <2>c, <3>2, CallType DEF AcquireLock, Control, NeedsLock
      <4> QED BY <2>c, <3>2, <4>1 DEF AcquireLock, Control
    <3>3. CASE LockTimeout(q) \/ Fetch(q) \/ WriteAudit(q) \/ Reply(q)
      BY <2>c, <3>3 DEF LockTimeout, Fetch, WriteAudit, Reply
    <3>4. CASE Decide(q)
      <4> DEFINE d == Authorize(req[q], pre[q])
      <4>1. d \in {"allow", "notfound", "forbidden"}
        BY AuthorizeType
      <4>2. /\ Leave(req[q], d) \in {"release", "reply", "audit"}
            /\ Leave(req[q], d) = "release" => NeedsLock(req[q])
        BY DEF Leave, Finish
      <4> HIDE DEF d
      <4> QED BY <2>c, <3>4, <4>1, <4>2 DEF Decide, d, Control
    <3>5. CASE Answered(q)
      BY <2>c, <3>5 DEF Answered, Leave, Finish
    <3>6. CASE Release(q)
      <4>1. lock[LockName(req[q])] = q
        BY <2>c, <3>6 DEF Release, Control
      <4>2. Finish(req[q], decision[q]) \in {"audit", "reply"}
        BY DEF Finish
      <4> QED BY <2>c, <3>6, <4>1, <4>2 DEF Release
    <3>7. CASE Upstream(q)
      BY <2>c, <3>7 DEF Upstream, Apply, Reject
    <3>8. CASE Mishap(q)
      BY <2>c, <3>8 DEF Mishap, AuthorizeError, BadBody, AuditFails, Raise, Leave, Finish, Control
    <3> QED
      BY <1>n, <2>f, <3>1, <3>2, <3>3, <3>4, <3>5, <3>6, <3>7, <3>8 DEF Step, Handler
  <2> QED BY <2>o, <2>q DEF CriticalInv
<1> QED BY <1>u, <1>n DEF Next, Step

\* From the fetch on, the pre-image is the record, as long as it matters: it was
\* found in the zone of the call.
Fresh(q) ==
    /\ pc[q] = "decide" \/ flight[q] = "sent"
    /\ req[q] \in Calls /\ ByIdMutation(req[q])
    /\ pre[q] # None /\ pre[q].zone = req[q].zone
    => records[req[q].rid] = pre[q]

FreshInv == \A q \in Requests : Fresh(q)

\* The mutation that Cloudflare carries out for q does not touch the record of
\* another request that relies on its pre-image: they would share the lock.
LEMMA ApplySparesOthers ==
    ASSUME Reliable, TypeOK, ControlInv, CriticalInv, FreshInv,
           NEW q \in Requests, NEW p \in Requests \ {q}, Apply(q),
           pc[p] = "decide" \/ flight[p] = "sent",
           req[p] \in Calls, ByIdMutation(req[p]),
           pre[p] # None, pre[p].zone = req[p].zone
    PROVE  records'[req[p].rid] = pre[p]
<1>1. records[req[p].rid] = pre[p] /\ pre[p] \in Images /\ req[p].rid \in RecordIds
  BY CallType DEF FreshInv, Fresh, TypeOK
<1>2. req[q] \in Calls /\ pc[q] = "await"
  BY DEF Apply, CriticalInv, InCritical, ControlInv, Control
<1>3. Effect(req[q], q, records, records')
  BY DEF Apply
<1>4. CASE req[q].method = "POST"
  BY <1>1, <1>3, <1>4, ConstantsAssumption DEF Effect, ByIdMutation, TypeOK
<1>5. CASE ByIdMutation(req[q])
  <2>1. records[req[q].rid].zone = req[q].zone /\ req[q].rid \in RecordIds
    BY <1>2, <1>3, <1>5, CallType DEF Effect
  <2>2. CASE req[q].rid # req[p].rid
    BY <1>1, <1>2, <1>3, <1>5, <2>1, <2>2, CallType DEF Effect, TypeOK
  <2>3. CASE req[q].rid = req[p].rid
    <3>1. LockName(req[q]) = LockName(req[p])
      BY <1>1, <2>1, <2>3 DEF LockName
    <3>2. lock[LockName(req[q])] = q
      BY <1>2, <1>5 DEF Reliable, CriticalInv, InCritical, Critical
    <3>3. lock[LockName(req[p])] = p
      BY DEF Reliable, CriticalInv, InCritical, Critical
    <3> QED BY <3>1, <3>2, <3>3
  <2> QED BY <2>2, <2>3
<1> QED BY <1>3, <1>4, <1>5 DEF Effect

\* A step keeps the pre-images of the mutations that depend on them up to date.
LEMMA FreshStep ==
    ASSUME Reliable
    PROVE  TypeOK /\ ControlInv /\ CriticalInv /\ FreshInv /\ [Next]_vars => FreshInv'
<1> SUFFICES ASSUME TypeOK, ControlInv, CriticalInv, FreshInv, [Next]_vars PROVE FreshInv'
  OBVIOUS
<1>u. CASE UNCHANGED vars
  BY <1>u DEF vars, FreshInv, Fresh
<1>n. ASSUME NEW q \in Requests, Step(q) PROVE FreshInv'
  <2>f. Failure(q) => Mishap(q)
    BY DEF Reliable, Failure, Mishap, ForwardTimeout, LoseLock, Crash
  <2>c. Control(q) /\ InCritical(q) /\ Fresh(q)
    BY DEF ControlInv, CriticalInv, FreshInv
  <2>r. ~Apply(q) => records' = records
    BY <1>n, <2>f
       DEF Step, Handler, Upstream, Receive, AcquireLock, LockTimeout, Fetch, Decide, Answered,
           Release, WriteAudit, Reply, Reject, Mishap, AuthorizeError, BadBody, AuditFails, Raise
  <2>o. ASSUME NEW p \in Requests \ {q} PROVE Fresh(p)'
    <3>1. /\ pc'[p] = pc[p] /\ req'[p] = req[p] /\ pre'[p] = pre[p]
          /\ flight'[p] = flight[p]
      BY <1>n, StepIsLocal DEF OthersUnchanged
    <3>2. Fresh(p)
      BY DEF FreshInv
    <3>3. CASE Apply(q)
      BY <3>1, <3>3, ApplySparesOthers DEF Fresh
    <3>4. CASE ~Apply(q)
      BY <2>r, <3>1, <3>2, <3>4 DEF Fresh
    <3> QED BY <3>3, <3>4
  <2>q. Fresh(q)'
    <3> USE DEF TypeOK, Goto, Fresh
    <3>1. ASSUME NEW c \in Calls, Receive(q, c) PROVE Fresh(q)'
      <4>1. flight[q] = "none"
        BY <2>c, <3>1 DEF Receive, Control
      <4>2. pc'[q] = "decide" => c.method = "POST"
        BY <3>1 DEF Receive
      <4> QED BY <3>1, <4>1, <4>2 DEF Receive, ByIdMutation
    <3>2. CASE Fetch(q)
      BY <2>c, <3>2, ConstantsAssumption DEF Fetch
    <3>3. CASE Decide(q)
      <4>1. Leave(req[q], Authorize(req[q], pre[q])) \in {"release", "reply", "audit"}
        BY DEF Leave, Finish
      <4> QED BY <2>c, <3>3, <4>1 DEF Decide
    <3>4. CASE AcquireLock(q) \/ LockTimeout(q) \/ WriteAudit(q) \/ Reply(q)
      BY <2>c, <3>4 DEF AcquireLock, LockTimeout, WriteAudit, Reply
    <3>5. CASE Answered(q) \/ Release(q)
      BY <2>c, <3>5 DEF Answered, Release, Leave, Finish
    <3>6. CASE Upstream(q)
      BY <2>c, <3>6 DEF Upstream, Apply, Reject, InCritical
    <3>7. CASE Mishap(q)
      BY <2>c, <3>7 DEF Mishap, AuthorizeError, BadBody, AuditFails, Raise, Leave, Finish
    <3> QED BY <1>n, <2>f, <3>1, <3>2, <3>3, <3>4, <3>5, <3>6, <3>7 DEF Step, Handler
  <2> QED BY <2>o, <2>q DEF FreshInv
<1> QED BY <1>u, <1>n DEF Next, Step

(***************************************************************************)
(* The two theorems about the lock.                                        *)
(***************************************************************************)
LockInv == TypeOK /\ ControlInv /\ FetchedInv /\ CriticalInv /\ FreshInv

\* The inductive invariant of the lock holds in every reachable state.
LEMMA LockInvariant ==
    ASSUME Reliable PROVE Spec => []LockInv
<1>1. Init => LockInv
  BY InitControl
     DEF Init, LockInv, FetchedInv, Fetched, CriticalInv, InCritical, Critical, FreshInv, Fresh
<1>2. LockInv /\ [Next]_vars => LockInv'
  BY TypeStep, ControlStep, FetchedStep, CriticalStep, FreshStep DEF LockInv
<1> QED BY <1>1, <1>2, PTL DEF Spec

\* What the invariant says of a by-id mutation that is on its way.
LEMMA InFlightIsFresh ==
    ASSUME LockInv, NEW q \in Requests, flight[q] = "sent", ByIdMutation(req[q])
    PROVE  /\ req[q] \in Calls /\ pre[q] \in Images /\ pre[q].zone = req[q].zone
           /\ Grants(req[q], pre[q].name, pre[q].type, req[q].rid)
           /\ req[q].method # "DELETE" => PostImageGranted(req[q], pre[q])
           /\ records[req[q].rid] = pre[q]
<1>1. req[q] \in Calls /\ Authorize(req[q], pre[q]) = "allow" /\ pre[q] \in Images \cup {None}
  BY DEF LockInv, FetchedInv, Fetched, TypeOK
<1>2. /\ pre[q] # None /\ pre[q].zone = req[q].zone
      /\ Grants(req[q], pre[q].name, pre[q].type, req[q].rid)
      /\ req[q].method # "DELETE" => PostImageGranted(req[q], pre[q])
  BY <1>1, AllowedByIdMutation
<1>3. records[req[q].rid] = pre[q]
  BY <1>1, <1>2 DEF LockInv, FreshInv, Fresh
<1> QED BY <1>1, <1>2, <1>3

\* What was granted for the pre-image is permitted as long as the record still is
\* the pre-image.
LEMMA InFlightIsPermitted ==
    ASSUME LockInv, NEW q \in Requests, flight[q] = "sent", ByIdMutation(req[q])
    PROVE  Permitted(req[q], records)
<1> DEFINE c == req[q]
           image == pre[q]
           post == MergePatchImage(image, c.body)
<1>1. /\ image \in Images /\ image.zone = c.zone /\ records[c.rid] = image
      /\ Grants(c, image.name, image.type, c.rid)
      /\ c.method # "DELETE" => PostImageGranted(c, image)
  BY InFlightIsFresh
<1>2. Op(c.method) = IF c.method = "DELETE" THEN "delete" ELSE "write"
  BY DEF Op, ByIdMutation
<1>3. c.method # "DELETE" => Grants(c, post.name, post.type, c.rid)
  BY <1>1 DEF PostImageGranted
<1>4. /\ MatchRules(Rules[c.token], c.zone, image.name, image.type, c.rid,
                    IF c.method = "DELETE" THEN "delete" ELSE "write")
      /\ c.method # "DELETE" =>
            MatchRules(Rules[c.token], c.zone, post.name, post.type, c.rid, "write")
  BY <1>1, <1>2, <1>3 DEF Grants
<1> QED BY <1>1, <1>4 DEF Permitted, Exists

\* The lock closes the window between the check and the use, for any number of
\* concurrent requests: a by-id mutation on its way is authorised for the record as
\* it is now (the docstring of _mutate_dns_record_by_id).
THEOREM LockClosesWindow ==
    ASSUME Reliable PROVE Spec => []InFlightAuthorized
<1>1. LockInv => InFlightAuthorized
  BY InFlightIsPermitted DEF InFlightAuthorized, InFlight
<1> QED BY <1>1, LockInvariant, PTL

\* The pre_image of an audit row is the version that the mutation replaced.
THEOREM AuditedPreImage ==
    ASSUME Reliable PROVE Spec => PreImageIsReplaced
<1> DEFINE Replaces ==
      \A q \in Requests :
         flight[q] = "sent" /\ flight'[q] = "applied" /\ ByIdMutation(req[q])
           => records[req[q].rid] = pre[q]
<1>1. LockInv => Replaces
  BY InFlightIsFresh
<1>2. LockInv /\ [Next]_vars => [Replaces]_vars
  BY <1>1
<1> QED BY <1>2, LockInvariant, PTL DEF Spec, PreImageIsReplaced

(***************************************************************************)
(* DnsProxy implements AtomicProxy: the calls that several handlers and    *)
(* Cloudflare carry out in many interleaved steps each look like one step. *)
(* A mutation takes its abstract step when Cloudflare carries it out.      *)
(*                                                                         *)
(* The instance's copies of the operators of Scope and Authorizer are the  *)
(* operators themselves.                                                   *)
(***************************************************************************)
\* What is permitted here is permitted in the abstract specification.
LEMMA SamePermitted ==
    ASSUME NEW c, NEW recs, Permitted(c, recs) PROVE Atomic!Permitted(c, recs)
  BY Zenon
     DEF Permitted, MatchRules, RuleGrants, NameInScope, NameMatches, NormalizeFqdn, StripDots,
         EmptyName, EmptyLabel, Atomic!EmptyName, Atomic!EmptyLabel,
         Max, Min, ByIdMutation, Exists, Images, MergePatchImage,
         Atomic!Permitted, Atomic!MatchRules, Atomic!RuleGrants, Atomic!NameInScope,
         Atomic!NameMatches, Atomic!NormalizeFqdn, Atomic!StripDots, Atomic!Max, Atomic!Min,
         Atomic!ByIdMutation, Atomic!Exists, Atomic!Images, Atomic!MergePatchImage

\* Cloudflare does here what it does in the abstract specification.
LEMMA SameEffect ==
    ASSUME NEW c, NEW q, NEW recs, NEW recs2, Effect(c, q, recs, recs2)
    PROVE  Atomic!Effect(c, q, recs, recs2)
  BY Zenon
     DEF Effect, FullBody, Created, Updated, ByIdMutation, Exists, Images, MergePatchImage,
         Atomic!Effect, Atomic!FullBody, Atomic!Created, Atomic!Updated,
         Atomic!ByIdMutation, Atomic!Exists, Atomic!Images, Atomic!MergePatchImage

(***************************************************************************)
(* A request that was allowed has forwarded its mutation, and only such a  *)
(* request has; so its answer tells whether the mutation took effect.      *)
(***************************************************************************)
Told(q) ==
    /\ flight[q] # "none" => decision[q] = "allow"
    /\ decision[q] = "allow" /\ flight[q] = "none" => req[q].method = "GET"

ToldInv == \A q \in Requests : Told(q)

\* The failures that leave the answer right.
Truthful == Reliable /\ "badbody" \notin Faults

\* A step keeps what a request was told and what became of its mutation in line.
LEMMA ToldStep ==
    ASSUME Truthful
    PROVE  LockInv /\ ToldInv /\ [Next]_vars => ToldInv'
<1> SUFFICES ASSUME LockInv, ToldInv, [Next]_vars PROVE ToldInv'
  OBVIOUS
<1>u. CASE UNCHANGED vars
  BY <1>u DEF vars, ToldInv, Told
<1>n. ASSUME NEW q \in Requests, Step(q) PROVE ToldInv'
  <2>t. TypeOK /\ Control(q) /\ InCritical(q) /\ Told(q)
    BY DEF LockInv, ControlInv, CriticalInv, ToldInv
  <2>f. Failure(q) => AuthorizeError(q) \/ AuditFails(q)
    BY DEF Truthful, Reliable, Failure, ForwardTimeout, LoseLock, Crash, BadBody
  <2>o. ASSUME NEW p \in Requests \ {q} PROVE Told(p)'
    <3>1. /\ req'[p] = req[p] /\ decision'[p] = decision[p] /\ flight'[p] = flight[p]
      BY <1>n, <2>t, StepIsLocal DEF OthersUnchanged
    <3> QED BY <3>1 DEF ToldInv, Told
  <2>q. Told(q)'
    <3> USE <2>t, DnsProxyAssumption DEF TypeOK, Goto, Told
    <3>1. ASSUME NEW c \in Calls, Receive(q, c) PROVE Told(q)'
      BY <3>1 DEF Receive, Control
    <3>2. CASE AcquireLock(q) \/ LockTimeout(q) \/ Fetch(q) \/ Answered(q)
                 \/ WriteAudit(q) \/ Reply(q)
      BY <3>2 DEF AcquireLock, LockTimeout, Fetch, Answered, WriteAudit, Reply
    <3>3. CASE Decide(q)
      BY <3>3 DEF Decide
    <3>4. CASE Release(q)
      BY <3>4 DEF Release, Control, InCritical, Critical
    <3>5. CASE Upstream(q)
      BY <3>5 DEF Upstream, Apply, Reject
    <3>6. CASE AuthorizeError(q)
      BY <3>6 DEF AuthorizeError, Raise, Control
    <3>7. CASE AuditFails(q)
      BY <3>7 DEF AuditFails
    <3> QED BY <1>n, <2>f, <3>1, <3>2, <3>3, <3>4, <3>5, <3>6, <3>7 DEF Step, Handler
  <2> QED BY <2>o, <2>q DEF ToldInv
<1> QED BY <1>u, <1>n DEF Next, Step

(***************************************************************************)
(* The steps that are visible in the abstract specification.               *)
(***************************************************************************)
Took == {q \in Requests : flight[q] = "applied"}

\* Receive is Arrive.
LEMMA ReceiveArrives ==
    ASSUME LockInv, NEW q \in Requests, NEW c \in Calls, Receive(q, c)
    PROVE  Atomic!Arrive(q)
<1>1. req[q] = None
  BY DEF LockInv, ControlInv, Control, Receive
<1> QED BY <1>1 DEF Receive, Atomic!Arrive

\* Apply is TakeEffect: the mutation is permitted at the moment Cloudflare carries
\* it out, and its client has no answer yet.
LEMMA ApplyTakesEffect ==
    ASSUME LockInv, NEW q \in Requests, Apply(q)
    PROVE  Atomic!TakeEffect(q)
<1>1. /\ flight[q] = "sent" /\ req[q] \in Calls /\ pc[q] = "await" /\ req[q] # None
      /\ Authorize(req[q], pre[q]) = "allow"
  BY ConstantsAssumption
     DEF Apply, LockInv, FetchedInv, Fetched, CriticalInv, InCritical
<1>2. answer[q] = None
  BY <1>1 DEF LockInv, ControlInv, Control
<1>3. Permitted(req[q], records)
  <2>1. CASE ByIdMutation(req[q])
    BY <1>1, <2>1, InFlightIsPermitted
  <2>2. CASE req[q].method = "POST"
    <3>1. Grants(req[q], req[q].body.name, req[q].body.type, None)
      BY <1>1, <2>2 DEF Authorize
    <3>2. Op(req[q].method) = "create"
      BY <2>2 DEF Op
    <3> QED BY <2>2, <3>1, <3>2 DEF Permitted, Grants
  <2> QED BY <2>1, <2>2 DEF Apply, Effect
<1>4. Atomic!Permitted(req[q], records) /\ Atomic!Effect(req[q], q, records, records')
  BY <1>3, SamePermitted, SameEffect DEF Apply
<1>5. q \notin Took /\ Took' = Took \cup {q}
  BY <1>1 DEF Apply, Took, LockInv, TypeOK
<1> QED BY <1>1, <1>2, <1>4, <1>5 DEF Apply, Atomic!TakeEffect, Took

\* LockTimeout and Reply are Answer: "ok" if and only if the mutation took effect.
LEMMA ReplyAnswers ==
    ASSUME LockInv, ToldInv, NEW q \in Requests, LockTimeout(q) \/ Reply(q)
    PROVE  Atomic!Answer(q)
<1>1. TypeOK /\ Control(q) /\ InCritical(q) /\ Told(q)
  BY DEF LockInv, ControlInv, CriticalInv, ToldInv
<1>2. req[q] # None /\ answer[q] = None
  BY <1>1, ConstantsAssumption DEF Control, LockTimeout, Reply
<1>3. UNCHANGED <<records, req, Took>>
  BY DEF LockTimeout, Reply, Took
<1> DEFINE may == IF q \in Took THEN {"ok"}
                  ELSE IF req[q].method = "GET" THEN Atomic!Refusals \cup {"ok"}
                  ELSE Atomic!Refusals
<1>4. CASE LockTimeout(q)
  <2>1. "unavailable" \in may
    BY <1>1, <1>4 DEF LockTimeout, Control, Took, Atomic!Refusals
  <2>2. answer' = [answer EXCEPT ![q] = "unavailable"]
    BY <1>4 DEF LockTimeout
  <2> QED BY <1>2, <1>3, <2>1, <2>2 DEF Atomic!Answer, Took
<1>5. CASE Reply(q)
  <2> DEFINE a == IF decision[q] # "allow" THEN decision[q]
                  ELSE IF flight[q] = "rejected" THEN "upstream_error" ELSE "ok"
  <2>1. answer' = [answer EXCEPT ![q] = a]
    BY <1>5 DEF Reply
  <2>2. flight[q] # "sent" /\ decision[q] # None
    BY <1>1, <1>5 DEF InCritical, Control, Reply
  <2>3. a \in may
    BY <1>1, <2>2 DEF Told, Control, TypeOK, Took, Atomic!Refusals
  <2> QED BY <1>2, <1>3, <2>1, <2>3 DEF Atomic!Answer, Took
<1> QED BY <1>4, <1>5

\* Every other step is a stutter.
LEMMA HiddenStep ==
    ASSUME Truthful, LockInv, NEW q \in Requests, Step(q),
           ~(\E c \in Calls : Receive(q, c)), ~Apply(q), ~LockTimeout(q), ~Reply(q)
    PROVE  UNCHANGED <<records, req, Took, answer>>
<1>1. TypeOK /\ Control(q)
  BY DEF LockInv, ControlInv
<1>2. Failure(q) => AuthorizeError(q) \/ AuditFails(q)
  BY DEF Truthful, Reliable, Failure, ForwardTimeout, LoseLock, Crash, BadBody
<1> USE DEF Took
<1>3. CASE AcquireLock(q) \/ Fetch(q) \/ Answered(q) \/ Release(q) \/ WriteAudit(q)
  BY <1>3 DEF AcquireLock, Fetch, Answered, Release, WriteAudit
<1>4. CASE Decide(q)
  BY <1>1, <1>4 DEF Decide, Control, TypeOK
<1>5. CASE Reject(q)
  BY <1>1, <1>5 DEF Reject, TypeOK
<1>6. CASE AuthorizeError(q) \/ AuditFails(q)
  BY <1>6 DEF AuthorizeError, AuditFails, Raise
<1> QED BY <1>2, <1>3, <1>4, <1>5, <1>6 DEF Step, Handler, Upstream

\* The proxy implements the abstract specification: concurrent calls are as good as
\* atomic ones, each authorised against the record it changes, and a call that was
\* refused or that failed has no effect, not even later.
THEOREM ProxyIsAtomic ==
    ASSUME Truthful PROVE Spec => CallsAreAtomic
<1> DEFINE Inv == LockInv /\ ToldInv
<1>1. Init => Atomic!Init
  BY DnsProxyAssumption DEF Init, Atomic!Init, Atomic!Images, Images
<1>2. Init => ToldInv
  BY DnsProxyAssumption DEF Init, ToldInv, Told
<1>3. Inv /\ [Next]_vars => [Atomic!Next]_(Atomic!vars)
  <2> SUFFICES ASSUME Inv, [Next]_vars PROVE [Atomic!Next]_(Atomic!vars)
    OBVIOUS
  <2>1. CASE UNCHANGED vars
    BY <2>1 DEF vars, Atomic!vars
  <2>2. ASSUME NEW q \in Requests, Step(q) PROVE [Atomic!Next]_(Atomic!vars)
    <3>1. CASE \E c \in Calls : Receive(q, c)
      BY <3>1, ReceiveArrives DEF Atomic!Next
    <3>2. CASE Apply(q)
      BY <3>2, ApplyTakesEffect DEF Atomic!Next
    <3>3. CASE LockTimeout(q) \/ Reply(q)
      BY <3>3, ReplyAnswers DEF Atomic!Next
    <3>4. CASE /\ ~(\E c \in Calls : Receive(q, c)) /\ ~Apply(q)
               /\ ~LockTimeout(q) /\ ~Reply(q)
      <4>1. UNCHANGED <<records, req, Took, answer>>
        BY <2>2, <3>4, HiddenStep
      <4> QED BY <4>1 DEF Atomic!vars, Took
    <3> QED BY <3>1, <3>2, <3>3, <3>4
  <2> QED BY <2>1, <2>2 DEF Next, Step
<1>4. Reliable
  BY DEF Truthful
<1>5. Spec => []LockInv
  BY <1>4, LockInvariant
<1>6. LockInv /\ ToldInv /\ [Next]_vars => ToldInv'
  BY ToldStep
<1> QED BY <1>1, <1>2, <1>3, <1>5, <1>6, PTL DEF Spec, CallsAreAtomic, Atomic!Spec
=============================================================================
