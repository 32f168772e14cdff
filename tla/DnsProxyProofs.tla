--------------------------- MODULE DnsProxyProofs ---------------------------
(***************************************************************************)
(* Proofs about DnsProxy, for any number of requests, records, tokens and  *)
(* rules.                                                                  *)
(***************************************************************************)
EXTENDS DnsProxy, TLAPS

(***************************************************************************)
(* Lemmas about the decision layer.                                        *)
(***************************************************************************)
\* authorize_dns_request always answers with one of its three outcomes.
LEMMA AuthorizeType ==
    ASSUME NEW c, NEW image
    PROVE  Authorize(c, image) \in {"allow", "notfound", "forbidden"}
  BY DEF Authorize

\* A lock-exempt call is granted by match_rules whatever the record is called and
\* whatever its type: is_lock_exempt and match_rules agree.
LEMMA ExemptIsGranted ==
    ASSUME NEW rules, NEW zone, NEW rid, NEW need, NEW name, NEW type,
           IsLockExempt(rules, zone, rid, need)
    PROVE  MatchRules(rules, zone, name, type, rid, need)
  BY DEF IsLockExempt, MatchRules, RuleGrants, NameInScope

\* The shape of a call.
LEMMA CallType ==
    ASSUME NEW c \in Calls
    PROVE  /\ c.zone \in Zones /\ c.method \in Methods /\ c.body \in Bodies
           /\ c.method # "POST" => c.rid \in RecordIds /\ LockName(c) \in LockNames
           /\ ByIdMutation(c) => c.method # "POST" /\ c.method # "GET"
  BY ConstantsAssumption DEF LockName, LockNames, ByIdMutation

\* What Cloudflare makes of a call is again a set of records.
LEMMA EffectType ==
    ASSUME NEW c \in Calls, NEW q \in Requests,
           NEW recs \in [RecordIds -> Images \cup {Free, Gone}], NEW recs2,
           Effect(c, q, recs, recs2)
    PROVE  recs2 \in [RecordIds -> Images \cup {Free, Gone}]
<1>1. c.body \in Bodies /\ c.zone \in Zones
  BY CallType
<1>2. ASSUME c.method = "POST", FullBody(c) PROVE Created(c, q) \in Images
  BY <1>1, <1>2 DEF FullBody, Created, Images, Bodies
<1>3. ASSUME NEW image \in Images PROVE Updated(image, c, q) \in Images
  BY <1>1 DEF Updated, MergePatchImage, Images, Bodies
<1>4. CASE c.method = "POST"
  BY <1>2, <1>4 DEF Effect, ByIdMutation
<1>5. CASE c.method # "POST"
  BY <1>3, <1>5, CallType DEF Effect, Exists
<1> QED BY <1>4, <1>5

(***************************************************************************)
(* Type correctness needs the control flow: a request past its arrival has *)
(* a call, and one that is about to be audited has a decision.             *)
(***************************************************************************)
Control(q) ==
    /\ pc[q] = "idle" => req[q] = None
    /\ pc[q] # "idle" => req[q] \in Calls
    /\ pc[q] \in {"lock", "release"} => NeedsLock(req[q])
    /\ pc[q] = "fetch" => req[q].method # "POST"
    /\ pc[q] \in {"idle", "lock", "fetch", "decide"}
          => flight[q] = "none" /\ decision[q] = None
    /\ flight[q] # "none" => req[q].method # "GET"
    /\ pc[q] = "await" => decision[q] = "allow"
    /\ pc[q] \in {"release", "reply"} => decision[q] # None
    /\ pc[q] = "audit" => decision[q] \in {"allow", "notfound", "forbidden"}
    /\ answer[q] # None <=> pc[q] = "done"

ControlInv == \A q \in Requests : Control(q)

\* The initial states are well-typed, and no request has begun.
LEMMA InitControl == Init => TypeOK /\ ControlInv
  BY ConstantsAssumption, DnsProxyAssumption
     DEF Init, TypeOK, ControlInv, Control, Images, LockNames

\* A step keeps the state well-typed.
LEMMA TypeStep == TypeOK /\ ControlInv /\ [Next]_vars => TypeOK'
<1> SUFFICES ASSUME TypeOK, ControlInv, [Next]_vars PROVE TypeOK'
  OBVIOUS
<1> USE DEF TypeOK, Goto
<1>u. CASE UNCHANGED vars
  BY <1>u DEF vars
<1>n. ASSUME NEW q \in Requests,
             (\E c \in Calls : Receive(q, c)) \/ Handler(q) \/ Upstream(q) \/ Failure(q)
      PROVE  TypeOK'
  <2>c. Control(q)
    BY DEF ControlInv
  <2>1. ASSUME NEW c \in Calls, Receive(q, c) PROVE TypeOK'
    BY <2>1 DEF Receive
  <2>2. CASE AcquireLock(q)
    <3>1. req[q] \in Calls /\ NeedsLock(req[q])
      BY <2>2, <2>c DEF AcquireLock, Control
    <3> QED BY <2>2, <3>1 DEF AcquireLock
  <2>3. CASE LockTimeout(q)
    BY <2>3 DEF LockTimeout
  <2>4. CASE Fetch(q)
    BY <2>4 DEF Fetch, Exists
  <2>5. CASE Decide(q)
    <3>1. Authorize(req[q], pre[q]) \in {"allow", "notfound", "forbidden"}
      BY AuthorizeType
    <3>2. Leave(req[q], Authorize(req[q], pre[q])) \in {"release", "reply", "audit"}
      BY DEF Leave, Finish
    <3> QED BY <2>5, <3>1, <3>2 DEF Decide
  <2>6. CASE Answered(q)
    BY <2>6 DEF Answered, Leave, Finish
  <2>7. CASE Release(q)
    BY <2>7 DEF Release, Finish
  <2>8. CASE WriteAudit(q)
    BY <2>8, <2>c DEF WriteAudit, Control
  <2>9. CASE Reply(q)
    BY <2>9 DEF Reply
  <2>10. CASE Apply(q)
    <3>1. req[q] \in Calls
      BY <2>10, <2>c DEF Apply, Control
    <3>2. records' \in [RecordIds -> Images \cup {Free, Gone}]
      BY <2>10, <3>1, EffectType DEF Apply
    <3> QED BY <2>10, <3>2 DEF Apply
  <2>11. CASE Reject(q)
    BY <2>11 DEF Reject
  <2>12. CASE AuthorizeError(q)
    BY <2>12 DEF AuthorizeError, Raise, Leave, Finish
  <2>13. CASE ForwardTimeout(q)
    BY <2>13 DEF ForwardTimeout, Raise, Leave, Finish
  <2>14. CASE BadBody(q)
    BY <2>14 DEF BadBody, Raise
  <2>15. CASE AuditFails(q)
    BY <2>15 DEF AuditFails
  <2>16. CASE LoseLock(q)
    BY <2>16 DEF LoseLock
  <2>17. CASE Crash(q)
    BY <2>17 DEF Crash
  <2> QED
    BY <1>n, <2>1, <2>2, <2>3, <2>4, <2>5, <2>6, <2>7, <2>8, <2>9, <2>10, <2>11,
       <2>12, <2>13, <2>14, <2>15, <2>16, <2>17 DEF Handler, Upstream, Failure
<1> QED BY <1>u, <1>n DEF Next

\* What a step of request q leaves alone: everything the other requests own.
OthersUnchanged(q) ==
    \A p \in Requests \ {q} :
        /\ pc'[p] = pc[p] /\ req'[p] = req[p] /\ pre'[p] = pre[p]
        /\ decision'[p] = decision[p] /\ flight'[p] = flight[p]
        /\ audit'[p] = audit[p] /\ answer'[p] = answer[p]

Step(q) == (\E c \in Calls : Receive(q, c)) \/ Handler(q) \/ Upstream(q) \/ Failure(q)

\* A step of one request changes no variable of another; they meet only in the
\* records and in the locks.
LEMMA StepIsLocal ==
    ASSUME TypeOK, NEW q \in Requests, Step(q) PROVE OthersUnchanged(q)
<1> USE DEF TypeOK, Goto, OthersUnchanged
<1>1. ASSUME NEW c \in Calls, Receive(q, c) PROVE OthersUnchanged(q)
  BY <1>1 DEF Receive
<1>2. CASE Handler(q)
  <2>1. CASE AcquireLock(q) BY <2>1 DEF AcquireLock
  <2>2. CASE LockTimeout(q) BY <2>2 DEF LockTimeout
  <2>3. CASE Fetch(q) BY <2>3 DEF Fetch
  <2>4. CASE Decide(q) BY <2>4 DEF Decide
  <2>5. CASE Answered(q) BY <2>5 DEF Answered
  <2>6. CASE Release(q) BY <2>6 DEF Release
  <2>7. CASE WriteAudit(q) BY <2>7 DEF WriteAudit
  <2>8. CASE Reply(q) BY <2>8 DEF Reply
  <2> QED BY <1>2, <2>1, <2>2, <2>3, <2>4, <2>5, <2>6, <2>7, <2>8 DEF Handler
<1>3. CASE Upstream(q)
  BY <1>3 DEF Upstream, Apply, Reject
<1>4. CASE Failure(q)
  BY <1>4 DEF Failure, AuthorizeError, ForwardTimeout, BadBody, AuditFails, LoseLock, Crash, Raise
<1> QED BY <1>1, <1>2, <1>3, <1>4 DEF Step

\* A step keeps every request's control state in line with its data.
LEMMA ControlStep == TypeOK /\ ControlInv /\ [Next]_vars => ControlInv'
<1> SUFFICES ASSUME TypeOK, ControlInv, [Next]_vars PROVE ControlInv'
  OBVIOUS
<1>u. CASE UNCHANGED vars
  BY <1>u DEF vars, ControlInv, Control
<1>n. ASSUME NEW q \in Requests, Step(q) PROVE ControlInv'
  <2>c. Control(q)
    BY DEF ControlInv
  <2>o. ASSUME NEW p \in Requests \ {q} PROVE Control(p)'
    BY <1>n, StepIsLocal DEF OthersUnchanged, ControlInv, Control
  <2>q. Control(q)'
    <3> USE DnsProxyAssumption DEF TypeOK, Goto, Control
    <3>1. ASSUME NEW c \in Calls, Receive(q, c) PROVE Control(q)'
      BY <2>c, <3>1, CallType DEF Receive, NeedsLock
    <3>2. CASE AcquireLock(q)
      BY <2>c, <3>2, CallType DEF AcquireLock, NeedsLock
    <3>3. CASE LockTimeout(q)
      BY <2>c, <3>3 DEF LockTimeout
    <3>4. CASE Fetch(q)
      BY <2>c, <3>4 DEF Fetch
    <3>5. CASE Decide(q)
      <4> DEFINE d == Authorize(req[q], pre[q])
      <4>1. d \in {"allow", "notfound", "forbidden"}
        BY AuthorizeType
      <4>2. /\ Leave(req[q], d) \in {"release", "reply", "audit"}
            /\ Leave(req[q], d) = "release" => NeedsLock(req[q])
        BY DEF Leave, Finish
      <4> HIDE DEF d
      <4> QED BY <2>c, <3>5, <4>1, <4>2 DEF Decide, d
    <3>6. CASE Answered(q)
      BY <2>c, <3>6 DEF Answered, Leave, Finish
    <3>7. CASE Release(q)
      BY <2>c, <3>7 DEF Release, Finish
    <3>8. CASE WriteAudit(q)
      BY <2>c, <3>8 DEF WriteAudit
    <3>9. CASE Reply(q)
      BY <2>c, <3>9 DEF Reply
    <3>10. CASE Upstream(q)
      BY <2>c, <3>10 DEF Upstream, Apply, Reject
    <3>11. CASE AuthorizeError(q) \/ ForwardTimeout(q) \/ BadBody(q)
      BY <2>c, <3>11 DEF AuthorizeError, ForwardTimeout, BadBody, Raise, Leave, Finish
    <3>12. CASE AuditFails(q)
      BY <2>c, <3>12 DEF AuditFails
    <3>13. CASE LoseLock(q)
      BY <2>c, <3>13 DEF LoseLock
    <3>14. CASE Crash(q)
      BY <2>c, <3>14 DEF Crash
    <3> QED
      BY <1>n, <3>1, <3>2, <3>3, <3>4, <3>5, <3>6, <3>7, <3>8, <3>9, <3>10, <3>11,
         <3>12, <3>13, <3>14 DEF Step, Handler, Failure
  <2> QED BY <2>o, <2>q DEF ControlInv
<1> QED BY <1>u, <1>n DEF Next, Step

\* Every reachable state is well-typed, with all the failures: nothing that is not a
\* decision is audited, nothing that is not an image is taken for a pre-image.
THEOREM TypeCorrect == Spec => []TypeOK
<1>1. Init => TypeOK /\ ControlInv
  BY InitControl
<1>2. TypeOK /\ ControlInv /\ [Next]_vars => (TypeOK /\ ControlInv)'
  BY TypeStep, ControlStep
<1> QED BY <1>1, <1>2, PTL DEF Spec

(***************************************************************************)
(* The mutation lock, with all the failures: whoever holds it is between   *)
(* GET_LOCK and RELEASE_LOCK of the record it is for.                      *)
(***************************************************************************)
Critical == {"fetch", "decide", "await", "release"}

Holds(q, k) ==
    req[q] \in Calls /\ NeedsLock(req[q]) /\ pc[q] \in Critical /\ k = LockName(req[q])

LockOwner == \A q \in Requests, k \in LockNames : lock[k] = q => Holds(q, k)

\* A step never leaves a lock with a request that has left its critical section.
LEMMA LockOwnerStep ==
    TypeOK /\ ControlInv /\ LockOwner /\ [Next]_vars => LockOwner'
<1> SUFFICES ASSUME TypeOK, ControlInv, LockOwner, [Next]_vars PROVE LockOwner'
  OBVIOUS
<1> USE DEF Holds, Critical
<1>u. CASE UNCHANGED vars
  BY <1>u DEF vars, LockOwner
<1>n. ASSUME NEW q \in Requests, Step(q) PROVE LockOwner'
  <2> SUFFICES ASSUME NEW p \in Requests, NEW k \in LockNames, lock'[k] = p
               PROVE  Holds(p, k)'
    BY DEF LockOwner
  <2>o. p # q => pc'[p] = pc[p] /\ req'[p] = req[p]
    BY <1>n, StepIsLocal DEF OthersUnchanged
  <2>c. Control(q)
    BY DEF ControlInv
  <2>k. None \notin Requests
    BY ConstantsAssumption
  <2> USE DEF TypeOK, Goto
  <2>1. CASE AcquireLock(q)
    <3>1. req[q] \in Calls /\ NeedsLock(req[q]) /\ LockName(req[q]) \in LockNames
      BY <2>1, <2>c, CallType DEF AcquireLock, Control, NeedsLock
    <3>2. CASE p = q
      BY <2>1, <2>o, <2>k, <3>1, <3>2 DEF AcquireLock, LockOwner
    <3>3. CASE p # q
      BY <2>1, <2>o, <2>k, <3>1, <3>3 DEF AcquireLock, LockOwner
    <3> QED BY <3>2, <3>3
  <2>2. CASE Release(q)
    BY <2>2, <2>o, <2>k, <2>c DEF Release, LockOwner, Control
  <2>3. CASE LoseLock(q)
    BY <2>3, <2>o, <2>k, <2>c DEF LoseLock, LockOwner, Control
  <2>4. CASE Crash(q)
    BY <2>4, <2>o, <2>k, <2>c DEF Crash, LockOwner, Control
  <2>5. CASE lock' = lock /\ req'[q] = req[q] /\ (pc[q] \in Critical /\ NeedsLock(req[q])
                                                  => pc'[q] \in Critical)
    BY <2>5, <2>o DEF LockOwner
  <2>6. ASSUME NEW c \in Calls, Receive(q, c) PROVE Holds(p, k)'
    BY <2>6, <2>o DEF Receive, LockOwner
  <2>7. CASE LockTimeout(q)
    BY <2>5, <2>7 DEF LockTimeout
  <2>8. CASE Fetch(q)
    BY <2>5, <2>8 DEF Fetch
  <2>9. CASE Decide(q)
    BY <2>5, <2>9 DEF Decide, Leave
  <2>10. CASE Answered(q)
    BY <2>5, <2>10 DEF Answered, Leave
  <2>11. CASE WriteAudit(q) \/ Reply(q)
    BY <2>5, <2>11 DEF WriteAudit, Reply
  <2>12. CASE Upstream(q)
    BY <2>5, <2>12 DEF Upstream, Apply, Reject
  <2>13. CASE AuthorizeError(q) \/ ForwardTimeout(q) \/ BadBody(q) \/ AuditFails(q)
    BY <2>5, <2>13 DEF AuthorizeError, ForwardTimeout, BadBody, AuditFails, Raise, Leave
  <2> QED
    BY <1>n, <2>1, <2>2, <2>3, <2>4, <2>6, <2>7, <2>8, <2>9, <2>10, <2>11, <2>12, <2>13
       DEF Step, Handler, Failure
<1> QED BY <1>u, <1>n DEF Next, Step

\* No request that is over holds a mutation lock, whatever failed on the way.
THEOREM LocksAreGivenBack == Spec => []FinishedHoldsNoLock
<1>1. Init => TypeOK /\ ControlInv /\ LockOwner
  BY InitControl, ConstantsAssumption DEF Init, LockOwner
<1>2. TypeOK /\ ControlInv /\ LockOwner /\ [Next]_vars
        => (TypeOK /\ ControlInv /\ LockOwner)'
  BY TypeStep, ControlStep, LockOwnerStep
<1>3. LockOwner => FinishedHoldsNoLock
  BY DEF LockOwner, Holds, Critical, FinishedHoldsNoLock
<1> QED BY <1>1, <1>2, <1>3, PTL DEF Spec

(***************************************************************************)
(* What is known of a fetched pre-image, with all the failures: the record *)
(* may have been renamed, retyped or deleted since, but it never moves to  *)
(* another zone and its id is not used again.                              *)
(***************************************************************************)
Since(now, image) == now = Gone \/ (now \in Images /\ now.zone = image.zone)

Fetched(q) ==
    /\ pre[q] # None => /\ req[q] \in Calls /\ req[q].method # "POST"
                        /\ Since(records[req[q].rid], pre[q])
    /\ flight[q] # "none" => /\ req[q] \in Calls
                             /\ Authorize(req[q], pre[q]) = "allow"

FetchedInv == \A q \in Requests : Fetched(q)

\* Whatever Cloudflare carries out, a record stays in its zone until it is deleted.
LEMMA EffectSince ==
    ASSUME NEW c \in Calls, NEW q \in Requests,
           NEW recs \in [RecordIds -> Images \cup {Free, Gone}], NEW recs2,
           Effect(c, q, recs, recs2), NEW r \in RecordIds,
           NEW image, Since(recs[r], image)
    PROVE  Since(recs2[r], image)
<1>1. Gone \notin Images /\ Free \notin Images /\ Free # Gone
  BY ConstantsAssumption
<1>2. CASE c.method = "POST"
  BY <1>1, <1>2 DEF Effect, Since, ByIdMutation
<1>3. CASE c.method # "POST"
  <2>1. c.rid \in RecordIds
    BY <1>3, CallType
  <2>2. CASE c.rid # r
    BY <1>3, <2>1, <2>2 DEF Effect, Since
  <2>3. CASE c.rid = r
    <3>1. recs2 \in [RecordIds -> Images \cup {Free, Gone}]
      BY EffectType
    <3>2. recs[r] \in Images /\ recs[r].zone = image.zone
      BY <1>1, <1>3, <2>3 DEF Effect, Since, Exists
    <3>3. recs2[r] = Gone \/ recs2[r] = Updated(recs[r], c, q)
      BY <1>3, <2>1, <2>3 DEF Effect
    <3>4. Updated(recs[r], c, q) \in Images
      BY <3>2, CallType DEF Updated, MergePatchImage, Images, Bodies
    <3> QED BY <3>2, <3>3, <3>4 DEF Since, Updated
  <2> QED BY <2>2, <2>3
<1> QED BY <1>2, <1>3

\* A step keeps what is known of the fetched pre-images.
LEMMA FetchedStep ==
    TypeOK /\ ControlInv /\ FetchedInv /\ [Next]_vars => FetchedInv'
<1> SUFFICES ASSUME TypeOK, ControlInv, FetchedInv, [Next]_vars PROVE FetchedInv'
  OBVIOUS
<1>u. CASE UNCHANGED vars
  BY <1>u DEF vars, FetchedInv, Fetched
<1>n. ASSUME NEW q \in Requests, Step(q) PROVE FetchedInv'
  <2>c. Control(q) /\ Fetched(q)
    BY DEF ControlInv, FetchedInv
  <2>r. ASSUME NEW r \in RecordIds, NEW image, Since(records[r], image)
        PROVE  Since(records'[r], image)
    <3>1. CASE Apply(q)
      <4>1. req[q] \in Calls
        BY <2>c, <3>1 DEF Apply, Fetched
      <4> QED BY <2>r, <3>1, <4>1, EffectSince DEF Apply, TypeOK
    <3>2. CASE ~Apply(q)
      <4>1. records' = records
        BY <1>n, <3>2
           DEF Step, Handler, Upstream, Failure, Receive, AcquireLock, LockTimeout, Fetch,
               Decide, Answered, Release, WriteAudit, Reply, Reject, AuthorizeError,
               ForwardTimeout, BadBody, AuditFails, LoseLock, Crash, Raise
      <4> QED BY <2>r, <4>1
    <3> QED BY <3>1, <3>2
  <2>o. ASSUME NEW p \in Requests \ {q} PROVE Fetched(p)'
    <3>1. Fetched(p)
      BY DEF FetchedInv
    <3>2. req'[p] = req[p] /\ pre'[p] = pre[p] /\ flight'[p] = flight[p]
      BY <1>n, StepIsLocal DEF OthersUnchanged
    <3>3. ASSUME pre[p] # None PROVE Since(records'[req[p].rid], pre[p])
      BY <2>r, <3>1, <3>3, CallType DEF Fetched
    <3> QED BY <3>1, <3>2, <3>3 DEF Fetched
  <2>q. Fetched(q)'
    <3>s. CASE req'[q] = req[q] /\ pre'[q] = pre[q] /\ (flight'[q] # "none" => flight[q] # "none")
      <4>1. ASSUME pre[q] # None PROVE Since(records'[req[q].rid], pre[q])
        BY <2>r, <2>c, <4>1, CallType DEF Fetched
      <4> QED BY <2>c, <3>s, <4>1 DEF Fetched
    <3> USE DEF TypeOK, Goto
    <3>1. ASSUME NEW c \in Calls, Receive(q, c) PROVE Fetched(q)'
      <4>1. req[q] = None /\ flight[q] = "none" /\ None \notin Calls
        BY <2>c, <3>1, ConstantsAssumption DEF Receive, Control
      <4>2. pre[q] = None
        BY <2>c, <4>1 DEF Fetched
      <4> QED BY <3>1, <4>1, <4>2 DEF Receive, Fetched
    <3>2. CASE Fetch(q)
      <4>1. req[q] \in Calls /\ req[q].method # "POST" /\ flight[q] = "none"
        BY <2>c, <3>2 DEF Fetch, Control
      <4> QED BY <3>2, <4>1 DEF Fetch, Fetched, Exists, Since
    <3>3. CASE Decide(q)
      <4>1. req[q] \in Calls
        BY <2>c, <3>3 DEF Decide, Control
      <4> QED BY <2>c, <3>3, <4>1 DEF Decide, Fetched
    <3>4. CASE AcquireLock(q) \/ LockTimeout(q) \/ Answered(q) \/ Release(q)
                 \/ WriteAudit(q) \/ Reply(q)
      BY <3>s, <3>4 DEF AcquireLock, LockTimeout, Answered, Release, WriteAudit, Reply
    <3>5. CASE Upstream(q)
      BY <3>s, <3>5 DEF Upstream, Apply, Reject
    <3>6. CASE Failure(q)
      BY <3>s, <3>6 DEF Failure, AuthorizeError, ForwardTimeout, BadBody, AuditFails, LoseLock,
                        Crash, Raise
    <3> QED BY <1>n, <3>1, <3>2, <3>3, <3>4, <3>5, <3>6 DEF Step, Handler
  <2> QED BY <2>o, <2>q DEF FetchedInv
<1> QED BY <1>u, <1>n DEF Next, Step

\* What authorize_dns_request checked when it allowed a by-id mutation.
LEMMA AllowedByIdMutation ==
    ASSUME NEW c \in Calls, ByIdMutation(c), NEW image \in Images \cup {None},
           Authorize(c, image) = "allow"
    PROVE  /\ image # None /\ image.zone = c.zone
           /\ Grants(c, image.name, image.type, c.rid)
           /\ c.method # "DELETE" => PostImageGranted(c, image)
<1>1. c.method \in {"PATCH", "PUT", "DELETE"} /\ c.method # "POST"
  BY DEF ByIdMutation
<1>2. image # None /\ image.zone = c.zone
  BY <1>1 DEF Authorize
<1>3. Grants(c, image.name, image.type, c.rid)
  BY <1>1, <1>2 DEF Authorize
<1>4. c.method # "DELETE" => PostImageGranted(c, image)
  BY <1>1, <1>2, <1>3 DEF Authorize
<1> QED BY <1>2, <1>3, <1>4

\* What is known of a lock-exempt mutation on its way is enough to authorise it for any
\* name and type its record may have got meanwhile.
LEMMA FetchedIsExempt == TypeOK /\ FetchedInv => ExemptInFlightAuthorized
<1> SUFFICES ASSUME TypeOK, FetchedInv, NEW q \in Requests, InFlight(q), ~NeedsLock(req[q])
             PROVE  Permitted(req[q], records)
  BY DEF ExemptInFlightAuthorized
<1> DEFINE c == req[q]
<1>1. c \in Calls /\ ByIdMutation(c) /\ Exists(records[c.rid])
  BY DEF InFlight, FetchedInv, Fetched
<1>2. pre[q] # None /\ pre[q].zone = c.zone
  BY <1>1, AllowedByIdMutation DEF InFlight, FetchedInv, Fetched, TypeOK
<1>3. records[c.rid].zone = c.zone
  BY <1>1, <1>2, ConstantsAssumption DEF FetchedInv, Fetched, Since, Exists
<1>4. IsLockExempt(Rules[c.token], c.zone, c.rid, Op(c.method))
  BY <1>1 DEF NeedsLock
<1>5. Op(c.method) = IF c.method = "DELETE" THEN "delete" ELSE "write"
  BY <1>1 DEF Op, ByIdMutation
<1>6. \A name, type : MatchRules(Rules[c.token], c.zone, name, type, c.rid, Op(c.method))
  BY <1>4, ExemptIsGranted
<1> HIDE DEF c
<1>7. Permitted(c, records)
  BY <1>1, <1>3, <1>5, <1>6 DEF Permitted
<1> QED BY <1>7 DEF c

\* The claim behind the lock exemption, with all the failures: a lock-exempt
\* mutation stays authorised while it is on its way, whatever happens to the record.
THEOREM ExemptionIsSafe == Spec => []ExemptInFlightAuthorized
<1> DEFINE Inv == TypeOK /\ ControlInv /\ FetchedInv
<1>1. Init => Inv
  BY InitControl DEF Init, FetchedInv, Fetched
<1>2. Inv /\ [Next]_vars => Inv'
  BY TypeStep, ControlStep, FetchedStep
<1>3. Inv => ExemptInFlightAuthorized
  BY FetchedIsExempt
<1> QED BY <1>1, <1>2, <1>3, PTL DEF Spec

(***************************************************************************)
(* What a full-body write leaves behind, with all the failures.  The names *)
(* in such a body do not depend on the record, so no lock is needed.       *)
(***************************************************************************)
Written(q, r) ==
    Exists(records[r]) /\ records[r].content = q =>
        /\ flight[q] = "applied"
        /\ FullBody(req[q]) => Grants(req[q], records[r].name, records[r].type, req[q].rid)

WrittenInv == \A q \in Requests, r \in RecordIds : Written(q, r)

\* A call that was allowed writes what its rules grant, if its body says it all.
LEMMA AllowedFullBody ==
    ASSUME NEW c \in Calls, c.method # "DELETE", c.method # "GET", FullBody(c),
           NEW image \in Images \cup {None}, Authorize(c, image) = "allow"
    PROVE  Grants(c, c.body.name, c.body.type, c.rid)
<1>1. CASE c.method = "POST"
  BY <1>1, ConstantsAssumption DEF Authorize
<1>2. CASE c.method # "POST"
  <2>1. ByIdMutation(c)
    BY <1>2, CallType DEF ByIdMutation, Methods
  <2>2. Grants(c, image.name, image.type, c.rid) /\ PostImageGranted(c, image)
    BY <2>1, AllowedByIdMutation
  <2>3. MergePatchImage(image, c.body) = [name |-> c.body.name, type |-> c.body.type]
    BY DEF MergePatchImage, FullBody
  <2> QED BY <2>2, <2>3 DEF PostImageGranted
<1> QED BY <1>1, <1>2

\* A step keeps what full bodies left behind inside their writers' scopes.
LEMMA WrittenStep ==
    TypeOK /\ ControlInv /\ FetchedInv /\ WrittenInv /\ [Next]_vars => WrittenInv'
<1> SUFFICES ASSUME TypeOK, ControlInv, FetchedInv, WrittenInv, [Next]_vars PROVE WrittenInv'
  OBVIOUS
<1>u. CASE UNCHANGED vars
  BY <1>u DEF vars, WrittenInv, Written
<1>n. ASSUME NEW q \in Requests, Step(q) PROVE WrittenInv'
  <2> SUFFICES ASSUME NEW p \in Requests, NEW r \in RecordIds,
                      Exists(records'[r]), records'[r].content = p
               PROVE  /\ flight'[p] = "applied"
                      /\ FullBody(req'[p]) =>
                            Grants(req'[p], records'[r].name, records'[r].type, req'[p].rid)
    BY DEF WrittenInv, Written
  <2>c. Control(q) /\ Fetched(q) /\ Written(p, r)
    BY DEF ControlInv, FetchedInv, WrittenInv
  <2>o. p # q => req'[p] = req[p] /\ flight'[p] = flight[p]
    BY <1>n, StepIsLocal DEF OthersUnchanged
  <2>1. CASE Apply(q)
    <3> DEFINE c == req[q]
    <3>1. c \in Calls /\ Authorize(c, pre[q]) = "allow" /\ pre[q] \in Images \cup {None}
          /\ c.method # "GET"
      BY <2>c, <2>1 DEF Apply, Fetched, Control, TypeOK
    <3>2. UNCHANGED req /\ flight'[q] = "applied" /\ Effect(c, q, records, records')
      BY <2>1 DEF Apply, TypeOK
    <3>3. CASE records'[r] = records[r]
      BY <2>c, <2>o, <3>2, <3>3 DEF Written
    <3>4. CASE records'[r] # records[r]
      <4>1. /\ records'[r].content = q /\ c.method # "DELETE"
            /\ FullBody(c) => /\ records'[r].name = c.body.name
                              /\ records'[r].type = c.body.type
        <5>1. CASE c.method = "POST"
          BY <3>2, <3>4, <5>1 DEF Effect, Created, TypeOK, ByIdMutation
        <5>2. CASE c.method # "POST"
          <6>1. c.rid = r
            BY <3>1, <3>2, <3>4, <5>2, CallType DEF Effect, TypeOK
          <6>2. records'[r] = IF c.method = "DELETE" THEN Gone ELSE Updated(records[r], c, q)
            BY <3>2, <5>2, <6>1 DEF Effect, TypeOK
          <6>3. c.method # "DELETE"
            BY <6>2, ConstantsAssumption DEF Exists
          <6> QED BY <6>2, <6>3 DEF Updated, MergePatchImage, FullBody
        <5> QED BY <5>1, <5>2
      <4>2. p = q
        BY <4>1
      <4>3. FullBody(c) => Grants(c, c.body.name, c.body.type, c.rid)
        BY <3>1, <4>1, AllowedFullBody
      <4> QED BY <3>2, <4>1, <4>2, <4>3
    <3> QED BY <3>3, <3>4
  <2>2. CASE ~Apply(q)
    <3>1. records' = records
      BY <1>n, <2>2
         DEF Step, Handler, Upstream, Failure, Receive, AcquireLock, LockTimeout, Fetch,
             Decide, Answered, Release, WriteAudit, Reply, Reject, AuthorizeError,
             ForwardTimeout, BadBody, AuditFails, LoseLock, Crash, Raise
    <3>2. flight[p] = "applied"
          /\ (FullBody(req[p]) => Grants(req[p], records[r].name, records[r].type, req[p].rid))
      BY <2>c, <3>1 DEF Written
    <3>3. CASE p # q
      BY <2>o, <3>1, <3>2, <3>3
    <3>4. CASE p = q
      <4>1. pc[q] \notin {"idle", "lock", "fetch", "decide"}
        BY <2>c, <3>2, <3>4 DEF Control
      <4>2. req' = req /\ flight' = flight
        BY <1>n, <2>2, <3>2, <3>4, <4>1
           DEF Step, Handler, Upstream, Failure, Receive, AcquireLock, LockTimeout, Fetch,
               Decide, Answered, Release, WriteAudit, Reply, Reject, AuthorizeError,
               ForwardTimeout, BadBody, AuditFails, LoseLock, Crash, Raise
      <4> QED BY <3>1, <3>2, <3>4, <4>2
    <3> QED BY <3>3, <3>4
  <2> QED BY <2>1, <2>2
<1> QED BY <1>u, <1>n DEF Next, Step

\* The image a full-body write leaves behind stays inside its writer's scope, with all
\* the failures and without the lock.
THEOREM FullBodiesStayInScope == Spec => []FullBodyStaysInScope
<1> DEFINE Inv == TypeOK /\ ControlInv /\ FetchedInv /\ WrittenInv
<1>1. Init => Inv
  <2>1. Init => WrittenInv
    BY ConstantsAssumption, DnsProxyAssumption DEF Init, WrittenInv, Written, Exists
  <2> QED BY <2>1, InitControl DEF Init, FetchedInv, Fetched
<1>2. Inv /\ [Next]_vars => Inv'
  BY TypeStep, ControlStep, FetchedStep, WrittenStep
<1>3. Inv => FullBodyStaysInScope
  BY DEF WrittenInv, Written, FullBodyStaysInScope
<1> QED BY <1>1, <1>2, <1>3, PTL DEF Spec

(***************************************************************************)
(* The audit log, as long as its rows can be written.                      *)
(***************************************************************************)
Audited(q) ==
    LET row == audit[q] # None /\ audit[q].decision = decision[q]
    IN  /\ pc[q] = "reply" /\ decision[q] # "error" =>
              row \/ (decision[q] = "allow" /\ req[q].method = "GET")
        /\ answer[q] \in {"ok", "notfound", "forbidden", "upstream_error"} =>
              row \/ (answer[q] = "ok" /\ req[q].method = "GET")

AuditedInv == \A q \in Requests : Audited(q)

\* A step keeps the log ahead of the answers.
LEMMA AuditedStep ==
    ASSUME "audit" \notin Faults
    PROVE  TypeOK /\ ControlInv /\ AuditedInv /\ [Next]_vars => AuditedInv'
<1> SUFFICES ASSUME TypeOK, ControlInv, AuditedInv, [Next]_vars PROVE AuditedInv'
  OBVIOUS
<1>u. CASE UNCHANGED vars
  BY <1>u DEF vars, AuditedInv, Audited
<1>n. ASSUME NEW q \in Requests, Step(q) PROVE AuditedInv'
  <2>c. Control(q) /\ Audited(q)
    BY DEF ControlInv, AuditedInv
  <2>o. ASSUME NEW p \in Requests \ {q} PROVE Audited(p)'
    BY <1>n, StepIsLocal DEF OthersUnchanged, AuditedInv, Audited
  <2>q. Audited(q)'
    <3> USE DEF TypeOK, Goto
    <3>0. answer[q] # None => pc[q] = "done"
      BY <2>c DEF Control
    <3>n. None \notin {"ok", "notfound", "forbidden", "upstream_error"}
      BY DnsProxyAssumption
    <3>1. ASSUME UNCHANGED answer, answer[q] = None, pc'[q] # "reply" PROVE Audited(q)'
      BY <3>1, <3>n DEF Audited
    <3>2. ASSUME NEW c \in Calls, Receive(q, c) PROVE Audited(q)'
      BY <3>0, <3>1, <3>2 DEF Receive
    <3>3. CASE AcquireLock(q) \/ Fetch(q)
      BY <3>0, <3>1, <3>3 DEF AcquireLock, Fetch
    <3>4. CASE LockTimeout(q)
      BY <3>4 DEF LockTimeout, Audited
    <3>5. CASE Decide(q)
      <4> DEFINE d == Authorize(req[q], pre[q])
      <4>1. decision'[q] = d /\ UNCHANGED <<answer, req>> /\ answer[q] = None
        BY <3>5, <3>0 DEF Decide
      <4>2. pc'[q] = "reply" => d = "allow" /\ req[q].method = "GET"
        <5>1. d # "error"
          BY AuthorizeType
        <5> HIDE DEF d
        <5> QED BY <3>5, <5>1 DEF Decide, Leave, Finish, d
      <4> HIDE DEF d
      <4> QED BY <3>n, <4>1, <4>2 DEF Audited
    <3>6. CASE Answered(q)
      <4>1. answer[q] = None /\ UNCHANGED <<answer, req, decision>>
            /\ req[q].method # "GET" /\ pc'[q] # "reply"
        BY <3>6, <3>0, <2>c DEF Answered, Control, Leave, Finish
      <4> QED BY <4>1, <3>1
    <3>7. CASE Release(q)
      <4>1. answer[q] = None /\ UNCHANGED <<answer, req>> /\ NeedsLock(req[q])
        BY <3>7, <3>0, <2>c DEF Release, Control
      <4>2. pc'[q] = "reply" => decision'[q] = "error"
        BY <3>7, <4>1 DEF Release, Finish, NeedsLock, ByIdMutation
      <4> QED BY <3>n, <4>1, <4>2 DEF Audited
    <3>8. CASE WriteAudit(q)
      <4>1. answer[q] = None /\ UNCHANGED <<answer, decision>>
        BY <3>8, <3>0 DEF WriteAudit
      <4>2. audit'[q] # None /\ audit'[q].decision = decision[q]
        <5>1. decision[q] \in {"allow", "notfound", "forbidden"} /\ pre[q] \in Images \cup {None}
          BY <3>8, <2>c DEF WriteAudit, Control
        <5>2. audit'[q] = [decision |-> decision[q], pre_image |-> pre[q]]
          BY <3>8 DEF WriteAudit
        <5> QED BY <5>1, <5>2, DnsProxyAssumption
      <4>3. answer'[q] = None /\ decision'[q] = decision[q]
        BY <4>1
      <4> HIDE DEF TypeOK
      <4> QED BY <3>n, <4>2, <4>3 DEF Audited
    <3>9. CASE Reply(q)
      <4>1. /\ pc'[q] = "done" /\ UNCHANGED <<audit, decision, req, flight>>
            /\ answer'[q] = IF decision[q] # "allow" THEN decision[q]
                            ELSE IF flight[q] = "rejected" THEN "upstream_error" ELSE "ok"
        BY <3>9 DEF Reply
      <4>2. flight[q] # "none" => req[q].method # "GET"
        BY <2>c DEF Control
      <4>3. decision[q] # "error" => \/ audit[q] # None /\ audit[q].decision = decision[q]
                                     \/ decision[q] = "allow" /\ req[q].method = "GET"
        BY <2>c, <3>9 DEF Audited, Reply
      <4>4. CASE decision[q] = "error"
        BY <4>1, <4>4 DEF Audited
      <4>5. CASE audit[q] # None /\ audit[q].decision = decision[q]
        BY <4>1, <4>5 DEF Audited
      <4>6. CASE decision[q] = "allow" /\ req[q].method = "GET"
        <5>1. answer'[q] = "ok" /\ req'[q].method = "GET"
          BY <4>1, <4>2, <4>6
        <5> HIDE DEF TypeOK
        <5> QED BY <4>1, <5>1 DEF Audited
      <4> QED BY <4>3, <4>4, <4>5, <4>6
    <3>10. CASE Upstream(q)
      BY <2>c, <3>10 DEF Upstream, Apply, Reject, Audited
    <3>11. CASE AuthorizeError(q) \/ ForwardTimeout(q) \/ BadBody(q)
      <4>1. answer[q] = None /\ UNCHANGED answer /\ decision'[q] = "error"
        BY <3>11, <3>0 DEF AuthorizeError, ForwardTimeout, BadBody, Raise
      <4> QED BY <3>n, <4>1 DEF Audited
    <3>12. CASE LoseLock(q)
      BY <2>c, <3>12 DEF LoseLock, Audited
    <3>13. CASE Crash(q)
      BY <3>0, <3>1, <3>13 DEF Crash
    <3> QED
      BY <1>n, <3>2, <3>3, <3>4, <3>5, <3>6, <3>7, <3>8, <3>9, <3>10, <3>11, <3>12, <3>13
         DEF Step, Handler, Failure, AuditFails
  <2> QED BY <2>o, <2>q DEF AuditedInv
<1> QED BY <1>u, <1>n DEF Next, Step

\* Denies and mutations are in the audit log before they are answered, with every
\* failure but that of the log itself.
THEOREM AuditPrecedesAnswer ==
    ASSUME "audit" \notin Faults PROVE Spec => []AuditedBeforeAnswer
<1> DEFINE Inv == TypeOK /\ ControlInv /\ AuditedInv
<1>1. Init => Inv
  BY InitControl, DnsProxyAssumption DEF Init, AuditedInv, Audited
<1>2. Inv /\ [Next]_vars => Inv'
  BY TypeStep, ControlStep, AuditedStep
<1>3. Inv => AuditedBeforeAnswer
  BY DEF AuditedInv, Audited, AuditedBeforeAnswer
<1> QED BY <1>1, <1>2, <1>3, PTL DEF Spec
=============================================================================
