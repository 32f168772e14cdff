------------------------- MODULE PooledProxyProofs -------------------------
(***************************************************************************)
(* Proofs about PooledProxy, for any number of requests and any capacity   *)
(* of the pool.                                                            *)
(***************************************************************************)
EXTENDS PooledProxy, DnsAtomicityProofs

(***************************************************************************)
(* A step of the pooled proxy is a step of DnsProxy, or stutters there, or *)
(* is one of the three ways in which a full pool ends a wait.              *)
(***************************************************************************)
Starved(q) == (\E c \in Calls : Refused(q, c)) \/ ConnectTimeout(q) \/ AuditTimeout(q)

LEMMA PooledStepKinds ==
    ASSUME NEW q \in Requests,
           \/ \E c \in Calls : Arrive(q, c) \/ Refused(q, c)
           \/ PooledHandler(q)
           \/ (Upstream(q) \/ Failure(q)) /\ UNCHANGED pool
    PROVE  Step(q) \/ UNCHANGED vars \/ Starved(q)
  BY DEF PooledHandler, Arrive, Connect, PooledAcquireLock, PooledLockTimeout, PooledDecide,
         PooledRelease, PooledWriteAudit, Close, Step, Handler, Starved

LEMMA PooledStepIs ==
    ASSUME [PooledNext]_pooledVars
    PROVE  [Next]_vars \/ \E q \in Requests : Starved(q)
<1>1. ASSUME UNCHANGED pooledVars PROVE UNCHANGED vars
  BY <1>1 DEF pooledVars, vars
<1>2. ASSUME NEW q \in Requests, Step(q) PROVE Next
  BY <1>2 DEF Step, Next
<1> QED BY <1>1, <1>2, PooledStepKinds DEF PooledNext

\* What the three ways do to the request, and that they do nothing else.
LEMMA StarvedStep ==
    ASSUME TypeOK, ControlInv, NEW q \in Requests, Starved(q)
    PROVE  /\ OthersUnchanged(q)
           /\ UNCHANGED <<records, lock, pre, flight, audit, session, locker>>
           /\ \/ /\ pc[q] = "idle" /\ pc'[q] = "done" /\ req'[q] \in Calls
                 /\ answer'[q] = "error" /\ UNCHANGED decision
              \/ /\ pc[q] = "lock" /\ pc'[q] = "reply" /\ q \notin locker
                 /\ decision'[q] = "error" /\ UNCHANGED <<req, answer>>
              \/ /\ pc[q] = "audit" /\ pc'[q] = "reply" /\ ~CanWrite(q)
                 /\ UNCHANGED <<req, decision, answer>>
<1> USE DEF TypeOK, Goto, OthersUnchanged
<1>1. ASSUME NEW c \in Calls, Refused(q, c)
      PROVE  /\ OthersUnchanged(q)
             /\ UNCHANGED <<records, lock, pre, flight, audit, session, locker>>
             /\ pc[q] = "idle" /\ pc'[q] = "done" /\ req'[q] \in Calls
             /\ answer'[q] = "error" /\ UNCHANGED decision
  BY <1>1 DEF Refused
<1>2. CASE ConnectTimeout(q)
  BY <1>2 DEF ConnectTimeout, Raise, pool
<1>3. CASE AuditTimeout(q)
  BY <1>3 DEF AuditTimeout
<1> HIDE DEF OthersUnchanged
<1> QED BY <1>1, <1>2, <1>3 DEF Starved

\* The types, the control flow and the ownership of the locks carry over.
LEMMA PooledControlStep ==
    TypeOK /\ ControlInv /\ LockOwner /\ [PooledNext]_pooledVars
        => (TypeOK /\ ControlInv /\ LockOwner)'
<1> SUFFICES ASSUME TypeOK, ControlInv, LockOwner, [PooledNext]_pooledVars
             PROVE  (TypeOK /\ ControlInv /\ LockOwner)'
  OBVIOUS
<1>1. ASSUME [Next]_vars PROVE (TypeOK /\ ControlInv /\ LockOwner)'
  BY <1>1, TypeStep, ControlStep, LockOwnerStep
<1>2. ASSUME NEW q \in Requests, Starved(q) PROVE (TypeOK /\ ControlInv /\ LockOwner)'
  <2>1. TypeOK'
    <3>1. ASSUME NEW c \in Calls, Refused(q, c) PROVE TypeOK'
      BY <3>1 DEF Refused, Goto, TypeOK
    <3>2. CASE ConnectTimeout(q)
      BY <3>2 DEF ConnectTimeout, Raise, Goto, TypeOK
    <3>3. CASE AuditTimeout(q)
      BY <3>3 DEF AuditTimeout, Goto, TypeOK
    <3> QED BY <1>2, <3>1, <3>2, <3>3 DEF Starved
  <2>2. ControlInv'
    <3>1. ASSUME NEW p \in Requests \ {q} PROVE Control(p)'
      BY <1>2, StarvedStep DEF OthersUnchanged, ControlInv, Control
    <3>2. Control(q)
      BY DEF ControlInv
    <3>3. Control(q)'
      BY <1>2, <3>2, StarvedStep, DnsProxyAssumption DEF Control
    <3> QED BY <3>1, <3>3 DEF ControlInv
  <2>3. LockOwner'
    <3>1. ASSUME NEW p \in Requests, NEW k \in LockNames, lock'[k] = p PROVE Holds(p, k)'
      <4>1. Holds(p, k) /\ pc[p] \in Critical
        BY <1>2, <3>1, StarvedStep DEF LockOwner, Holds
      <4>2. p # q
        BY <1>2, <4>1, StarvedStep DEF Critical
      <4> QED BY <1>2, <4>1, <4>2, StarvedStep DEF OthersUnchanged, Holds
    <3> QED BY <3>1 DEF LockOwner
  <2> QED BY <2>1, <2>2, <2>3
<1> QED BY <1>1, <1>2, PooledStepIs

(***************************************************************************)
(* The connection of the mutation lock.                                    *)
(***************************************************************************)
Connected(q) ==
    /\ q \in locker => pc[q] \in {"lock"} \cup Critical /\ NeedsLock(req[q])
    /\ \A k \in LockNames : lock[k] = q => q \in locker

ConnectedInv == \A q \in Requests : Connected(q)

\* A step neither leaves a lock without its connection nor a connection without its
\* `async with'.
LEMMA ConnectedStep ==
    TypeOK /\ ControlInv /\ LockOwner /\ ConnectedInv /\ [PooledNext]_pooledVars
        => ConnectedInv'
<1> SUFFICES ASSUME TypeOK, ControlInv, LockOwner, ConnectedInv, [PooledNext]_pooledVars
             PROVE  ConnectedInv'
  OBVIOUS
<1>u. CASE UNCHANGED pooledVars
  BY <1>u DEF pooledVars, ConnectedInv, Connected
<1>n. ASSUME NEW q \in Requests,
             \/ \E c \in Calls : Arrive(q, c) \/ Refused(q, c)
             \/ PooledHandler(q)
             \/ (Upstream(q) \/ Failure(q)) /\ UNCHANGED pool
      PROVE  ConnectedInv'
  <2>c. Control(q) /\ Connected(q)
    BY DEF ControlInv, ConnectedInv
  <2>k. None \notin Requests
    BY ConstantsAssumption
  <2>l. OthersUnchanged(q)
    BY <1>n, PooledStepKinds, StepIsLocal, StarvedStep DEF OthersUnchanged, vars
  <2>1. ASSUME NEW p \in Requests \ {q} PROVE p \in locker' <=> p \in locker
    <3>1. locker' \in {locker, locker \cup {q}, locker \ {q}}
      BY <1>n DEF Arrive, Refused, PooledHandler, Connect, ConnectTimeout, PooledAcquireLock,
                  PooledLockTimeout, PooledDecide, PooledRelease, PooledWriteAudit,
                  AuditTimeout, Close, pool
    <3> QED BY <3>1
  <2>2. ASSUME NEW p \in Requests \ {q}, NEW k \in LockNames, lock'[k] = p PROVE lock[k] = p
    <3>1. CASE UNCHANGED lock
      BY <2>2, <3>1
    <3>2. CASE AcquireLock(q) \/ Release(q) \/ LoseLock(q)
      BY <2>2, <2>k, <3>2 DEF AcquireLock, Release, LoseLock, TypeOK
    <3>3. AcquireLock(q) \/ Release(q) \/ LoseLock(q) \/ UNCHANGED lock
      BY <1>n, PooledProxyAssumption
         DEF Arrive, Refused, PooledHandler, Connect, ConnectTimeout, PooledAcquireLock,
             PooledLockTimeout, PooledDecide, PooledRelease, PooledWriteAudit, AuditTimeout,
             Close, vars, Receive, LockTimeout, Fetch, Decide, Answered, WriteAudit, Reply,
             Upstream, Apply, Reject, Failure, AuthorizeError, ForwardTimeout, BadBody, AuditFails,
             Crash, Raise
    <3> QED BY <3>1, <3>2, <3>3
  <2>o. ASSUME NEW p \in Requests \ {q} PROVE Connected(p)'
    BY <2>l, <2>1, <2>2 DEF OthersUnchanged, ConnectedInv, Connected
  <2>q. Connected(q)'
    <3> USE DEF TypeOK, Goto, Critical
    <3>s. ASSUME UNCHANGED <<lock, locker>>, req'[q] = req[q],
                 pc[q] \in {"lock"} \cup Critical /\ NeedsLock(req[q]) /\ q \in locker
                     => pc'[q] \in {"lock"} \cup Critical
          PROVE  Connected(q)'
      BY <2>c, <3>s DEF Connected
    <3>1. ASSUME NEW c \in Calls, Arrive(q, c) PROVE Connected(q)'
      <4>1. pc[q] = "idle" /\ UNCHANGED <<lock, locker>>
        BY <3>1 DEF Arrive, Receive
      <4> QED BY <2>c, <4>1 DEF Connected
    <3>2. CASE Starved(q)
      <4>1. UNCHANGED <<lock, locker>> /\ q \notin locker
        BY <2>c, <3>2, StarvedStep DEF Connected
      <4> QED BY <2>c, <4>1 DEF Connected
    <3>3. CASE Connect(q)
      BY <2>c, <3>3 DEF Connect, Connected, Control, vars
    <3>4. CASE PooledAcquireLock(q)
      BY <2>c, <3>4 DEF PooledAcquireLock, AcquireLock, Connected, Control, pool
    <3>5. CASE PooledLockTimeout(q)
      <4>1. \A k \in LockNames : lock[k] # q
        BY <3>5 DEF PooledLockTimeout, LockTimeout, LockOwner, Holds
      <4> QED BY <3>5, <4>1 DEF PooledLockTimeout, LockTimeout, Connected
    <3>6. CASE PooledRelease(q)
      <4>1. \A k \in LockNames : lock[k] = q => k = LockName(req[q])
        BY DEF LockOwner, Holds
      <4>2. \A k \in LockNames : lock'[k] # q
        BY <2>k, <3>6, <4>1 DEF PooledRelease, Release
      <4> QED BY <3>6, <4>2 DEF PooledRelease, Connected
    <3>7. CASE Fetch(q) /\ UNCHANGED pool
      BY <3>s, <3>7 DEF Fetch, pool
    <3>8. CASE Answered(q) /\ UNCHANGED pool
      BY <3>s, <3>8 DEF Answered, Leave, pool
    <3>9. CASE Reply(q) /\ UNCHANGED pool
      BY <3>s, <3>9 DEF Reply, pool
    <3>10. CASE PooledDecide(q)
      BY <3>s, <3>10 DEF PooledDecide, Decide, Leave
    <3>11. CASE PooledWriteAudit(q)
      BY <3>s, <3>11 DEF PooledWriteAudit, WriteAudit
    <3>12. CASE Close(q)
      BY <3>s, <3>12 DEF Close, vars
    <3>13. CASE Upstream(q) /\ UNCHANGED pool
      BY <3>s, <3>13 DEF Upstream, Apply, Reject, pool
    <3>14. CASE LoseLock(q) /\ UNCHANGED pool
      <4>1. \A k \in LockNames : lock'[k] = q => lock[k] = q
        BY <2>k, <3>14 DEF LoseLock
      <4> QED BY <2>c, <3>14, <4>1 DEF LoseLock, Connected, pool
    <3>15. CASE (AuthorizeError(q) \/ ForwardTimeout(q) \/ BadBody(q) \/ AuditFails(q))
                  /\ UNCHANGED pool
      BY <3>s, <3>15 DEF AuthorizeError, ForwardTimeout, BadBody, AuditFails, Raise, Leave, pool
    <3>16. ~Crash(q)
      BY PooledProxyAssumption DEF Crash
    <3> HIDE DEF TypeOK, Goto, Critical
    <3> QED
      BY <1>n, <3>1, <3>2, <3>3, <3>4, <3>5, <3>6, <3>7, <3>8, <3>9, <3>10, <3>11, <3>12,
         <3>13, <3>14, <3>15, <3>16 DEF PooledHandler, Starved, Failure
  <2> QED BY <2>o, <2>q DEF ConnectedInv
<1> QED BY <1>u, <1>n DEF PooledNext

\* No connection goes back to the pool with a mutation lock on it, and none is kept
\* by a request that is past its `async with': the pool is not drained by failures.
THEOREM LocksLiveOnTheirConnections == PooledSpec => []LockLivesOnItsConnection
<1> DEFINE Inv == TypeOK /\ ControlInv /\ LockOwner /\ ConnectedInv
<1>1. PooledInit => Inv
  <2>1. PooledInit => LockOwner /\ ConnectedInv
    BY ConstantsAssumption DEF PooledInit, Init, LockOwner, ConnectedInv, Connected
  <2> QED BY <2>1, InitControl DEF PooledInit
<1>2. Inv /\ [PooledNext]_pooledVars => Inv'
  BY PooledControlStep, ConnectedStep
<1>3. Inv => LockLivesOnItsConnection
  BY DEF ConnectedInv, Connected, Critical, LockLivesOnItsConnection
<1> QED BY <1>1, <1>2, <1>3, PTL DEF PooledSpec

(***************************************************************************)
(* The audit rows of a worker whose database works.                        *)
(***************************************************************************)
\* Without an OAuth credential nothing but the audit row is committed, so the session
\* has its connection until then; with one there may be no row, when the session has none.
Unlogged(q) == req[q].token \in OAuthTokens /\ q \notin session

Logged(q) ==
    /\ pc[q] \in {"lock", "fetch", "decide", "await", "release", "audit"} =>
          q \in session \/ req[q].token \in OAuthTokens
    /\ flight[q] # "none" /\ audit[q] = None =>
          /\ pc[q] = "reply" => decision[q] = "error" \/ Unlogged(q)
          /\ pc[q] = "done" => answer[q] = "error" \/ Unlogged(q)

LoggedInv == \A q \in Requests : Logged(q)

\* A step keeps every missing row accounted for.
LEMMA LoggedStep ==
    ASSUME "audit" \notin Faults
    PROVE  TypeOK /\ ControlInv /\ LoggedInv /\ [PooledNext]_pooledVars => LoggedInv'
<1> SUFFICES ASSUME TypeOK, ControlInv, LoggedInv, [PooledNext]_pooledVars PROVE LoggedInv'
  OBVIOUS
<1>u. CASE UNCHANGED pooledVars
  BY <1>u DEF pooledVars, LoggedInv, Logged, Unlogged
<1>n. ASSUME NEW q \in Requests,
             \/ \E c \in Calls : Arrive(q, c) \/ Refused(q, c)
             \/ PooledHandler(q)
             \/ (Upstream(q) \/ Failure(q)) /\ UNCHANGED pool
      PROVE  LoggedInv'
  <2>c. Control(q) /\ Logged(q)
    BY DEF ControlInv, LoggedInv
  <2>l. OthersUnchanged(q)
    BY <1>n, PooledStepKinds, StepIsLocal, StarvedStep DEF OthersUnchanged, vars
  <2>1. ASSUME NEW p \in Requests \ {q} PROVE p \in session <=> p \in session'
    <3>1. session' \in {session, session \cup {q}, session \ {q}}
      BY <1>n DEF Arrive, Refused, Resolved, PooledHandler, Connect, ConnectTimeout,
                  PooledAcquireLock, PooledLockTimeout, PooledDecide, PooledRelease,
                  PooledWriteAudit, AuditTimeout, Close, pool
    <3> QED BY <2>1, <3>1
  <2>o. ASSUME NEW p \in Requests \ {q} PROVE Logged(p)'
    BY <2>l, <2>1 DEF OthersUnchanged, LoggedInv, Logged, Unlogged
  <2>q. Logged(q)'
    <3> USE DEF TypeOK, Goto
    \* A step that stays ahead of the audit row.
    <3>s. ASSUME UNCHANGED session, req'[q] = req[q], pc'[q] \notin {"reply", "done"},
                 pc[q] \in {"lock", "fetch", "decide", "await", "release", "audit"}
          PROVE  Logged(q)'
      BY <2>c, <3>s DEF Logged
    \* One that raises.
    <3>r. ASSUME decision'[q] = "error", pc'[q] = "reply" PROVE Logged(q)'
      BY <3>r DEF Logged
    <3>1. ASSUME NEW c \in Calls, Arrive(q, c) PROVE Logged(q)'
      <4>1. req'[q] = c /\ flight'[q] = "none" /\ (c.token \notin OAuthTokens => q \in session')
        BY <2>c, <3>1 DEF Arrive, Receive, Resolved, Control
      <4> QED BY <4>1 DEF Logged
    <3>2. CASE Starved(q)
      <4>1. pc'[q] = "done" => flight'[q] = "none"
        BY <2>c, <3>2, StarvedStep DEF Control
      <4>2. pc[q] = "audit" /\ ~CanWrite(q) => Unlogged(q)
        BY <2>c DEF Logged, CanWrite, Unlogged
      <4>3. pc'[q] \in {"reply", "done"}
            /\ (pc'[q] = "reply" => decision'[q] = "error" \/ Unlogged(q)')
        BY <3>2, <4>2, StarvedStep DEF Unlogged
      <4> QED BY <4>1, <4>3 DEF Logged
    <3>3. CASE Connect(q)
      BY <3>s, <3>3 DEF Connect, vars
    <3>4. CASE PooledAcquireLock(q)
      BY <3>s, <3>4 DEF PooledAcquireLock, AcquireLock, pool
    <3>5. CASE PooledLockTimeout(q)
      <4>1. pc'[q] = "done" /\ flight'[q] = "none"
        BY <2>c, <3>5 DEF PooledLockTimeout, LockTimeout, Control
      <4> QED BY <4>1 DEF Logged
    <3>6. CASE PooledRelease(q)
      <4>1. pc'[q] \in {"audit", "reply"} /\ UNCHANGED <<session, req>> /\ pc[q] = "release"
            /\ (pc'[q] = "reply" => decision'[q] = "error")
        BY <2>c, <3>6 DEF PooledRelease, Release, Finish, Control, NeedsLock, ByIdMutation
      <4> QED BY <3>r, <3>s, <4>1
    <3>7. CASE Fetch(q) /\ UNCHANGED pool
      BY <3>s, <3>7 DEF Fetch, pool
    <3>8. CASE Answered(q) /\ UNCHANGED pool
      <4>1. req[q].method # "GET"
        BY <2>c, <3>8 DEF Answered, Control
      <4> QED BY <3>s, <3>8, <4>1 DEF Answered, Leave, Finish, pool
    <3>9. CASE Reply(q) /\ UNCHANGED pool
      <4>1. pc'[q] = "done" /\ UNCHANGED <<req, flight, audit>>
            /\ (decision[q] = "error" => answer'[q] = "error") /\ UNCHANGED session
        BY <3>9 DEF Reply, pool
      <4>2. flight[q] # "none" /\ audit[q] = None => decision[q] = "error" \/ Unlogged(q)
        BY <2>c, <3>9 DEF Logged, Reply
      <4> QED BY <4>1, <4>2 DEF Logged, Unlogged
    <3>10. CASE PooledDecide(q)
      <4> DEFINE d == Authorize(req[q], pre[q])
      <4>1. pc[q] = "decide" /\ UNCHANGED req
            /\ (q \in session => q \in session' \/ req[q].token \in OAuthTokens)
        BY <3>10 DEF PooledDecide, Decide, Resolved
      <4>2. pc'[q] # "done" /\ (pc'[q] = "reply" => flight'[q] = "none")
        <5>1. d # "error"
          BY AuthorizeType
        <5> HIDE DEF d
        <5> QED BY <3>10, <5>1 DEF PooledDecide, Decide, Leave, Finish, d
      <4> HIDE DEF d
      <4> QED BY <2>c, <4>1, <4>2 DEF Logged
    <3>11. CASE PooledWriteAudit(q)
      <4>1. decision[q] \in {"allow", "notfound", "forbidden"} /\ pre[q] \in Images \cup {None}
        BY <2>c, <3>11 DEF PooledWriteAudit, WriteAudit, Control
      <4>2. audit'[q] = [decision |-> decision[q], pre_image |-> pre[q]] /\ pc'[q] = "reply"
        BY <3>11 DEF PooledWriteAudit, WriteAudit
      <4>3. audit'[q] # None
        BY <4>1, <4>2, DnsProxyAssumption
      <4> QED BY <4>2, <4>3 DEF Logged
    <3>12. CASE Close(q)
      BY <2>c, <3>12 DEF Close, vars, Logged, Unlogged
    <3>13. CASE Upstream(q) /\ UNCHANGED pool
      BY <2>c, <3>13 DEF Upstream, Apply, Reject, pool, Logged, Unlogged
    <3>14. CASE LoseLock(q) /\ UNCHANGED pool
      BY <3>s, <3>14 DEF LoseLock, pool
    <3>15. CASE (AuthorizeError(q) \/ ForwardTimeout(q) \/ BadBody(q)) /\ UNCHANGED pool
      <4>1. decision'[q] = "error" /\ UNCHANGED <<session, req>>
            /\ pc[q] \in {"fetch", "decide", "await", "audit"} /\ pc'[q] \in {"release", "audit", "reply"}
        BY <3>15 DEF AuthorizeError, ForwardTimeout, BadBody, Raise, Leave, Finish, pool
      <4> QED BY <3>r, <3>s, <4>1
    <3>16. ~Crash(q) /\ ~AuditFails(q)
      BY PooledProxyAssumption DEF Crash, AuditFails
    <3> HIDE DEF TypeOK, Goto
    <3> QED
      BY <1>n, <3>1, <3>2, <3>3, <3>4, <3>5, <3>6, <3>7, <3>8, <3>9, <3>10, <3>11, <3>12,
         <3>13, <3>14, <3>15, <3>16 DEF PooledHandler, Starved, Failure
  <2> QED BY <2>o, <2>q DEF LoggedInv
<1> QED BY <1>u, <1>n DEF PooledNext

\* A mutation that was carried out and answered without an audit row was answered as
\* an error, or made with an OAuth credential by a session that had given its connection
\* back: a full pool alone costs no row.
THEOREM AuditGapsAreKnown ==
    ASSUME "audit" \notin Faults PROVE PooledSpec => []AuditGapIsKnown
<1> DEFINE Inv == TypeOK /\ ControlInv /\ LockOwner /\ LoggedInv
<1>1. PooledInit => Inv
  <2>1. PooledInit => LockOwner /\ LoggedInv
    BY ConstantsAssumption DEF PooledInit, Init, LockOwner, LoggedInv, Logged
  <2> QED BY <2>1, InitControl DEF PooledInit
<1>2. Inv /\ [PooledNext]_pooledVars => Inv'
  BY PooledControlStep, LoggedStep
<1>3. Inv => AuditGapIsKnown
  BY DEF LoggedInv, Logged, Unlogged, ControlInv, Control, AuditGapIsKnown
<1> QED BY <1>1, <1>2, <1>3, PTL DEF PooledSpec

(***************************************************************************)
(* The guarantees of DnsProxy with a bounded pool: a wait that a full pool *)
(* ends touches neither the records nor the locks.                         *)
(***************************************************************************)
\* A request that starves has fetched nothing it will use and has no mutation on its way,
\* or has its mutation behind it.
LEMMA StarvedKeepsScope ==
    ASSUME TypeOK, ControlInv, FetchedInv, WrittenInv, NEW q \in Requests, Starved(q)
    PROVE  FetchedInv' /\ WrittenInv'
<1>1. Control(q) /\ Fetched(q) /\ None \notin Calls
  BY ConstantsAssumption DEF ControlInv, FetchedInv
<1>2. OthersUnchanged(q) /\ UNCHANGED <<records, pre, flight>>
  BY StarvedStep
<1>3. req'[q] = req[q] \/ (pre[q] = None /\ flight[q] = "none")
  <2>1. req'[q] = req[q] \/ pc[q] = "idle"
    BY StarvedStep
  <2>2. pc[q] = "idle" => req[q] \notin Calls /\ flight[q] = "none"
    BY <1>1 DEF Control
  <2> QED BY <1>1, <2>1, <2>2 DEF Fetched
<1>4. ASSUME NEW p \in Requests PROVE Fetched(p)'
  <2>1. Fetched(p)
    BY DEF FetchedInv
  <2>2. CASE p # q
    BY <1>2, <2>1, <2>2 DEF OthersUnchanged, Fetched
  <2>3. CASE p = q
    BY <1>2, <1>3, <2>1, <2>3 DEF Fetched
  <2> QED BY <2>2, <2>3
<1>5. ASSUME NEW p \in Requests, NEW r \in RecordIds PROVE Written(p, r)'
  <2>1. Written(p, r)
    BY DEF WrittenInv
  <2>2. CASE p # q
    BY <1>2, <2>1, <2>2 DEF OthersUnchanged, Written
  <2>3. CASE p = q
    BY <1>2, <1>3, <2>1, <2>3 DEF Written
  <2> QED BY <2>2, <2>3
<1> QED BY <1>4, <1>5 DEF FetchedInv, WrittenInv

\* What a pooled step keeps: it is a step of DnsProxy, or a starved one.
LEMMA PooledScopeStep ==
    TypeOK /\ ControlInv /\ FetchedInv /\ WrittenInv /\ [PooledNext]_pooledVars
        => (FetchedInv /\ WrittenInv)'
<1> SUFFICES ASSUME TypeOK, ControlInv, FetchedInv, WrittenInv, [PooledNext]_pooledVars
             PROVE  (FetchedInv /\ WrittenInv)'
  OBVIOUS
<1>1. ASSUME [Next]_vars PROVE (FetchedInv /\ WrittenInv)'
  BY <1>1, FetchedStep, WrittenStep
<1>2. ASSUME NEW q \in Requests, Starved(q) PROVE (FetchedInv /\ WrittenInv)'
  BY <1>2, StarvedKeepsScope
<1> QED BY <1>1, <1>2, PooledStepIs

PooledInv == TypeOK /\ ControlInv /\ LockOwner /\ FetchedInv /\ WrittenInv

LEMMA PooledInvariant == PooledSpec => []PooledInv
<1>1. PooledInit => PooledInv
  <2>1. PooledInit => LockOwner /\ WrittenInv
    BY ConstantsAssumption, DnsProxyAssumption
       DEF PooledInit, Init, LockOwner, WrittenInv, Written, Exists
  <2> QED BY <2>1, InitControl DEF PooledInit, Init, FetchedInv, Fetched, PooledInv
<1>2. PooledInv /\ [PooledNext]_pooledVars => PooledInv'
  BY PooledControlStep, PooledScopeStep DEF PooledInv
<1> QED BY <1>1, <1>2, PTL DEF PooledSpec

\* Whoever is answered, or refused, because the pool is empty holds no mutation lock.
THEOREM StarvedHoldNoLock == PooledSpec => []FinishedHoldsNoLock
<1>1. PooledInv => FinishedHoldsNoLock
  BY DEF PooledInv, LockOwner, Holds, Critical, FinishedHoldsNoLock
<1> QED BY <1>1, PooledInvariant, PTL

\* With a bounded pool, too, a full-body write leaves an image inside its writer's scope.
THEOREM PooledBodiesStayInScope == PooledSpec => []FullBodyStaysInScope
<1>1. PooledInv => FullBodyStaysInScope
  BY DEF PooledInv, WrittenInv, Written, FullBodyStaysInScope
<1> QED BY <1>1, PooledInvariant, PTL

\* With a bounded pool, too, a lock-exempt mutation stays authorised on its way.
THEOREM PooledExemptionIsSafe == PooledSpec => []ExemptInFlightAuthorized
<1>1. PooledInv => ExemptInFlightAuthorized
  BY FetchedIsExempt DEF PooledInv
<1> QED BY <1>1, PooledInvariant, PTL

\* A request that starves is outside its critical section before and after.
LEMMA StarvedKeepsLock ==
    ASSUME TypeOK, ControlInv, CriticalInv, FreshInv, NEW q \in Requests, Starved(q)
    PROVE  CriticalInv' /\ FreshInv'
<1>1. Control(q) /\ InCritical(q) /\ Fresh(q)
  BY DEF ControlInv, CriticalInv, FreshInv
<1>2. OthersUnchanged(q) /\ UNCHANGED <<records, lock, pre, flight>>
  BY StarvedStep
<1>3. /\ pc[q] \in {"idle", "lock", "audit"} /\ pc'[q] \in {"done", "reply"}
      /\ flight[q] # "sent"
  BY <1>1, StarvedStep DEF InCritical
<1>4. ASSUME NEW p \in Requests PROVE InCritical(p)' /\ Fresh(p)'
  <2>1. InCritical(p) /\ Fresh(p)
    BY DEF CriticalInv, FreshInv
  <2>2. CASE p # q
    BY <1>2, <2>1, <2>2 DEF OthersUnchanged, InCritical, Fresh
  <2>3. CASE p = q
    BY <1>2, <1>3, <2>3 DEF InCritical, Fresh, Critical
  <2> QED BY <2>2, <2>3
<1> QED BY <1>4 DEF CriticalInv, FreshInv

LEMMA PooledLockInvariant ==
    ASSUME Reliable PROVE PooledSpec => []LockInv
<1>1. PooledInit => CriticalInv /\ FreshInv
  BY DEF PooledInit, Init, CriticalInv, InCritical, Critical, FreshInv, Fresh
<1>2. PooledInv /\ CriticalInv /\ FreshInv /\ [PooledNext]_pooledVars => (CriticalInv /\ FreshInv)'
  <2> SUFFICES ASSUME PooledInv, CriticalInv, FreshInv, [PooledNext]_pooledVars
               PROVE  (CriticalInv /\ FreshInv)'
    OBVIOUS
  <2>1. ASSUME [Next]_vars PROVE (CriticalInv /\ FreshInv)'
    BY <2>1, CriticalStep, FreshStep DEF PooledInv
  <2>2. ASSUME NEW q \in Requests, Starved(q) PROVE (CriticalInv /\ FreshInv)'
    BY <2>2, StarvedKeepsLock DEF PooledInv
  <2> QED BY <2>1, <2>2, PooledStepIs
<1>3. PooledInv /\ CriticalInv /\ FreshInv => LockInv
  BY DEF PooledInv, LockInv
<1> QED BY <1>1, <1>2, <1>3, PooledInvariant, PTL DEF PooledSpec

\* The lock closes the window in a worker whose requests compete for connections, where
\* the lock is held on a connection of the pool and a wait for one may be cut short.
THEOREM PooledLockClosesWindow ==
    ASSUME Reliable PROVE PooledSpec => []InFlightAuthorized
<1>1. LockInv => InFlightAuthorized
  BY InFlightIsPermitted DEF InFlightAuthorized, InFlight
<1> QED BY <1>1, PooledLockInvariant, PTL

\* In such a worker, too, the pre_image of an audit row is the version that was replaced.
THEOREM PooledAuditedPreImage ==
    ASSUME Reliable PROVE PooledSpec => PreImageIsReplaced
<1> DEFINE Replaces ==
      \A q \in Requests :
         flight[q] = "sent" /\ flight'[q] = "applied" /\ ByIdMutation(req[q])
           => records[req[q].rid] = pre[q]
<1>1. LockInv => [Replaces]_vars
  BY InFlightIsFresh
<1> QED BY <1>1, PooledLockInvariant, PTL DEF PreImageIsReplaced
=============================================================================
