------------------------- MODULE OAuthRefreshProofs -------------------------
(***************************************************************************)
(* Proofs about OAuthRefresh, for any number of requests and logins, with  *)
(* and without row locks, with and without rotation of refresh tokens.     *)
(***************************************************************************)
EXTENDS OAuthRefresh, FiniteSetTheorems, TLAPS

(***************************************************************************)
(* The control flow, and versions: every writer writes once, one more than *)
(* the version it read.                                                    *)
(***************************************************************************)
Flow ==
    /\ \A q \in Requests :
          /\ req[q].phase # "idle" => req[q].seen # None
          /\ req[q].phase \in {"update", "store"} => req[q].reply # None
    /\ \A l \in Logins : login[l].phase # "idle" => login[l].seen # None

Updated == {q \in Requests : req[q].phase \in {"store", "done"}}
LoggedIn == {l \in Logins : login[l].phase = "done"}
Writes == Cardinality(Updated) + Cardinality(LoggedIn)

VersionInv ==
    /\ row.version <= 1 + Writes
    /\ \A q \in Requests : req[q].seen # None => req[q].seen.version <= 1 + Writes
    /\ \A l \in Logins : login[l].seen # None => login[l].seen.version <= 1 + Writes

(***************************************************************************)
(* As long as no login has gone by the version tells rows apart.           *)
(***************************************************************************)
FenceInv ==
    LoggedIn = {} =>
        \A q \in Requests : req[q].seen # None =>
            /\ req[q].seen.version <= row.version
            /\ req[q].seen.version = row.version => req[q].seen = row

(***************************************************************************)
(* Refresh tokens: where they are, and which of them the endpoint accepts. *)
(***************************************************************************)
Held == {row.refresh} \cup {req[q].seen.refresh : q \in {p \in Requests : req[p].seen # None}}
Pending == {q \in Requests : req[q].phase = "update"}
Reply(q) == req[q].reply.refresh

\* No token is ahead of the endpoint.
NotAhead ==
    /\ \A t \in Held : t[2] <= current[t[1]]
    /\ ~rotates => \A f \in Families : current[f] = 0

\* The answer to a refresh is accepted as long as it is not stored, because nobody
\* else has it; in each family at most one is on its way.
PendingInv ==
    /\ \A q \in Pending : Usable(Reply(q))
    /\ rotates => \A q \in Pending :
          /\ \A t \in Held : t[1] = Reply(q)[1] => t[2] < Reply(q)[2]
          /\ \A p \in Pending : Reply(p)[1] = Reply(q)[1] => p = q

\* A token that is rotated away was stored with one version only.
OneVersion ==
    rotates => \A q \in Requests :
        req[q].seen # None /\ req[q].seen.refresh = row.refresh =>
            req[q].seen.version = row.version

\* Nobody has a token of a consent to come.
FutureInv ==
    \A l \in Logins : login[l].phase # "done" =>
        /\ current[l] = 0
        /\ \A t \in Held : t[1] # l
        /\ \A q \in Pending : Reply(q)[1] # l

TokenInv == NotAhead /\ PendingInv /\ OneVersion /\ FutureInv

\* What holds whatever consents bring, and with it what needs their refresh tokens.
RowInv == TypeOK /\ Flow /\ VersionInv /\ FenceInv
IInv == RowInv /\ TokenInv /\ StoredTokenIsUsable

(***************************************************************************)
(* What the steps of a request do, but for its place in the code.          *)
(***************************************************************************)
Same(q) == req'[q].seen = req[q].seen /\ req'[q].reply = req[q].reply

Loads(q) ==
    /\ req[q].phase = "idle" /\ req'[q].phase = "cache"
    /\ req'[q].seen = row /\ UNCHANGED <<row, current, lost>>

Quiet(q) ==
    /\ req[q].phase \notin {"idle", "update"} /\ req'[q].phase \in {"lock", "grant", "done"}
    /\ req[q].phase = "store" => req'[q].phase = "done"
    /\ req[q].phase # "done"
    /\ Same(q) /\ UNCHANGED <<row, current, lost>>

Refreshes(q) ==
    /\ req[q].phase = "grant" /\ req'[q].phase = "update" /\ req'[q].reply \in Replies
    /\ req'[q].seen = req[q].seen
    /\ Exchange(req[q].seen.refresh, req'[q].reply.refresh)
    /\ UNCHANGED <<row, lost>>

Loses(q) ==
    /\ req[q].phase = "grant" /\ req'[q].phase = "done" /\ Same(q)
    /\ \E next \in RefreshTokens : Exchange(req[q].seen.refresh, next)
    /\ lost' = lost \cup {req[q].seen.refresh[1]} /\ UNCHANGED row

Updates(q) ==
    /\ req[q].phase = "update" /\ req'[q].phase = "store" /\ Same(q)
    /\ row' = IF Fenced(q) THEN Stored(req[q].seen, req[q].reply) ELSE row
    /\ UNCHANGED <<current, lost>>

\* Every step of a request is one of these, and its own.
LEMMA RequestStep ==
    ASSUME TypeOK, NEW q \in Requests, Load(q) \/ Continue(q)
    PROVE  /\ \A p \in Requests \ {q} : req'[p] = req[p]
           /\ UNCHANGED <<locking, rotates, login>>
           /\ Loads(q) \/ Quiet(q) \/ Refreshes(q) \/ Loses(q) \/ Updates(q)
<1>t. req \in [Requests -> ReqStates] /\ req[q] \in ReqStates
  BY DEF TypeOK
<1>1. ASSUME NEW phase, req' = [req EXCEPT ![q].phase = phase]
      PROVE  /\ req'[q].phase = phase /\ Same(q)
             /\ \A p \in Requests \ {q} : req'[p] = req[p]
  BY <1>1, <1>t DEF ReqStates, Same
<1>2. ASSUME NEW phase, NEW result, req' = [req EXCEPT ![q].phase = phase, ![q].result = result]
      PROVE  /\ req'[q].phase = phase /\ Same(q)
             /\ \A p \in Requests \ {q} : req'[p] = req[p]
  BY <1>2, <1>t DEF ReqStates, Same
<1> DEFINE Goal == /\ \A p \in Requests \ {q} : req'[p] = req[p]
                   /\ UNCHANGED <<locking, rotates, login>>
                   /\ Loads(q) \/ Quiet(q) \/ Refreshes(q) \/ Loses(q) \/ Updates(q)
<1>3. CASE Load(q)
  BY <1>3, <1>t DEF Load, Loads, ReqStates
<1>4. CASE CacheHit(q)
  BY <1>4, <1>2 DEF CacheHit, Quiet
<1>5. CASE CacheMiss(q)
  BY <1>5, <1>1 DEF CacheMiss, Quiet
<1>6. CASE LockRow(q)
  BY <1>6, <1>1 DEF LockRow, Quiet
<1>7. CASE CompareRaises(q)
  BY <1>7, <1>2 DEF CompareRaises, Quiet
<1>8. CASE Refresh(q)
  <2>1. PICK next \in RefreshTokens, e \in ExpiresIn :
           /\ Exchange(req[q].seen.refresh, next)
           /\ req' = [req EXCEPT ![q].phase = "update",
                                 ![q].reply = [refresh |-> next, expires |-> e]]
    BY <1>8 DEF Refresh
  <2>2. /\ req'[q].phase = "update" /\ req'[q].seen = req[q].seen
        /\ req'[q].reply = [refresh |-> next, expires |-> e]
        /\ \A p \in Requests \ {q} : req'[p] = req[p]
    BY <2>1, <1>t DEF ReqStates
  <2>3. req'[q].reply \in Replies /\ req'[q].reply.refresh = next
    BY <2>2, OAuthAssumption DEF Replies
  <2> QED BY <1>8, <2>1, <2>2, <2>3 DEF Refresh, Refreshes
<1>9. CASE RefreshRefused(q)
  BY <1>9, <1>2 DEF RefreshRefused, Quiet
<1>10. CASE RefreshLost(q)
  BY <1>10, <1>2 DEF RefreshLost, Loses
<1>11. CASE UpdateRow(q)
  BY <1>11, <1>1 DEF UpdateRow, Updates
<1>12. CASE StoreCache(q)
  BY <1>12, <1>2 DEF StoreCache, Quiet
<1> HIDE DEF Goal
<1>g. Goal
  BY <1>3, <1>4, <1>5, <1>6, <1>7, <1>8, <1>9, <1>10, <1>11, <1>12 DEF Continue, Goal
<1> QED BY <1>g DEF Goal

\* What the steps of a login do.
LEMMA LoginStep ==
    ASSUME TypeOK, NEW l \in Logins, LoginRead(l) \/ LoginCommit(l)
    PROVE  /\ \A k \in Logins \ {l} : login'[k] = login[k]
           /\ UNCHANGED <<locking, rotates, current, lost, req>>
           /\ \/ /\ login[l].phase = "idle" /\ login'[l].phase = "read"
                 /\ login'[l].seen = row /\ UNCHANGED row
              \/ /\ login[l].phase = "read" /\ login'[l].phase = "done"
                 /\ login'[l].seen = login[l].seen
                 /\ \E e \in ExpiresIn, offline \in Offline :
                       row' = [refresh |-> IF offline THEN <<l, 0>> ELSE row.refresh,
                               expires |-> e, version |-> login[l].seen.version + 1]
<1>t. login \in [Logins -> LoginStates] /\ login[l] \in LoginStates
  BY DEF TypeOK
<1>1. CASE LoginRead(l)
  BY <1>1, <1>t DEF LoginRead, LoginStates
<1>2. CASE LoginCommit(l)
  BY <1>2, <1>t DEF LoginCommit, LoginStates
<1> QED BY <1>1, <1>2

(***************************************************************************)
(* Versions and types.                                                     *)
(***************************************************************************)
\* A set that grows gains at least one element, if it gains any.
LEMMA GrowingCardinality ==
    ASSUME NEW T, IsFiniteSet(T), NEW S \in SUBSET T
    PROVE  /\ Cardinality(S) \in Nat /\ Cardinality(T) \in Nat
           /\ Cardinality(S) <= Cardinality(T)
           /\ \A x \in T \ S : Cardinality(S) + 1 <= Cardinality(T)
<1>1. IsFiniteSet(S)
  BY FS_Subset
<1>2. ASSUME NEW x \in T \ S PROVE Cardinality(S) + 1 <= Cardinality(T)
  <2>1. Cardinality(S \cup {x}) = Cardinality(S) + 1
    BY <1>1, FS_AddElement
  <2>2. S \cup {x} \in SUBSET T
    OBVIOUS
  <2> QED BY <2>1, <2>2, FS_Subset
<1> QED BY <1>1, <1>2, FS_Subset, FS_CardinalityType

\* There are no more writes than requests and logins.
LEMMA WritesBound ==
    /\ Writes \in Nat /\ Cardinality(Requests) \in Nat /\ Cardinality(Logins) \in Nat
    /\ Writes <= Cardinality(Requests) + Cardinality(Logins)
    /\ (\E q \in Requests : q \notin Updated) \/ (\E l \in Logins : l \notin LoggedIn) =>
          Writes + 1 <= Cardinality(Requests) + Cardinality(Logins)
<1>1. Updated \in SUBSET Requests /\ LoggedIn \in SUBSET Logins
  BY DEF Updated, LoggedIn
<1>2. /\ Cardinality(Updated) \in Nat /\ Cardinality(Requests) \in Nat
      /\ Cardinality(Updated) <= Cardinality(Requests)
      /\ \A q \in Requests \ Updated : Cardinality(Updated) + 1 <= Cardinality(Requests)
  BY <1>1, OAuthAssumption, GrowingCardinality
<1>3. /\ Cardinality(LoggedIn) \in Nat /\ Cardinality(Logins) \in Nat
      /\ Cardinality(LoggedIn) <= Cardinality(Logins)
      /\ \A l \in Logins \ LoggedIn : Cardinality(LoggedIn) + 1 <= Cardinality(Logins)
  BY <1>1, OAuthAssumption, GrowingCardinality
<1> QED BY <1>2, <1>3 DEF Writes

\* Writes are never undone, and each of them counts.
LEMMA WritesGrow ==
    ASSUME TypeOK, [Next]_vars
    PROVE  /\ Writes \in Nat /\ Writes' \in Nat /\ Writes <= Writes'
           /\ \A q \in Requests : q \notin Updated /\ q \in Updated' => Writes + 1 <= Writes'
           /\ \A l \in Logins : l \notin LoggedIn /\ l \in LoggedIn' => Writes + 1 <= Writes'
<1>1. Updated \in SUBSET Updated' /\ LoggedIn \in SUBSET LoggedIn'
  <2>1. ASSUME NEW q \in Requests, Load(q) \/ Continue(q)
        PROVE  Updated \in SUBSET Updated' /\ LoggedIn \in SUBSET LoggedIn'
    BY <2>1, RequestStep DEF Loads, Quiet, Refreshes, Loses, Updates, Updated, LoggedIn
  <2>2. ASSUME NEW l \in Logins, LoginRead(l) \/ LoginCommit(l)
        PROVE  Updated \in SUBSET Updated' /\ LoggedIn \in SUBSET LoggedIn'
    BY <2>2, LoginStep DEF Updated, LoggedIn
  <2>3. CASE UNCHANGED vars
    BY <2>3 DEF vars, Updated, LoggedIn
  <2> QED BY <2>1, <2>2, <2>3 DEF Next
<1>2. IsFiniteSet(Updated') /\ IsFiniteSet(LoggedIn')
  <2>1. Updated' \in SUBSET Requests /\ LoggedIn' \in SUBSET Logins
    BY DEF Updated, LoggedIn
  <2> QED BY <2>1, OAuthAssumption, FS_Subset
<1>3. /\ Cardinality(Updated) \in Nat /\ Cardinality(Updated') \in Nat
      /\ Cardinality(Updated) <= Cardinality(Updated')
      /\ \A q \in Updated' \ Updated : Cardinality(Updated) + 1 <= Cardinality(Updated')
  BY <1>1, <1>2, GrowingCardinality
<1>4. /\ Cardinality(LoggedIn) \in Nat /\ Cardinality(LoggedIn') \in Nat
      /\ Cardinality(LoggedIn) <= Cardinality(LoggedIn')
      /\ \A l \in LoggedIn' \ LoggedIn : Cardinality(LoggedIn) + 1 <= Cardinality(LoggedIn')
  BY <1>1, <1>2, GrowingCardinality
<1>5. Writes = Cardinality(Updated) + Cardinality(LoggedIn)
      /\ Writes' = Cardinality(Updated') + Cardinality(LoggedIn')
  BY DEF Writes
<1> QED BY <1>3, <1>4, <1>5

\* The version a writer writes is one a row can have.
LEMMA NextVersion ==
    ASSUME NEW seen \in Rows, seen.version <= 1 + Writes,
           (\E q \in Requests : q \notin Updated) \/ (\E l \in Logins : l \notin LoggedIn)
    PROVE  seen.version \in Nat /\ seen.version + 1 \in Versions
<1>1. seen.version \in Versions
  BY DEF Rows
<1> QED BY <1>1, WritesBound DEF Versions

\* A step keeps the control flow.
LEMMA FlowStep == TypeOK /\ Flow /\ [Next]_vars => Flow'
<1> SUFFICES ASSUME TypeOK, Flow, [Next]_vars PROVE Flow'
  OBVIOUS
<1>1. ASSUME NEW q \in Requests, Load(q) \/ Continue(q) PROVE Flow'
  <2>1. row # None /\ None \notin Replies
    BY NoneAssumption DEF TypeOK
  <2> QED BY <1>1, <2>1, RequestStep DEF Flow, Loads, Quiet, Refreshes, Loses, Updates, Same
<1>2. ASSUME NEW l \in Logins, LoginRead(l) \/ LoginCommit(l) PROVE Flow'
  BY <1>2, LoginStep, NoneAssumption DEF Flow, TypeOK
<1>3. CASE UNCHANGED vars
  BY <1>3 DEF vars, Flow
<1> QED BY <1>1, <1>2, <1>3 DEF Next

\* A step keeps versions within the number of writes.
LEMMA VersionStep == TypeOK /\ Flow /\ VersionInv /\ [Next]_vars => VersionInv'
<1> SUFFICES ASSUME TypeOK, Flow, VersionInv, [Next]_vars PROVE VersionInv'
  OBVIOUS
<1>g. Writes \in Nat /\ Writes' \in Nat /\ Writes <= Writes'
  BY WritesGrow
<1>n. ASSUME NEW r \in Rows PROVE r.version \in Nat
  BY WritesBound DEF Rows, Versions
<1>1. /\ row.version <= 1 + Writes'
      /\ \A q \in Requests : req[q].seen # None => req[q].seen.version <= 1 + Writes'
      /\ \A l \in Logins : login[l].seen # None => login[l].seen.version <= 1 + Writes'
  <2>1. row.version \in Nat /\ row.version <= 1 + Writes
    BY <1>n DEF TypeOK, VersionInv
  <2>2. \A q \in Requests : req[q].seen # None =>
           req[q].seen.version \in Nat /\ req[q].seen.version <= 1 + Writes
    BY <1>n DEF TypeOK, ReqStates, VersionInv
  <2>3. \A l \in Logins : login[l].seen # None =>
           login[l].seen.version \in Nat /\ login[l].seen.version <= 1 + Writes
    BY <1>n DEF TypeOK, LoginStates, VersionInv
  <2> QED BY <1>g, <2>1, <2>2, <2>3
<1>2. ASSUME NEW q \in Requests, Load(q) \/ Continue(q) PROVE VersionInv'
  <2>1. \A p \in Requests : req'[p].seen \in {req[p].seen, row}
    BY <1>2, RequestStep DEF Loads, Quiet, Refreshes, Loses, Updates, Same
  <2>2. UNCHANGED login
    BY <1>2, RequestStep
  <2>3. row'.version <= 1 + Writes'
    <3>1. CASE row' = row
      BY <1>1, <3>1
    <3>2. CASE row' # row
      <4>1. Updates(q) /\ row' = Stored(req[q].seen, req[q].reply)
        BY <1>2, <3>2, RequestStep DEF Loads, Quiet, Refreshes, Loses, Updates
      <4>2. req[q].seen \in Rows /\ req[q].seen.version <= 1 + Writes
        BY <4>1 DEF Updates, Flow, TypeOK, ReqStates, VersionInv
      <4>3. Writes + 1 <= Writes'
        BY <4>1, WritesGrow DEF Updates, Updated
      <4>4. row'.version = req[q].seen.version + 1 /\ req[q].seen.version \in Nat
        BY <4>1, <4>2, <1>n DEF Stored
      <4> QED BY <1>g, <4>2, <4>3, <4>4
    <3> QED BY <3>1, <3>2
  <2> QED BY <1>1, <2>1, <2>2, <2>3 DEF VersionInv
<1>3. ASSUME NEW l \in Logins, LoginRead(l) \/ LoginCommit(l) PROVE VersionInv'
  <2>1. UNCHANGED req /\ \A k \in Logins : login'[k].seen \in {login[k].seen, row}
    BY <1>3, LoginStep
  <2>2. row'.version <= 1 + Writes'
    <3>1. CASE row' = row
      BY <1>1, <3>1
    <3>2. CASE row' # row
      <4>1. /\ login[l].phase = "read" /\ login'[l].phase = "done"
            /\ row'.version = login[l].seen.version + 1
        BY <1>3, <3>2, LoginStep
      <4>2. login[l].seen \in Rows /\ login[l].seen.version <= 1 + Writes
        BY <4>1 DEF Flow, TypeOK, LoginStates, VersionInv
      <4>3. Writes + 1 <= Writes'
        BY <4>1, WritesGrow DEF LoggedIn
      <4>4. login[l].seen.version \in Nat
        BY <4>2, <1>n
      <4> QED BY <1>g, <4>1, <4>2, <4>3, <4>4
    <3> QED BY <3>1, <3>2
  <2> QED BY <1>1, <2>1, <2>2 DEF VersionInv
<1>4. CASE UNCHANGED vars
  BY <1>1, <1>4 DEF vars, VersionInv
<1> QED BY <1>2, <1>3, <1>4 DEF Next

Phases == {"idle", "cache", "lock", "grant", "update", "store", "done"}

\* Assignments to the state of a request keep its type.
LEMMA ReqUpdateType ==
    ASSUME req \in [Requests -> ReqStates], NEW q \in Requests
    PROVE  /\ \A ph \in Phases : [req EXCEPT ![q].phase = ph] \in [Requests -> ReqStates]
           /\ \A ph \in Phases, r \in {"ok", "error"} :
                 [req EXCEPT ![q].phase = ph, ![q].result = r] \in [Requests -> ReqStates]
           /\ \A ph \in Phases, r \in Rows :
                 [req EXCEPT ![q].phase = ph, ![q].seen = r] \in [Requests -> ReqStates]
           /\ \A ph \in Phases, r \in Replies :
                 [req EXCEPT ![q].phase = ph, ![q].reply = r] \in [Requests -> ReqStates]
<1>t. req[q] \in ReqStates
  OBVIOUS
<1>1. \A r \in ReqStates : [req EXCEPT ![q] = r] \in [Requests -> ReqStates]
  OBVIOUS
<1>2. ASSUME NEW ph \in Phases PROVE [req[q] EXCEPT !.phase = ph] \in ReqStates
  BY <1>t DEF ReqStates, Phases
<1>3. ASSUME NEW ph \in Phases, NEW r \in {"ok", "error"}
      PROVE  [req[q] EXCEPT !.phase = ph, !.result = r] \in ReqStates
  BY <1>t DEF ReqStates, Phases
<1>4. ASSUME NEW ph \in Phases, NEW r \in Rows
      PROVE  [req[q] EXCEPT !.phase = ph, !.seen = r] \in ReqStates
  BY <1>t DEF ReqStates, Phases
<1>5. ASSUME NEW ph \in Phases, NEW r \in Replies
      PROVE  [req[q] EXCEPT !.phase = ph, !.reply = r] \in ReqStates
  BY <1>t DEF ReqStates, Phases
<1>6. ASSUME NEW ph \in Phases
      PROVE  [req EXCEPT ![q].phase = ph] \in [Requests -> ReqStates]
  <2>1. [req EXCEPT ![q].phase = ph] = [req EXCEPT ![q] = [req[q] EXCEPT !.phase = ph]]
    OBVIOUS
  <2> QED BY <2>1, <1>1, <1>2
<1>7. ASSUME NEW ph \in Phases, NEW r \in {"ok", "error"}
      PROVE  [req EXCEPT ![q].phase = ph, ![q].result = r] \in [Requests -> ReqStates]
  <2>1. [req EXCEPT ![q].phase = ph, ![q].result = r]
          = [req EXCEPT ![q] = [req[q] EXCEPT !.phase = ph, !.result = r]]
    OBVIOUS
  <2> QED BY <2>1, <1>1, <1>3
<1>8. ASSUME NEW ph \in Phases, NEW r \in Rows
      PROVE  [req EXCEPT ![q].phase = ph, ![q].seen = r] \in [Requests -> ReqStates]
  <2>1. [req EXCEPT ![q].phase = ph, ![q].seen = r]
          = [req EXCEPT ![q] = [req[q] EXCEPT !.phase = ph, !.seen = r]]
    OBVIOUS
  <2> QED BY <2>1, <1>1, <1>4
<1>9. ASSUME NEW ph \in Phases, NEW r \in Replies
      PROVE  [req EXCEPT ![q].phase = ph, ![q].reply = r] \in [Requests -> ReqStates]
  <2>1. [req EXCEPT ![q].phase = ph, ![q].reply = r]
          = [req EXCEPT ![q] = [req[q] EXCEPT !.phase = ph, !.reply = r]]
    OBVIOUS
  <2> QED BY <2>1, <1>1, <1>5
<1> QED BY <1>6, <1>7, <1>8, <1>9

\* What the endpoint accepts next is a number of refresh tokens.
LEMMA ExchangeType ==
    ASSUME current \in [Families -> Generations], NEW t \in RefreshTokens,
           NEW next \in RefreshTokens, Exchange(t, next)
    PROVE  current' \in [Families -> Generations]
<1>1. t[1] \in Families /\ next[2] \in Generations
  BY DEF RefreshTokens
<1> QED BY <1>1 DEF Exchange

\* A step of a request keeps the types.
LEMMA RequestType ==
    ASSUME TypeOK, Flow, VersionInv, NEW q \in Requests, Load(q) \/ Continue(q)
    PROVE  TypeOK'
<1>t. /\ req \in [Requests -> ReqStates] /\ req[q] \in ReqStates
      /\ locking \in BOOLEAN /\ rotates \in BOOLEAN /\ cached \in BOOLEAN /\ row \in Rows
      /\ rowLock \in Requests \cup {None} /\ current \in [Families -> Generations]
      /\ lost \subseteq Families /\ login \in [Logins -> LoginStates]
  BY DEF TypeOK
<1>s. /\ req[q].phase # "idle" => req[q].seen \in Rows
      /\ req[q].phase \in {"update", "store"} => req[q].reply \in Replies
  BY <1>t DEF Flow, ReqStates
<1>r. req[q].phase # "idle" => req[q].seen.refresh \in RefreshTokens
  BY <1>s DEF Rows
<1>u. Unlocked \in Requests \cup {None}
  BY <1>t DEF Unlocked
<1>p. {"cache", "lock", "grant", "update", "store", "done"} \subseteq Phases
  BY DEF Phases
<1>1. CASE Load(q)
  BY <1>1, <1>t, <1>p, ReqUpdateType DEF Load, TypeOK
<1>2. CASE CacheHit(q)
  BY <1>2, <1>t, <1>p, ReqUpdateType DEF CacheHit, TypeOK
<1>3. CASE CacheMiss(q)
  BY <1>3, <1>t, <1>p, ReqUpdateType DEF CacheMiss, TypeOK
<1>4. CASE LockRow(q)
  BY <1>4, <1>t, <1>p, ReqUpdateType DEF LockRow, TypeOK
<1>5. CASE CompareRaises(q)
  BY <1>5, <1>t, <1>p, ReqUpdateType DEF CompareRaises, TypeOK
<1>6. CASE Refresh(q)
  <2>1. PICK next \in RefreshTokens, e \in ExpiresIn :
           /\ Exchange(req[q].seen.refresh, next)
           /\ req' = [req EXCEPT ![q].phase = "update",
                                 ![q].reply = [refresh |-> next, expires |-> e]]
    BY <1>6 DEF Refresh
  <2>2. [refresh |-> next, expires |-> e] \in Replies
    BY OAuthAssumption DEF Replies
  <2>3. req' \in [Requests -> ReqStates]
    BY <2>1, <2>2, <1>t, <1>p, ReqUpdateType
  <2>4. current' \in [Families -> Generations]
    BY <1>6, <1>r, <1>t, <2>1, ExchangeType DEF Refresh
  <2> QED BY <1>6, <1>t, <2>3, <2>4 DEF Refresh, TypeOK
<1>7. CASE RefreshRefused(q)
  BY <1>7, <1>t, <1>p, <1>u, ReqUpdateType DEF RefreshRefused, TypeOK
<1>8. CASE RefreshLost(q)
  <2>1. current' \in [Families -> Generations]
    BY <1>8, <1>r, <1>t, ExchangeType DEF RefreshLost
  <2>2. req[q].seen.refresh[1] \in Families
    BY <1>8, <1>r DEF RefreshLost, RefreshTokens
  <2>3. req' \in [Requests -> ReqStates]
    BY <1>8, <1>t, <1>p, ReqUpdateType DEF RefreshLost
  <2> QED BY <1>8, <1>t, <1>u, <2>1, <2>2, <2>3 DEF RefreshLost, TypeOK
<1>9. CASE UpdateRow(q)
  <2>1. row' \in Rows
    <3>1. /\ req[q].seen \in Rows /\ req[q].seen.version <= 1 + Writes
          /\ req[q].reply \in Replies
      BY <1>9, <1>s, NoneAssumption DEF UpdateRow, VersionInv
    <3>2. q \notin Updated
      BY <1>9 DEF UpdateRow, Updated
    <3>3. req[q].seen.version + 1 \in Versions
      BY <3>1, <3>2, NextVersion
    <3>4. Stored(req[q].seen, req[q].reply) \in Rows
      BY <3>1, <3>3 DEF Stored, Rows, Replies
    <3> QED BY <1>9, <1>t, <3>4 DEF UpdateRow
  <2>2. req' \in [Requests -> ReqStates]
    BY <1>9, <1>t, <1>p, ReqUpdateType DEF UpdateRow
  <2> QED BY <1>9, <1>t, <1>u, <2>1, <2>2 DEF UpdateRow, TypeOK
<1>10. CASE StoreCache(q)
  <2>1. req[q].reply.expires \in BOOLEAN
    BY <1>10, <1>s DEF StoreCache, Replies
  <2>2. cached' \in BOOLEAN
    BY <1>10, <1>t, <2>1 DEF StoreCache
  <2>3. req' \in [Requests -> ReqStates]
    BY <1>10, <1>t, <1>p, ReqUpdateType DEF StoreCache
  <2> QED BY <1>10, <1>t, <2>2, <2>3 DEF StoreCache, TypeOK
<1> QED BY <1>1, <1>2, <1>3, <1>4, <1>5, <1>6, <1>7, <1>8, <1>9, <1>10 DEF Continue

\* Every step does.
LEMMA TypeStep == TypeOK /\ Flow /\ VersionInv /\ [Next]_vars => TypeOK'
<1> SUFFICES ASSUME TypeOK, Flow, VersionInv, [Next]_vars PROVE TypeOK'
  OBVIOUS
<1>1. ASSUME NEW q \in Requests, Load(q) \/ Continue(q) PROVE TypeOK'
  BY <1>1, RequestType
<1>2. ASSUME NEW l \in Logins, LoginRead(l) \/ LoginCommit(l) PROVE TypeOK'
  <2>t. login \in [Logins -> LoginStates] /\ login[l] \in LoginStates /\ row \in Rows
    BY DEF TypeOK
  <2>1. CASE LoginRead(l)
    <3>1. [login[l] EXCEPT !.phase = "read", !.seen = row] \in LoginStates
      BY <2>t DEF LoginStates
    <3>2. login' = [login EXCEPT ![l] = [login[l] EXCEPT !.phase = "read", !.seen = row]]
      BY <2>1 DEF LoginRead
    <3>3. login' \in [Logins -> LoginStates]
      BY <2>t, <3>1, <3>2
    <3> QED BY <2>1, <3>3 DEF LoginRead, TypeOK
  <2>2. CASE LoginCommit(l)
    <3>1. [login[l] EXCEPT !.phase = "done"] \in LoginStates
      BY <2>t DEF LoginStates
    <3>2. login' = [login EXCEPT ![l] = [login[l] EXCEPT !.phase = "done"]]
      BY <2>2 DEF LoginCommit
    <3>3. login' \in [Logins -> LoginStates]
      BY <2>t, <3>1, <3>2
    <3>4. PICK e \in ExpiresIn, offline \in Offline :
             row' = [refresh |-> IF offline THEN <<l, 0>> ELSE row.refresh, expires |-> e,
                     version |-> login[l].seen.version + 1]
      BY <2>2 DEF LoginCommit
    <3>5. login[l].seen.version + 1 \in Versions
      <4>1. login[l].seen \in Rows /\ login[l].seen.version <= 1 + Writes
        BY <2>2, <2>t DEF LoginCommit, LoginStates, Flow, VersionInv
      <4>2. l \notin LoggedIn
        BY <2>2 DEF LoginCommit, LoggedIn
      <4> QED BY <4>1, <4>2, NextVersion
    <3>6. <<l, 0>> \in RefreshTokens /\ row.refresh \in RefreshTokens /\ e \in BOOLEAN
      BY <2>t, WritesBound, OAuthAssumption DEF RefreshTokens, Families, Generations, Rows
    <3>7. row' \in Rows
      BY <3>4, <3>5, <3>6 DEF Rows
    <3> QED BY <2>2, <3>3, <3>7 DEF LoginCommit, TypeOK
  <2> QED BY <1>2, <2>1, <2>2
<1>3. CASE UNCHANGED vars
  BY <1>3 DEF vars, TypeOK
<1> QED BY <1>1, <1>2, <1>3 DEF Next

(***************************************************************************)
(* The fence.                                                              *)
(***************************************************************************)
LEMMA FenceStep == TypeOK /\ Flow /\ FenceInv /\ [Next]_vars => FenceInv'
<1> SUFFICES ASSUME TypeOK, Flow, FenceInv, [Next]_vars, LoggedIn' = {}
             PROVE  (\A q \in Requests : req[q].seen # None =>
                        /\ req[q].seen.version <= row.version
                        /\ req[q].seen.version = row.version => req[q].seen = row)'
  BY DEF FenceInv
<1>n. ASSUME NEW r \in Rows PROVE r.version \in Nat
  BY WritesBound DEF Rows, Versions
<1>v. row.version \in Nat /\ \A q \in Requests : req[q].seen # None => req[q].seen.version \in Nat
  BY <1>n DEF TypeOK, ReqStates
<1>1. ASSUME NEW q \in Requests, Load(q) \/ Continue(q)
      PROVE  (\A p \in Requests : req[p].seen # None =>
                        /\ req[p].seen.version <= row.version
                        /\ req[p].seen.version = row.version => req[p].seen = row)'
  <2>0. \A p \in Requests : req[p].seen # None =>
            /\ req[p].seen.version <= row.version
            /\ req[p].seen.version = row.version => req[p].seen = row
    <3>1. UNCHANGED login
      BY <1>1, RequestStep
    <3> QED BY <3>1 DEF FenceInv, LoggedIn
  <2>1. \A p \in Requests : req'[p].seen \in {req[p].seen, row}
    BY <1>1, RequestStep DEF Loads, Quiet, Refreshes, Loses, Updates, Same
  <2>2. CASE row' = row
    BY <1>v, <2>0, <2>1, <2>2
  <2>3. CASE row' # row
    <3>1. Updates(q) /\ Fenced(q) /\ row' = Stored(req[q].seen, req[q].reply)
      BY <1>1, <2>3, RequestStep DEF Loads, Quiet, Refreshes, Loses, Updates
    <3>2. row'.version = row.version + 1
      BY <3>1 DEF Fenced, Stored
    <3>3. \A p \in Requests : req'[p].seen = req[p].seen
      BY <1>1, <3>1, RequestStep DEF Updates, Same
    <3> QED BY <1>v, <2>0, <3>2, <3>3
  <2> QED BY <2>2, <2>3
<1>2. ASSUME NEW l \in Logins, LoginRead(l) \/ LoginCommit(l)
      PROVE  (\A p \in Requests : req[p].seen # None =>
                        /\ req[p].seen.version <= row.version
                        /\ req[p].seen.version = row.version => req[p].seen = row)'
  <2>1. UNCHANGED <<row, req>> /\ LoggedIn = {}
    BY <1>2, LoginStep DEF LoggedIn
  <2> QED BY <2>1 DEF FenceInv
<1>3. CASE UNCHANGED vars
  BY <1>3 DEF vars, FenceInv, LoggedIn
<1> QED BY <1>1, <1>2, <1>3 DEF Next

(***************************************************************************)
(* Refresh tokens.                                                         *)
(***************************************************************************)
\* Tokens have a family and a number; those of replies and of rows that were read too.
LEMMA TokenTypes ==
    ASSUME TypeOK, Flow
    PROVE  /\ \A f \in Families : current[f] \in Nat
           /\ \A t \in Held : t = <<t[1], t[2]>> /\ t[1] \in Families /\ t[2] \in Nat
           /\ \A q \in Pending : /\ Reply(q) = <<Reply(q)[1], Reply(q)[2]>>
                                 /\ Reply(q)[1] \in Families /\ Reply(q)[2] \in Nat
           /\ \A q \in Requests : req[q].phase # "idle" =>
                 req[q].seen # None /\ req[q].seen.refresh \in Held
           /\ row.refresh \in Held
<1>1. \A t \in RefreshTokens : t = <<t[1], t[2]>> /\ t[1] \in Families /\ t[2] \in Nat
  BY WritesBound DEF RefreshTokens, Generations
<1>2. \A f \in Families : current[f] \in Nat
  BY WritesBound DEF TypeOK, Generations
<1>3. \A t \in Held : t \in RefreshTokens
  BY DEF Held, TypeOK, ReqStates, Rows
<1>4. \A q \in Pending : Reply(q) \in RefreshTokens
  BY DEF Pending, Reply, TypeOK, Flow, ReqStates, Replies
<1>5. \A q \in Requests : req[q].phase # "idle" =>
         req[q].seen # None /\ req[q].seen.refresh \in Held
  BY DEF Held, Flow
<1>6. row.refresh \in Held
  BY DEF Held
<1> QED BY <1>1, <1>2, <1>3, <1>4, <1>5, <1>6

\* While an answer is on its way its token is the newest of its family, which no one
\* else can refresh; an exchange leaves the other families alone.
LEMMA ExchangeStep ==
    ASSUME TypeOK, Flow, TokenInv, NEW t \in Held, NEW next \in RefreshTokens,
           Exchange(t, next), UNCHANGED rotates
    PROVE  /\ next[1] = t[1] /\ next[2] \in Nat /\ current'[t[1]] = next[2]
           /\ t[2] = current[t[1]] /\ next[2] = IF rotates THEN t[2] + 1 ELSE t[2]
           /\ \A f \in Families \ {t[1]} : current'[f] = current[f]
           /\ \A f \in Families : current'[f] \in Nat /\ current[f] <= current'[f]
           /\ \A q \in Pending : current'[Reply(q)[1]] = Reply(q)[2]
           /\ rotates => \A q \in Pending : Reply(q)[1] # t[1]
           /\ ~rotates => \A f \in Families : current'[f] = 0
<1>1. /\ \A f \in Families : current[f] \in Nat
      /\ t[1] \in Families /\ t[2] \in Nat
      /\ \A q \in Pending : Reply(q)[1] \in Families /\ Reply(q)[2] \in Nat
  BY TokenTypes
<1>2. current \in [Families -> Generations]
  BY DEF TypeOK
<1>3. /\ next[1] = t[1] /\ t[2] = current[t[1]]
      /\ next[2] = IF rotates THEN t[2] + 1 ELSE t[2]
  BY DEF Exchange
<1>4. current'[t[1]] = next[2] /\ \A f \in Families \ {t[1]} : current'[f] = current[f]
  BY <1>1, <1>2 DEF Exchange
<1>5. rotates => \A q \in Pending : Reply(q)[1] # t[1]
  BY <1>1, <1>3 DEF TokenInv, PendingInv, Usable
<1>6. ~rotates => \A f \in Families : current'[f] = current[f]
  BY <1>3, <1>4
<1>7. \A q \in Pending : current'[Reply(q)[1]] = Reply(q)[2]
  BY <1>1, <1>4, <1>5, <1>6 DEF TokenInv, PendingInv, Usable
<1>8. \A f \in Families : current'[f] \in Nat /\ current[f] <= current'[f]
  BY <1>1, <1>3, <1>4
<1> QED BY <1>1, <1>3, <1>4, <1>5, <1>6, <1>7, <1>8 DEF TokenInv, NotAhead

\* A step in which no token comes up and no answer arrives.
LEMMA TokenFrame ==
    ASSUME TypeOK, Flow, TokenInv, UNCHANGED <<rotates, row, current>>,
           Held' \subseteq Held, Pending' \subseteq Pending,
           \A q \in Pending' : Reply(q)' = Reply(q),
           \A q \in Requests : req'[q].seen \in {req[q].seen, row},
           \A l \in Logins : login[l].phase = "done" => login'[l].phase = "done"
    PROVE  TokenInv'
<1>1. NotAhead'
  BY DEF TokenInv, NotAhead
<1>2. PendingInv'
  BY DEF TokenInv, PendingInv, Usable
<1>3. OneVersion'
  BY DEF TokenInv, OneVersion
<1>4. FutureInv'
  BY DEF TokenInv, FutureInv
<1> QED BY <1>1, <1>2, <1>3, <1>4 DEF TokenInv

\* A request keeps what it holds about tokens, and what makes the stored one usable.
LEMMA RequestTokens ==
    ASSUME TypeOK, Flow, TokenInv, StoredTokenIsUsable,
           NEW q \in Requests, Load(q) \/ Continue(q)
    PROVE  TokenInv' /\ StoredTokenIsUsable'
<1>t. /\ \A f \in Families : current[f] \in Nat
      /\ \A t \in Held : t = <<t[1], t[2]>> /\ t[1] \in Families /\ t[2] \in Nat
      /\ \A p \in Pending : /\ Reply(p) = <<Reply(p)[1], Reply(p)[2]>>
                            /\ Reply(p)[1] \in Families /\ Reply(p)[2] \in Nat
      /\ req[q].phase # "idle" => req[q].seen # None /\ req[q].seen.refresh \in Held
      /\ row.refresh \in Held
  BY TokenTypes
<1>s. /\ \A p \in Requests \ {q} : req'[p] = req[p]
      /\ UNCHANGED <<locking, rotates, login>>
      /\ Loads(q) \/ Quiet(q) \/ Refreshes(q) \/ Loses(q) \/ Updates(q)
  BY RequestStep
<1>p. /\ \A p \in Requests \ {q} : Reply(p)' = Reply(p)
      /\ \A p \in Requests \ {q} : p \in Pending' <=> p \in Pending
  BY <1>s DEF Reply, Pending
<1>1. CASE Loads(q) \/ Quiet(q)
  <2>1. \A p \in Requests : req'[p].seen \in {req[p].seen, row}
    BY <1>s, <1>1 DEF Loads, Quiet, Same
  <2>2. UNCHANGED <<row, current, lost>>
    BY <1>1 DEF Loads, Quiet
  <2>3. Held' \subseteq Held
    BY <2>1, <2>2 DEF Held
  <2>4. Pending' = Pending
    <3>1. q \notin Pending /\ q \notin Pending'
      BY <1>1 DEF Loads, Quiet, Pending
    <3> QED BY <1>p, <3>1 DEF Pending
  <2>5. \A p \in Pending : req'[p] = req[p]
    BY <1>s, <1>1 DEF Loads, Quiet, Pending
  <2>6. TokenInv'
    BY <1>s, <2>1, <2>2, <2>3, <2>4, <2>5, TokenFrame DEF Reply
  <2>7. StoredTokenIsUsable'
    BY <2>2, <2>5 DEF StoredTokenIsUsable, Usable, Pending
  <2> QED BY <2>6, <2>7
<1>2. CASE Refreshes(q) \/ Loses(q)
  <2> DEFINE t == req[q].seen.refresh
  <2>1. t \in Held /\ UNCHANGED <<row, rotates>>
    BY <1>t, <1>s, <1>2 DEF Refreshes, Loses
  <2>2. PICK next \in RefreshTokens :
           /\ Exchange(t, next)
           /\ Refreshes(q) => next = Reply(q)'
    <3>1. CASE Refreshes(q)
      <4>1. Reply(q)' \in RefreshTokens
        BY <3>1 DEF Refreshes, Reply, Replies
      <4> QED BY <3>1, <4>1 DEF Refreshes, Reply
    <3>2. CASE Loses(q) /\ ~Refreshes(q)
      BY <3>2 DEF Loses
    <3> QED BY <1>2, <3>1, <3>2
  <2> HIDE DEF t
  <2>3. /\ next[1] = t[1] /\ next[2] \in Nat /\ current'[t[1]] = next[2]
        /\ t[2] = current[t[1]] /\ next[2] = IF rotates THEN t[2] + 1 ELSE t[2]
        /\ \A f \in Families \ {t[1]} : current'[f] = current[f]
        /\ \A f \in Families : current'[f] \in Nat /\ current[f] <= current'[f]
        /\ \A p \in Pending : current'[Reply(p)[1]] = Reply(p)[2]
        /\ rotates => \A p \in Pending : Reply(p)[1] # t[1]
        /\ ~rotates => \A f \in Families : current'[f] = 0
    BY <2>1, <2>2, ExchangeStep
  <2>4. \A p \in Requests : req'[p].seen = req[p].seen
    BY <1>s, <1>2 DEF Refreshes, Loses, Same
  <2>5. Held' = Held
    BY <2>1, <2>4 DEF Held
  <2>6. /\ q \notin Pending
        /\ \A p \in Pending' : p # q => p \in Pending /\ Reply(p)' = Reply(p)
        /\ q \in Pending' => Reply(q)' = next
    BY <1>p, <1>2, <2>2 DEF Refreshes, Loses, Pending
  <2>7. NotAhead'
    BY <1>t, <2>1, <2>3, <2>5 DEF TokenInv, NotAhead
  <2>8. PendingInv'
    <3>1. \A p \in Pending' : Usable(Reply(p))'
      BY <2>3, <2>6 DEF Usable
    <3>2. ASSUME rotates, NEW p \in Pending', NEW u \in Held, u[1] = Reply(p)'[1]
          PROVE  u[2] < Reply(p)'[2]
      <4>1. CASE p # q
        BY <2>6, <3>2, <4>1 DEF TokenInv, PendingInv
      <4>2. CASE p = q
        <5>1. Reply(p)' = next /\ u[2] \in Nat /\ t[2] \in Nat
          BY <1>t, <2>1, <2>6, <4>2
        <5>2. u[2] <= t[2] /\ next[2] = t[2] + 1
          BY <2>3, <3>2, <5>1 DEF TokenInv, NotAhead
        <5> QED BY <5>1, <5>2
      <4> QED BY <4>1, <4>2
    <3>3. ASSUME rotates, NEW p \in Pending', NEW r \in Pending', Reply(r)'[1] = Reply(p)'[1]
          PROVE  r = p
      <4>1. CASE p # q /\ r # q
        BY <2>6, <3>3, <4>1 DEF TokenInv, PendingInv
      <4>2. CASE p = q \/ r = q
        BY <2>3, <2>6, <3>3, <4>2
      <4> QED BY <4>1, <4>2
    <3> QED BY <2>1, <2>5, <3>1, <3>2, <3>3 DEF PendingInv
  <2>9. OneVersion'
    BY <2>1, <2>4 DEF TokenInv, OneVersion
  <2>10. FutureInv'
    <3>1. ASSUME NEW l \in Logins, login[l].phase # "done"
          PROVE  t[1] # l /\ l \in Families
      BY <2>1, <3>1 DEF TokenInv, FutureInv, Families
    <3> QED BY <1>s, <2>3, <2>5, <2>6, <3>1 DEF TokenInv, FutureInv
  <2>11. StoredTokenIsUsable'
    <3>1. CASE Usable(row.refresh) /\ row.refresh[1] # t[1]
      BY <1>t, <2>1, <2>3, <3>1 DEF Usable, StoredTokenIsUsable
    <3>2. CASE Usable(row.refresh) /\ row.refresh[1] = t[1] /\ ~rotates
      BY <1>t, <2>1, <2>3, <3>2 DEF Usable, StoredTokenIsUsable
    <3>3. CASE Usable(row.refresh) /\ row.refresh[1] = t[1] /\ rotates /\ Refreshes(q)
      <4>1. row.refresh = t
        BY <1>t, <2>1, <2>3, <3>3 DEF Usable
      <4>2. req[q].seen.version = row.version
        BY <1>t, <3>3, <4>1 DEF t, TokenInv, OneVersion, Refreshes
      <4>3. req'[q].phase = "update" /\ q \in Pending'
        BY <3>3 DEF Refreshes, Pending
      <4>4. Usable(req[q].reply.refresh)'
        BY <2>8, <4>3 DEF PendingInv, Reply
      <4> QED BY <2>1, <2>4, <4>2, <4>3, <4>4 DEF StoredTokenIsUsable
    <3>4. CASE Usable(row.refresh) /\ row.refresh[1] = t[1] /\ Loses(q)
      BY <2>1, <3>4 DEF Loses, t, StoredTokenIsUsable
    <3>5. CASE row.refresh[1] \in lost
      BY <1>2, <2>1, <3>5 DEF Loses, Refreshes, StoredTokenIsUsable
    <3>6. ASSUME NEW p \in Requests, req[p].phase = "update", Usable(req[p].reply.refresh),
                 req[p].seen.version = row.version
          PROVE  StoredTokenIsUsable'
      <4>1. p # q /\ req'[p] = req[p] /\ p \in Pending'
        BY <1>s, <1>2, <3>6 DEF Loses, Refreshes, Pending
      <4>2. Usable(req[p].reply.refresh)'
        BY <2>8, <4>1 DEF PendingInv, Reply
      <4> QED BY <2>1, <3>6, <4>1, <4>2 DEF StoredTokenIsUsable
    <3> QED BY <1>2, <3>1, <3>2, <3>3, <3>4, <3>5, <3>6 DEF StoredTokenIsUsable
  <2> QED BY <2>7, <2>8, <2>9, <2>10, <2>11 DEF TokenInv
<1>3. CASE Updates(q)
  <2>1. /\ q \in Pending /\ \A p \in Requests : req'[p].seen = req[p].seen
        /\ UNCHANGED <<rotates, current, lost>>
        /\ \A p \in Pending' : p \in Pending /\ p # q /\ Reply(p)' = Reply(p)
        /\ \A p \in Pending \ {q} : p \in Pending' /\ req'[p] = req[p]
    BY <1>s, <1>p, <1>3 DEF Updates, Same, Pending
  <2>2. CASE Fenced(q)
    <3>1. row'.refresh = Reply(q) /\ Usable(Reply(q))
      BY <1>3, <2>1, <2>2 DEF Updates, Stored, Reply, TokenInv, PendingInv
    <3>2. \A u \in Held' : u \in Held \/ u = Reply(q)
      BY <2>1, <3>1 DEF Held
    <3>3. NotAhead'
      BY <1>t, <2>1, <3>1, <3>2 DEF TokenInv, NotAhead, Usable
    <3>4. PendingInv'
      <4>1. \A p \in Pending' : Usable(Reply(p))'
        BY <2>1 DEF TokenInv, PendingInv, Usable
      <4>2. rotates => \A p \in Pending' : Reply(q)[1] # Reply(p)[1]
        BY <2>1 DEF TokenInv, PendingInv
      <4>3. ASSUME rotates, NEW p \in Pending', NEW u \in Held', u[1] = Reply(p)'[1]
            PROVE  u[2] < Reply(p)'[2]
        BY <2>1, <3>2, <4>2, <4>3 DEF TokenInv, PendingInv
      <4>4. rotates => \A p, r \in Pending' : Reply(r)'[1] = Reply(p)'[1] => r = p
        BY <2>1 DEF TokenInv, PendingInv
      <4> QED BY <2>1, <4>1, <4>3, <4>4 DEF PendingInv
    <3>5. OneVersion'
      <4>1. ASSUME rotates, NEW p \in Requests, req[p].seen # None,
                   req[p].seen.refresh = Reply(q)
            PROVE  FALSE
        <5>1. req[p].seen.refresh \in Held
          BY <4>1 DEF Held
        <5> QED BY <1>t, <2>1, <4>1, <5>1 DEF TokenInv, PendingInv
      <4> QED BY <2>1, <3>1, <4>1 DEF OneVersion
    <3>6. FutureInv'
      BY <1>s, <2>1, <3>2 DEF TokenInv, FutureInv
    <3>7. StoredTokenIsUsable'
      BY <2>1, <3>1 DEF StoredTokenIsUsable, Usable
    <3> QED BY <3>3, <3>4, <3>5, <3>6, <3>7 DEF TokenInv
  <2>3. CASE ~Fenced(q)
    <3>1. row' = row
      BY <1>3, <2>3 DEF Updates
    <3>2. Held' = Held
      BY <2>1, <3>1 DEF Held
    <3>3. TokenInv'
      BY <1>s, <2>1, <3>1, <3>2, TokenFrame
    <3>4. StoredTokenIsUsable'
      BY <2>1, <2>3, <3>1 DEF StoredTokenIsUsable, Usable, Fenced, Pending
    <3> QED BY <3>3, <3>4
  <2> QED BY <2>2, <2>3
<1> QED BY <1>s, <1>1, <1>2, <1>3

\* A login that brings a refresh token does too: the consent is new, and the endpoint
\* accepts its first token.
LEMMA LoginTokens ==
    ASSUME FALSE \notin Offline, TypeOK, Flow, TokenInv, StoredTokenIsUsable,
           NEW l \in Logins, LoginRead(l) \/ LoginCommit(l)
    PROVE  TokenInv' /\ StoredTokenIsUsable'
<1>t. /\ \A f \in Families : current[f] \in Nat
      /\ l \in Families
  BY TokenTypes DEF Families
<1>s. /\ \A k \in Logins \ {l} : login'[k] = login[k]
      /\ UNCHANGED <<locking, rotates, current, lost, req>>
      /\ \/ /\ login[l].phase = "idle" /\ login'[l].phase = "read"
            /\ login'[l].seen = row /\ UNCHANGED row
         \/ /\ login[l].phase = "read" /\ login'[l].phase = "done"
            /\ login'[l].seen = login[l].seen
            /\ \E e \in ExpiresIn, offline \in Offline :
                  row' = [refresh |-> IF offline THEN <<l, 0>> ELSE row.refresh,
                          expires |-> e, version |-> login[l].seen.version + 1]
  BY LoginStep
<1>p. Pending' = Pending /\ \A q \in Requests : Reply(q)' = Reply(q)
  BY <1>s DEF Pending, Reply
<1>1. CASE UNCHANGED row /\ login[l].phase = "idle"
  <2>1. Held' = Held
    BY <1>s, <1>1 DEF Held
  <2>2. TokenInv'
    BY <1>s, <1>p, <1>1, <2>1, TokenFrame DEF Pending
  <2>3. StoredTokenIsUsable'
    BY <1>s, <1>1 DEF StoredTokenIsUsable, Usable
  <2> QED BY <2>2, <2>3
<1>2. CASE login[l].phase = "read"
  <2>1. row'.refresh = <<l, 0>> /\ login'[l].phase = "done"
    <3>1. PICK e \in ExpiresIn, offline \in Offline :
             row' = [refresh |-> IF offline THEN <<l, 0>> ELSE row.refresh,
                     expires |-> e, version |-> login[l].seen.version + 1]
      BY <1>s, <1>2
    <3>2. offline = TRUE
      BY OAuthAssumption
    <3> QED BY <1>s, <1>2, <3>1, <3>2
  <2>2. \A u \in Held' : u \in Held \/ u = <<l, 0>>
    BY <1>s, <2>1 DEF Held
  <2>3. /\ current[l] = 0 /\ \A t \in Held : t[1] # l
        /\ \A q \in Pending : Reply(q)[1] # l
    BY <1>2 DEF TokenInv, FutureInv
  <2>4. NotAhead'
    BY <1>s, <2>2, <2>3 DEF TokenInv, NotAhead
  <2>5. PendingInv'
    BY <1>s, <1>p, <2>2, <2>3 DEF TokenInv, PendingInv, Usable, Pending
  <2>6. OneVersion'
    <3>1. \A q \in Requests : req[q].seen # None => req[q].seen.refresh # <<l, 0>>
      BY <2>3 DEF Held
    <3> QED BY <1>s, <2>1, <3>1 DEF OneVersion
  <2>7. FutureInv'
    BY <1>s, <1>p, <2>1, <2>2 DEF TokenInv, FutureInv, Pending
  <2>8. StoredTokenIsUsable'
    BY <1>s, <2>1, <2>3 DEF StoredTokenIsUsable, Usable
  <2> QED BY <2>4, <2>5, <2>6, <2>7, <2>8 DEF TokenInv
<1> QED BY <1>s, <1>1, <1>2

(***************************************************************************)
(* Theorems.                                                               *)
(***************************************************************************)
LEMMA InitRowInv == Init => RowInv
<1> SUFFICES ASSUME Init PROVE RowInv
  OBVIOUS
<1> USE DEF Init
<1>0. <<First, 0>> \in RefreshTokens /\ 0 \in Generations /\ 1 \in Versions
  BY WritesBound DEF RefreshTokens, Families, Generations, Versions
<1>1. row \in Rows /\ row.version = 1
  BY <1>0, OAuthAssumption DEF Rows
<1>2. req \in [Requests -> ReqStates] /\ \A q \in Requests : req[q].seen = None
  BY DEF ReqStates
<1>3. login \in [Logins -> LoginStates] /\ \A l \in Logins : login[l].seen = None
  BY DEF LoginStates
<1>4. TypeOK
  BY <1>0, <1>1, <1>2, <1>3, OAuthAssumption DEF TypeOK
<1>5. Flow
  BY DEF Flow
<1>6. VersionInv
  BY <1>1, <1>2, <1>3, WritesBound DEF VersionInv
<1>7. FenceInv
  BY <1>2 DEF FenceInv
<1> QED BY <1>4, <1>5, <1>6, <1>7 DEF RowInv

LEMMA InitTokens == Init => TokenInv /\ StoredTokenIsUsable
<1> SUFFICES ASSUME Init PROVE TokenInv /\ StoredTokenIsUsable
  OBVIOUS
<1>1. /\ row.refresh = <<First, 0>> /\ \A f \in Families : current[f] = 0
      /\ \A q \in Requests : req[q].seen = None /\ req[q].phase = "idle"
      /\ First \in Families /\ Logins \subseteq Families
  BY DEF Init, Families
<1>2. Held = {<<First, 0>>} /\ Pending = {}
  BY <1>1 DEF Held, Pending
<1>3. NotAhead /\ PendingInv /\ OneVersion
  BY <1>1, <1>2 DEF NotAhead, PendingInv, OneVersion
<1>4. FutureInv
  BY <1>1, <1>2, OAuthAssumption DEF FutureInv
<1>5. StoredTokenIsUsable
  BY <1>1 DEF StoredTokenIsUsable, Usable
<1> QED BY <1>3, <1>4, <1>5 DEF TokenInv

LEMMA RowInvStep == RowInv /\ [Next]_vars => RowInv'
  BY TypeStep, FlowStep, VersionStep, FenceStep DEF RowInv

LEMMA TokenStep ==
    ASSUME FALSE \notin Offline, IInv, [Next]_vars
    PROVE  TokenInv' /\ StoredTokenIsUsable'
<1>1. ASSUME NEW q \in Requests, Load(q) \/ Continue(q)
      PROVE  TokenInv' /\ StoredTokenIsUsable'
  BY <1>1, RequestTokens DEF IInv, RowInv
<1>2. ASSUME NEW l \in Logins, LoginRead(l) \/ LoginCommit(l)
      PROVE  TokenInv' /\ StoredTokenIsUsable'
  BY <1>2, LoginTokens DEF IInv, RowInv
<1>3. CASE UNCHANGED vars
  <2>1. Held' = Held /\ Pending' = Pending /\ \A q \in Requests : Reply(q)' = Reply(q)
    BY <1>3 DEF vars, Held, Pending, Reply
  <2>2. TokenInv'
    BY <1>3, <2>1, TokenFrame DEF vars, Pending, IInv, RowInv
  <2>3. StoredTokenIsUsable'
    BY <1>3 DEF vars, StoredTokenIsUsable, Usable, IInv
  <2> QED BY <2>2, <2>3
<1> QED BY <1>1, <1>2, <1>3 DEF Next

\* The state is well-typed: with the fence and the row lock as they are, no row ever
\* has a version beyond the number of refreshes and logins there were.
THEOREM TypeCorrect == Spec => []TypeOK
<1>1. RowInv => TypeOK
  BY DEF RowInv
<1> QED BY <1>1, InitRowInv, RowInvStep, PTL DEF Spec

\* The UPDATE of a refresh replaces only the row the refresh was granted for, with and
\* without the row lock, as long as no login has gone by.
THEOREM StaleWritersAreFenced == Spec => StaleWriterIsFenced
<1>1. ASSUME RowInv, [Next]_vars
      PROVE  [\A q \in Requests :
                 req[q].phase = "update" /\ req'[q].phase = "store" /\ row' # row =>
                     row = req[q].seen \/ \E l \in Logins : login[l].phase = "done"]_vars
  <2>1. ASSUME NEW q \in Requests, req[q].phase = "update", req'[q].phase = "store",
               row' # row
        PROVE  row = req[q].seen \/ \E l \in Logins : login[l].phase = "done"
    <3>1. Load(q) \/ Continue(q)
      <4>1. ASSUME NEW p \in Requests, Load(p) \/ Continue(p) PROVE Load(q) \/ Continue(q)
        BY <1>1, <2>1, <4>1, RequestStep DEF RowInv
      <4>2. ASSUME NEW l \in Logins, LoginRead(l) \/ LoginCommit(l) PROVE FALSE
        BY <1>1, <2>1, <4>2, LoginStep DEF RowInv
      <4>3. CASE UNCHANGED vars
        BY <2>1, <4>3 DEF vars
      <4> QED BY <1>1, <4>1, <4>2, <4>3 DEF Next
    <3>2. Fenced(q)
      BY <1>1, <2>1, <3>1, RequestStep DEF RowInv, Loads, Quiet, Refreshes, Loses, Updates
    <3> QED BY <1>1, <2>1, <3>2 DEF RowInv, FenceInv, LoggedIn, Flow, Fenced
  <2> QED BY <2>1
<1> QED BY <1>1, InitRowInv, RowInvStep, PTL DEF Spec, StaleWriterIsFenced

\* If every consent brings a refresh token (the "offline_access" scope), the stored
\* refresh token is one the endpoint accepts, or the request that used it up is about to
\* replace it, or an answer of the endpoint was lost: concurrent get_valid_access_token
\* and handle_cf_oauth_callback do not lose the credential, with or without row locks.
THEOREM StoredTokensAreUsable ==
    ASSUME FALSE \notin Offline
    PROVE  Spec => []StoredTokenIsUsable
<1>1. Init => IInv
  BY InitRowInv, InitTokens DEF IInv
<1>2. IInv /\ [Next]_vars => IInv'
  BY RowInvStep, TokenStep DEF IInv
<1>3. IInv => StoredTokenIsUsable
  BY DEF IInv
<1> QED BY <1>1, <1>2, <1>3, PTL DEF Spec
=============================================================================
