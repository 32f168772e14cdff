-------------------------- MODULE TokenStoreProofs --------------------------
(***************************************************************************)
(* Theorems about TokenStore, for any number of tokens, credentials,       *)
(* management requests and proxied requests: revocation is final, and the  *)
(* resolution of a presented token grants nothing that was dead when the   *)
(* request arrived.                                                        *)
(***************************************************************************)
EXTENDS TokenStore, FiniteSetTheorems, TLAPS

(***************************************************************************)
(* The inductive invariant.                                                *)
(***************************************************************************)
\* What an operation knows when it has reached a phase.  Token rows are never
\* deleted, so a row that was read is still there.
OpControl(o) ==
    /\ op[o].phase = "validating" => op[o].kind = "mint" /\ op[o].target \in CredIds
    /\ op[o].phase = "read" => op[o].kind \in {"rotate", "revoke", "delete"}
    /\ op[o].phase = "purged" => op[o].kind = "delete"
    /\ op[o].phase = "committed" => op[o].kind \in {"rotate", "revoke"}
    /\ op[o].phase \in {"read", "committed"} /\ op[o].kind \in {"rotate", "revoke"} =>
          op[o].target \in TokenIds /\ op[o].read[op[o].target] # None
    /\ op[o].phase # "done" => op[o].result = None
    /\ \A t \in TokenIds : op[o].read[t] # None => tokens[t] # None

\* A revocation that has committed holds.
RevokeHolds(o) ==
    op[o].kind = "revoke" /\ (op[o].phase = "committed" \/ op[o].result = "ok") =>
        /\ op[o].target \in TokenIds /\ tokens[op[o].target] # None
        /\ tokens[op[o].target].status = "revoked"

OpInv == \A o \in Ops : OpControl(o) /\ RevokeHolds(o)

\* The operations that may have raised a version.
Bumped == {o \in Ops : op[o].phase \in {"committed", "done"}}

\* Every version, stored or read, was reached one operation at a time.
VersionInv ==
    \A t \in TokenIds :
        /\ tokens[t] # None => tokens[t].version <= 1 + Cardinality(Bumped)
        /\ \A o \in Ops :
              op[o].read[t] # None => op[o].read[t].version <= 1 + Cardinality(Bumped)

\* A lookup id belongs to the token it was issued for, in the table and in the cache.
LookupInv ==
    /\ \A t \in TokenIds : tokens[t] # None => issued[tokens[t].lookup] = t
    /\ \A k \in Lookups \X (1..MaxVersion) : cache[k] # None => cache[k] = issued[k[1]]

\* A request that waits for its SELECT: what it will find was there when it arrived.
SelectInv(a) ==
    LET live == {t \in Owner(auth[a].lookup) : tokens[t].status = "active"}
    IN  auth[a].phase = "select" =>
            /\ auth[a].lookup \in Lookups
            /\ auth[a].genuine =>
                  /\ issued[auth[a].lookup] # None
                  /\ live # {} => auth[a].valid
                  /\ \A t \in live : tokens[t].cred \in creds => auth[a].cred_ok

\* A request that has its row.
RowInv(a) ==
    auth[a].phase \in {"credential", "cache", "rules", "store"} =>
        /\ auth[a].lookup \in Lookups /\ auth[a].token \in TokenIds /\ auth[a].row \in Rows
        /\ auth[a].row.lookup = auth[a].lookup
        /\ issued[auth[a].lookup] = auth[a].token
        /\ auth[a].valid
        /\ auth[a].row.cred \in creds \/ auth[a].phase # "credential" => auth[a].cred_ok
        /\ auth[a].phase = "store" => auth[a].rules = auth[a].token

\* A request that was granted.
GrantInv(a) ==
    auth[a].result = "granted" =>
        /\ auth[a].phase = "done" /\ auth[a].lookup \in Lookups
        /\ issued[auth[a].lookup] # None /\ auth[a].rules = issued[auth[a].lookup]
        /\ auth[a].valid /\ auth[a].cred_ok

AuthInv == \A a \in Auths : SelectInv(a) /\ RowInv(a) /\ GrantInv(a)

Inv == TypeOK /\ OpInv /\ VersionInv /\ LookupInv /\ AuthInv

(***************************************************************************)
(* Versions: an operation raises the version it read by one, and does so   *)
(* once.                                                                   *)
(***************************************************************************)
\* The number of operations is a number, and so is that of any of them.
LEMMA OpsFinite ==
    /\ Cardinality(Ops) \in Nat /\ Cardinality(Bumped) \in Nat
    /\ IsFiniteSet(Bumped) /\ Cardinality(Bumped) <= Cardinality(Ops)
<1>1. IsFiniteSet(Ops) /\ Bumped \in SUBSET Ops
  BY TokenStoreAssumption DEF Bumped
<1> QED BY <1>1, FS_Subset, FS_CardinalityType

\* An operation that has not committed leaves room for its own increment.
LEMMA BumpRoom ==
    ASSUME NEW o \in Ops, op[o].phase \notin {"committed", "done"}
    PROVE  Cardinality(Bumped) + 1 <= Cardinality(Ops)
<1>1. Bumped \cup {o} \in SUBSET Ops /\ o \notin Bumped
  BY DEF Bumped
<1>2. Cardinality(Bumped \cup {o}) = Cardinality(Bumped) + 1
  BY <1>1, OpsFinite, FS_AddElement
<1>3. Cardinality(Bumped \cup {o}) <= Cardinality(Ops)
  BY <1>1, TokenStoreAssumption, FS_Subset
<1> QED BY <1>2, <1>3

\* The version an operation writes is in range.
LEMMA BumpedVersion ==
    ASSUME VersionInv, TypeOK, NEW o \in Ops, op[o].phase \notin {"committed", "done"},
           NEW t \in TokenIds, op[o].read[t] # None
    PROVE  /\ op[o].read[t] \in Rows
           /\ op[o].read[t].version + 1 \in 1..MaxVersion
           /\ op[o].read[t].version + 1 <= 2 + Cardinality(Bumped)
<1>1. op[o].read[t] \in Rows
  BY DEF TypeOK, OpStates
<1>2. op[o].read[t].version \in 1..MaxVersion
  BY <1>1 DEF Rows
<1>3. op[o].read[t].version <= 1 + Cardinality(Bumped)
  BY DEF VersionInv
<1>4. Cardinality(Bumped) + 1 <= Cardinality(Ops)
  BY BumpRoom
<1> QED BY <1>1, <1>2, <1>3, <1>4, OpsFinite DEF MaxVersion

(***************************************************************************)
(* Type correctness.                                                       *)
(***************************************************************************)
\* A request that is idle, or ends, has a state of the right shape.
LEMMA OpUpdateType ==
    ASSUME TypeOK, NEW o \in Ops,
           NEW phase \in {"idle", "validating", "read", "purged", "committed", "done"},
           NEW result \in {None, "ok", "error"}
    PROVE  /\ [op EXCEPT ![o].phase = phase] \in [Ops -> OpStates]
           /\ [op EXCEPT ![o].phase = phase, ![o].result = result] \in [Ops -> OpStates]
<1>1. op \in [Ops -> OpStates]
  BY DEF TypeOK
<1>2. op[o] \in OpStates
  BY <1>1
<1>3. [op[o] EXCEPT !.phase = phase] \in OpStates
  BY <1>2 DEF OpStates
<1>4. [op[o] EXCEPT !.phase = phase, !.result = result] \in OpStates
  BY <1>2 DEF OpStates
<1> QED BY <1>1, <1>3, <1>4

\* The same for a proxied request, for each of the updates resolve_scoped_token makes.
AuthPhases == {"idle", "select", "credential", "cache", "rules", "store", "done"}

LEMMA AuthUpdateType ==
    ASSUME TypeOK, NEW a \in Auths, NEW phase \in AuthPhases
    PROVE  /\ [auth EXCEPT ![a].phase = phase] \in [Auths -> AuthStates]
           /\ \A result \in {"granted", "rejected", "error"} :
                 [auth EXCEPT ![a].phase = phase, ![a].result = result]
                     \in [Auths -> AuthStates]
           /\ \A t \in TokenIds \cup {None} :
                 [auth EXCEPT ![a].phase = phase, ![a].rules = t] \in [Auths -> AuthStates]
           /\ \A t \in TokenIds \cup {None} :
                 [auth EXCEPT ![a].phase = phase, ![a].result = "granted", ![a].rules = t]
                     \in [Auths -> AuthStates]
           /\ \A t \in TokenIds, row \in Rows :
                 [auth EXCEPT ![a].phase = phase, ![a].token = t, ![a].row = row]
                     \in [Auths -> AuthStates]
<1>1. auth \in [Auths -> AuthStates] /\ auth[a] \in AuthStates
  BY DEF TypeOK
<1>2. [auth[a] EXCEPT !.phase = phase] \in AuthStates
  BY <1>1 DEF AuthStates, AuthPhases
<1>3. ASSUME NEW result \in {"granted", "rejected", "error"}
      PROVE  [auth[a] EXCEPT !.phase = phase, !.result = result] \in AuthStates
  BY <1>1 DEF AuthStates, AuthPhases
<1>4. ASSUME NEW t \in TokenIds \cup {None}
      PROVE  [auth[a] EXCEPT !.phase = phase, !.rules = t] \in AuthStates
  BY <1>1 DEF AuthStates, AuthPhases
<1>5. ASSUME NEW t \in TokenIds \cup {None}
      PROVE  [auth[a] EXCEPT !.phase = phase, !.result = "granted", !.rules = t] \in AuthStates
  BY <1>1 DEF AuthStates, AuthPhases
<1>6. ASSUME NEW t \in TokenIds, NEW row \in Rows
      PROVE  [auth[a] EXCEPT !.phase = phase, !.token = t, !.row = row] \in AuthStates
  BY <1>1 DEF AuthStates, AuthPhases
<1> QED BY <1>1, <1>2, <1>3, <1>4, <1>5, <1>6

\* The row an operation commits is a row.
LEMMA CommittedRow ==
    ASSUME TypeOK, OpInv, VersionInv, NEW o \in Ops,
           op[o].phase \notin {"committed", "done"},
           NEW t \in TokenIds, op[o].read[t] # None, NEW l \in Lookups
    PROVE  LET v == op[o].read[t].version + 1
           IN  /\ tokens[t] \in Rows
               /\ [tokens[t] EXCEPT !.lookup = l, !.version = v] \in Rows
               /\ [tokens[t] EXCEPT !.status = "revoked", !.version = v] \in Rows
<1>1. tokens[t] \in Rows
  BY DEF TypeOK, OpInv, OpControl
<1>2. op[o].read[t].version + 1 \in 1..MaxVersion
  BY BumpedVersion
<1> QED BY <1>1, <1>2 DEF Rows

\* A step keeps the state well-typed.
LEMMA TypeStep == TypeOK /\ OpInv /\ VersionInv /\ AuthInv /\ [Next]_vars => TypeOK'
<1> SUFFICES ASSUME TypeOK, OpInv, VersionInv, AuthInv, [Next]_vars PROVE TypeOK'
  OBVIOUS
<1> DEFINE OpPhases == {"idle", "validating", "read", "purged", "committed", "done"}
<1>u. CASE UNCHANGED vars
  BY <1>u DEF vars, TypeOK
<1>d. ASSUME NEW o \in Ops, NEW result \in {"ok", "error"}, EndOp(o, result)
      PROVE  op' \in [Ops -> OpStates]
  BY <1>d, OpUpdateType DEF EndOp
<1>b. ASSUME NEW o \in Ops, NEW kind \in {"mint", "rotate", "revoke", "delete"},
             NEW target \in TokenIds \cup CredIds, NEW phase \in OpPhases,
             NEW read \in [TokenIds -> Rows \cup {None}],
             Begin(o, kind, target, phase, read)
      PROVE  TypeOK'
  BY <1>b DEF Begin, TypeOK, OpStates
<1>o. ASSUME NEW o \in Ops, Manage(o) PROVE TypeOK'
  <2>1. ASSUME NEW c \in CredIds, MintBegin(o, c) PROVE TypeOK'
    BY <2>1, <1>b DEF MintBegin, NoRows
  <2>2. ASSUME NEW c \in CredIds, DeleteRead(o, c) PROVE TypeOK'
    <3> DEFINE read == [t \in TokenIds |->
                          IF t \in Dependents(c) /\ tokens[t].status = "active"
                          THEN tokens[t] ELSE None]
    <3>1. read \in [TokenIds -> Rows \cup {None}]
      BY DEF TypeOK, Dependents
    <3>2. Begin(o, "delete", c, "read", read)
      BY <2>2 DEF DeleteRead
    <3> QED BY <3>1, <3>2, <1>b
  <2>3. ASSUME NEW t \in TokenIds, NEW kind \in {"rotate", "revoke"}, ReadToken(o, kind, t)
        PROVE  TypeOK'
    <3>1. [NoRows EXCEPT ![t] = tokens[t]] \in [TokenIds -> Rows \cup {None}]
      BY DEF TypeOK, NoRows
    <3>2. Begin(o, kind, t, "read", [NoRows EXCEPT ![t] = tokens[t]])
      BY <2>3 DEF ReadToken
    <3>3. kind \in {"mint", "rotate", "revoke", "delete"}
      OBVIOUS
    <3> QED BY <3>1, <3>2, <3>3, <1>b
  <2>4. CASE MintInvalid(o)
    BY <2>4, OpUpdateType DEF MintInvalid, EndOp, TypeOK
  <2>5. CASE MintCommit(o)
    <3>1. op' \in [Ops -> OpStates]
      <4>1. EndOp(o, "ok") \/ EndOp(o, "error")
        BY <2>5 DEF MintCommit
      <4> QED BY <4>1, <1>d
    <3>2. op[o].target \in CredIds
      BY <2>5 DEF MintCommit, OpInv, OpControl
    <3>3. 1 \in 1..MaxVersion
      BY OpsFinite DEF MaxVersion
    <3>4. ASSUME NEW l \in Lookups, NEW e \in Expiries
          PROVE  [cred |-> op[o].target, lookup |-> l, version |-> 1,
                  status |-> "active", expires |-> e] \in Rows
      BY <3>2, <3>3, TokenStoreAssumption DEF Rows
    <3>5. tokens' \in [TokenIds -> Rows \cup {None}]
          /\ issued' \in [Lookups -> TokenIds \cup {None}]
      BY <2>5, <3>4 DEF MintCommit, FreshLookups, TypeOK
    <3> QED BY <2>5, <3>1, <3>5 DEF MintCommit, TypeOK
  <2>6. CASE RotateCommit(o)
    <3>1. op' \in [Ops -> OpStates]
      <4>1. /\ [op EXCEPT ![o].phase = "committed"] \in [Ops -> OpStates]
            /\ [op EXCEPT ![o].phase = "done", ![o].result = "error"] \in [Ops -> OpStates]
        BY OpUpdateType
      <4> QED BY <2>6, <4>1 DEF RotateCommit, EndOp
    <3>2. op[o].target \in TokenIds /\ op[o].read[op[o].target] # None
      BY <2>6 DEF RotateCommit, OpInv, OpControl
    <3>3. tokens' \in [TokenIds -> Rows \cup {None}]
          /\ issued' \in [Lookups -> TokenIds \cup {None}]
      <4>1. PICK l \in FreshLookups :
               /\ tokens' = [tokens EXCEPT ![op[o].target].lookup = l,
                                           ![op[o].target].version =
                                               op[o].read[op[o].target].version + 1]
               /\ issued' = [issued EXCEPT ![l] = op[o].target]
        BY <2>6 DEF RotateCommit
      <4>2. l \in Lookups
        BY DEF FreshLookups
      <4>3. [tokens[op[o].target] EXCEPT !.lookup = l,
                !.version = op[o].read[op[o].target].version + 1] \in Rows
        BY <2>6, <3>2, <4>2, CommittedRow DEF RotateCommit
      <4> QED BY <3>2, <4>1, <4>2, <4>3 DEF TypeOK
    <3> QED BY <2>6, <3>1, <3>3 DEF RotateCommit, TypeOK
  <2>7. CASE RevokeCommit(o)
    <3>1. op' \in [Ops -> OpStates]
      BY <2>7, OpUpdateType DEF RevokeCommit
    <3>2. op[o].target \in TokenIds /\ op[o].read[op[o].target] # None
      BY <2>7 DEF RevokeCommit, OpInv, OpControl
    <3>l. ASSUME Lookups = {} PROVE FALSE
      BY <3>2, <3>l DEF OpInv, OpControl, TypeOK, Rows
    <3>3. tokens' \in [TokenIds -> Rows \cup {None}]
      BY <2>7, <3>2, <3>l, CommittedRow DEF RevokeCommit, TypeOK
    <3> QED BY <2>7, <3>1, <3>3 DEF RevokeCommit, TypeOK
  <2>8. CASE PurgeAfterCommit(o)
    BY <2>8, OpUpdateType DEF PurgeAfterCommit, Purged, EndOp, TypeOK
  <2>9. CASE DeletePurge(o)
    BY <2>9, OpUpdateType DEF DeletePurge, Purged, TypeOK
  <2>10. CASE DeleteCommit(o)
    <3>1. op' \in [Ops -> OpStates]
      <4>1. EndOp(o, "ok") \/ EndOp(o, "error")
        BY <2>10 DEF DeleteCommit
      <4> QED BY <4>1, <1>d
    <3>2. ASSUME NEW t \in TokenIds, op[o].read[t] # None
          PROVE  [tokens[t] EXCEPT !.status = "revoked",
                                   !.version = op[o].read[t].version + 1] \in Rows
      <4>1. tokens[t] \in Rows
        BY <3>2 DEF OpInv, OpControl, TypeOK
      <4>2. tokens[t].lookup \in Lookups
        BY <4>1 DEF Rows
      <4>3. op[o].phase \notin {"committed", "done"}
        BY <2>10 DEF DeleteCommit
      <4> QED BY <3>2, <4>2, <4>3, CommittedRow
    <3>3. tokens' \in [TokenIds -> Rows \cup {None}] /\ creds' \subseteq CredIds
      <4>1. tokens \in [TokenIds -> Rows \cup {None}] /\ creds \subseteq CredIds
        BY DEF TypeOK
      <4>2. CASE UNCHANGED <<tokens, creds>>
        BY <4>1, <4>2
      <4>3. ASSUME tokens' = [t \in TokenIds |->
                          IF op[o].read[t] = None THEN tokens[t]
                          ELSE [tokens[t] EXCEPT !.status = "revoked",
                                                 !.version = op[o].read[t].version + 1]],
                   creds' = creds \ {op[o].target}
            PROVE  tokens' \in [TokenIds -> Rows \cup {None}] /\ creds' \subseteq CredIds
        BY <3>2, <4>1, <4>3
      <4> QED BY <2>10, <4>2, <4>3 DEF DeleteCommit
    <3> QED BY <2>10, <3>1, <3>3 DEF DeleteCommit, TypeOK
  <2> QED
    BY <1>o, <2>1, <2>2, <2>3, <2>4, <2>5, <2>6, <2>7, <2>8, <2>9, <2>10 DEF Manage
<1>a. ASSUME NEW a \in Auths, Resolve(a) PROVE TypeOK'
  <2>e. ASSUME NEW result \in {"granted", "rejected", "error"}, EndAuth(a, result)
        PROVE  auth' \in [Auths -> AuthStates]
    BY <2>e, AuthUpdateType DEF EndAuth, AuthPhases
  <2>1. ASSUME NEW l \in Lookups, NEW genuine \in BOOLEAN, Present(a, l, genuine)
        PROVE  TypeOK'
    <3> DEFINE live == {t \in Owner(l) : genuine /\ tokens[t].status = "active"}
               next == [auth[a] EXCEPT !.phase = "select", !.lookup = l, !.genuine = genuine,
                          !.valid = live # {},
                          !.cred_ok = \E t \in live : tokens[t].cred \in creds]
    <3>a. auth[a] \in AuthStates /\ auth \in [Auths -> AuthStates]
      BY DEF TypeOK
    <3>n. next \in AuthStates
      BY <3>a DEF AuthStates
    <3>1. auth' \in [Auths -> AuthStates]
      BY <2>1, <3>a, <3>n DEF Present
    <3> QED BY <2>1, <3>1 DEF Present, TypeOK
  <2>2. CASE SelectToken(a)
    <3>1. CASE EndAuth(a, "rejected") \/ EndAuth(a, "error")
      BY <2>2, <3>1, <2>e DEF SelectToken, TypeOK
    <3>2. ASSUME NEW t \in Owner(auth[a].lookup),
                 auth' = [auth EXCEPT ![a].phase = "credential",
                                      ![a].token = t, ![a].row = tokens[t]]
          PROVE  TypeOK'
      <4>1. t \in TokenIds /\ tokens[t] \in Rows
        BY DEF Owner, TypeOK
      <4>p. "credential" \in AuthPhases
        BY DEF AuthPhases
      <4>2. auth' \in [Auths -> AuthStates]
        BY <3>2, <4>1, <4>p, AuthUpdateType, Zenon
      <4> QED BY <2>2, <4>2 DEF SelectToken, TypeOK
    <3> QED BY <2>2, <3>1, <3>2 DEF SelectToken
  <2>3. CASE SelectCredential(a)
    <3>1. auth' \in [Auths -> AuthStates]
      <4>1. [auth EXCEPT ![a].phase = "cache"] \in [Auths -> AuthStates]
        BY AuthUpdateType DEF AuthPhases
      <4> QED BY <2>3, <2>e, <4>1 DEF SelectCredential
    <3> QED BY <2>3, <3>1 DEF SelectCredential, TypeOK
  <2>4. CASE ReadCache(a)
    <3>1. RulesKey(auth[a].row) \in Lookups \X (1..MaxVersion)
      BY <2>4 DEF ReadCache, RulesKey, AuthInv, RowInv, Rows
    <3>2. cache[RulesKey(auth[a].row)] \in TokenIds \cup {None}
      BY <3>1 DEF TypeOK
    <3>3. auth' \in [Auths -> AuthStates]
      <4>1. [auth EXCEPT ![a].phase = "rules"] \in [Auths -> AuthStates]
        BY AuthUpdateType DEF AuthPhases
      <4>p. "done" \in AuthPhases
        BY DEF AuthPhases
      <4>2. [auth EXCEPT ![a].phase = "done", ![a].result = "granted",
                         ![a].rules = cache[RulesKey(auth[a].row)]] \in [Auths -> AuthStates]
        BY <3>2, <4>p, AuthUpdateType, Zenon
      <4> QED BY <2>4, <4>1, <4>2 DEF ReadCache
    <3> QED BY <2>4, <3>3 DEF ReadCache, TypeOK
  <2>5. CASE SelectRules(a)
    <3>1. auth[a].token \in TokenIds \cup {None}
      BY DEF TypeOK, AuthStates
    <3>2. auth' \in [Auths -> AuthStates]
      BY <2>5, <3>1, AuthUpdateType DEF SelectRules, AuthPhases
    <3> QED BY <2>5, <3>2 DEF SelectRules, TypeOK
  <2>6. CASE StoreCache(a)
    <3>1. auth' \in [Auths -> AuthStates]
      BY <2>6, <2>e DEF StoreCache
    <3>2. auth[a].rules \in TokenIds \cup {None}
      BY DEF TypeOK, AuthStates
    <3> QED BY <2>6, <3>1, <3>2 DEF StoreCache, TypeOK
  <2> QED BY <1>a, <2>1, <2>2, <2>3, <2>4, <2>5, <2>6 DEF Resolve
<1>e. ASSUME NEW t \in TokenIds, Expire(t) PROVE TypeOK'
  <2>1. tokens[t] \in Rows
    BY <1>e DEF Expire, TypeOK
  <2>2. [tokens[t] EXCEPT !.expires = "past"] \in Rows
    BY <2>1 DEF Rows
  <2> QED BY <1>e, <2>2 DEF Expire, TypeOK
<1> QED BY <1>u, <1>o, <1>a, <1>e DEF Next

(***************************************************************************)
(* How rows evolve: a row keeps its credential and, once revoked, its      *)
(* status; a lookup id is only ever given out when it is fresh; credential *)
(* rows only disappear.                                                    *)
(***************************************************************************)
RowEvolves(t) ==
    \/ tokens'[t] = tokens[t]
    \/ /\ tokens'[t] \in Rows
       /\ issued'[tokens'[t].lookup] = t
       /\ \/ tokens[t] = None /\ issued[tokens'[t].lookup] = None
          \/ /\ tokens[t] # None /\ tokens'[t].cred = tokens[t].cred
             /\ tokens[t].status = "revoked" => tokens'[t].status = "revoked"
             /\ tokens'[t].lookup = tokens[t].lookup \/ issued[tokens'[t].lookup] = None

Evolves ==
    /\ creds' \subseteq creds
    /\ \A l \in Lookups : issued[l] # None => issued'[l] = issued[l]
    /\ \A t \in TokenIds : RowEvolves(t)

\* Every step evolves the rows in this way, whatever was read before it.
LEMMA EvolveStep == Inv /\ [Next]_vars => Evolves
<1> SUFFICES ASSUME Inv, [Next]_vars PROVE Evolves
  OBVIOUS
<1> USE DEF Evolves, RowEvolves
<1>t. TypeOK /\ TypeOK' /\ OpInv /\ VersionInv /\ LookupInv
  BY TypeStep DEF Inv
<1>k. CASE UNCHANGED <<tokens, creds, issued>>
  BY <1>k
<1>1. ASSUME NEW o \in Ops, MintCommit(o) PROVE Evolves
  <2>1. CASE UNCHANGED <<tokens, issued>>
    BY <1>1, <2>1 DEF MintCommit
  <2>2. ASSUME NEW t \in TokenIds, NEW l \in FreshLookups, NEW row, tokens[t] = None,
               row.lookup = l, tokens' = [tokens EXCEPT ![t] = row],
               issued' = [issued EXCEPT ![l] = t], UNCHANGED creds
        PROVE  Evolves
    <3>1. tokens \in [TokenIds -> Rows \cup {None}] /\ issued \in [Lookups -> TokenIds \cup {None}]
          /\ l \in Lookups /\ issued[l] = None
      BY <1>t DEF TypeOK, FreshLookups
    <3>2. tokens'[t] = row /\ \A u \in TokenIds \ {t} : tokens'[u] = tokens[u]
      BY <2>2, <3>1
    <3>3. issued'[l] = t /\ \A k \in Lookups \ {l} : issued'[k] = issued[k]
      BY <2>2, <3>1
    <3>4. row \in Rows \cup {None}
      BY <1>t, <3>2 DEF TypeOK
    <3>5. CASE row = None
      BY <2>2, <3>1, <3>2, <3>3, <3>5
    <3>6. CASE row \in Rows
      BY <2>2, <3>1, <3>2, <3>3, <3>6
    <3> QED BY <3>4, <3>5, <3>6
  <2> QED BY <1>1, <2>1, <2>2 DEF MintCommit
<1>2. ASSUME NEW o \in Ops, RotateCommit(o) PROVE Evolves
  <2> DEFINE t == op[o].target
             v == op[o].read[t].version + 1
  <2>1. t \in TokenIds /\ op[o].read[t] # None
    BY <1>2, <1>t DEF RotateCommit, OpInv, OpControl
  <2>2. PICK l \in FreshLookups :
           /\ tokens' = [tokens EXCEPT ![t].lookup = l, ![t].version = v]
           /\ issued' = [issued EXCEPT ![l] = t]
    BY <1>2 DEF RotateCommit
  <2>3. l \in Lookups /\ issued[l] = None /\ tokens[t] \in Rows
    BY <1>t, <2>1 DEF FreshLookups, OpInv, OpControl, TypeOK
  <2>4. tokens'[t] = [tokens[t] EXCEPT !.lookup = l, !.version = v]
        /\ \A u \in TokenIds \ {t} : tokens'[u] = tokens[u]
    BY <1>t, <2>1, <2>2 DEF TypeOK
  <2>5. /\ tokens'[t] \in Rows /\ tokens'[t].lookup = l
        /\ tokens'[t].cred = tokens[t].cred /\ tokens'[t].status = tokens[t].status
    <3>1. op[o].phase \notin {"committed", "done"}
      BY <1>2 DEF RotateCommit
    <3>2. tokens'[t] \in Rows
      <4>1. [tokens[t] EXCEPT !.lookup = l, !.version = v] \in Rows
        BY <1>t, <2>1, <2>3, <3>1, CommittedRow
      <4> QED BY <2>4, <4>1
    <3> QED BY <2>3, <2>4, <3>2 DEF Rows
  <2>6. issued'[l] = t /\ \A k \in Lookups \ {l} : issued'[k] = issued[k]
    BY <1>t, <2>2, <2>3 DEF TypeOK
  <2>7. tokens[t] # None /\ UNCHANGED creds
    BY <1>2, <2>3, NoneAssumption DEF RotateCommit
  <2> QED BY <2>3, <2>4, <2>5, <2>6, <2>7
<1>r. ASSUME NEW t \in TokenIds, tokens[t] # None, tokens'[t] # None, UNCHANGED issued,
             tokens'[t].cred = tokens[t].cred, tokens'[t].lookup = tokens[t].lookup,
             tokens'[t].status \in {"revoked", tokens[t].status}
      PROVE  RowEvolves(t)
  <2>1. issued[tokens[t].lookup] = t
    BY <1>t, <1>r DEF LookupInv
  <2>2. tokens'[t] \in Rows
    BY <1>t, <1>r DEF TypeOK
  <2> QED BY <1>r, <2>1, <2>2
<1>3. ASSUME NEW o \in Ops, RevokeCommit(o) PROVE Evolves
  <2> DEFINE t == op[o].target
             row == [tokens[t] EXCEPT !.status = "revoked", !.version = op[o].read[t].version + 1]
  <2>1. t \in TokenIds /\ tokens[t] # None /\ tokens[t] \in Rows
    BY <1>3, <1>t DEF RevokeCommit, OpInv, OpControl, TypeOK
  <2>2. tokens'[t] = row /\ \A u \in TokenIds \ {t} : tokens'[u] = tokens[u]
    BY <1>3, <1>t, <2>1 DEF RevokeCommit, TypeOK
  <2>3. row # None /\ row.cred = tokens[t].cred /\ row.lookup = tokens[t].lookup
        /\ row.status = "revoked"
    <3>1. row.status = "revoked" /\ row.cred = tokens[t].cred /\ row.lookup = tokens[t].lookup
      BY <2>1 DEF Rows
    <3>2. row \in Rows
      <4>1. op[o].phase \notin {"committed", "done"} /\ op[o].read[t] # None
        BY <1>3, <1>t DEF RevokeCommit, OpInv, OpControl
      <4>2. tokens[t].lookup \in Lookups
        BY <2>1 DEF Rows
      <4> QED BY <1>t, <2>1, <4>1, <4>2, CommittedRow
    <3> QED BY <3>1, <3>2, NoneAssumption
  <2>4. RowEvolves(t)
    BY <1>3, <2>1, <2>2, <2>3, <1>r DEF RevokeCommit
  <2> QED BY <1>3, <2>2, <2>4 DEF RevokeCommit
<1>4. ASSUME NEW o \in Ops, DeleteCommit(o) PROVE Evolves
  <2>1. CASE UNCHANGED <<tokens, creds>>
    BY <1>4, <2>1 DEF DeleteCommit
  <2>2. ASSUME tokens' = [t \in TokenIds |->
                          IF op[o].read[t] = None THEN tokens[t]
                          ELSE [tokens[t] EXCEPT !.status = "revoked",
                                                 !.version = op[o].read[t].version + 1]],
               creds' = creds \ {op[o].target}
        PROVE  Evolves
    <3>1. ASSUME NEW t \in TokenIds, op[o].read[t] # None PROVE RowEvolves(t)
      <4>1. tokens[t] # None /\ tokens[t] \in Rows
        BY <1>t, <3>1 DEF OpInv, OpControl, TypeOK
      <4>2. op[o].phase \notin {"committed", "done"} /\ tokens[t].lookup \in Lookups
        BY <1>4, <4>1 DEF DeleteCommit, Rows
      <4>3. tokens'[t] = [tokens[t] EXCEPT !.status = "revoked",
                                           !.version = op[o].read[t].version + 1]
        BY <2>2, <3>1
      <4>c. [tokens[t] EXCEPT !.status = "revoked",
                              !.version = op[o].read[t].version + 1] \in Rows
        BY <1>t, <3>1, <4>2, CommittedRow
      <4>4. tokens'[t] \in Rows
        BY <4>3, <4>c
      <4>5. tokens'[t].status = "revoked" /\ tokens'[t].cred = tokens[t].cred
            /\ tokens'[t].lookup = tokens[t].lookup
        BY <4>1, <4>3 DEF Rows
      <4>6. UNCHANGED issued
        BY <1>4 DEF DeleteCommit
      <4> QED BY <4>1, <4>4, <4>5, <4>6, <1>r, NoneAssumption
    <3>2. ASSUME NEW t \in TokenIds, op[o].read[t] = None PROVE RowEvolves(t)
      BY <2>2, <3>2
    <3> QED BY <1>4, <2>2, <3>1, <3>2 DEF DeleteCommit
  <2> QED BY <1>4, <2>1, <2>2 DEF DeleteCommit
<1>5. ASSUME NEW t \in TokenIds, Expire(t) PROVE Evolves
  <2>1. tokens[t] # None /\ tokens[t] \in Rows
    BY <1>5, <1>t DEF Expire, TypeOK
  <2>2. tokens'[t] = [tokens[t] EXCEPT !.expires = "past"]
        /\ \A u \in TokenIds \ {t} : tokens'[u] = tokens[u]
    BY <1>5, <1>t DEF Expire, TypeOK
  <2>3. tokens'[t] \in Rows /\ tokens'[t].status = tokens[t].status
        /\ tokens'[t].cred = tokens[t].cred /\ tokens'[t].lookup = tokens[t].lookup
    BY <2>1, <2>2 DEF Rows
  <2>4. RowEvolves(t)
    BY <1>5, <2>1, <2>3, <1>r, NoneAssumption DEF Expire
  <2> QED BY <1>5, <2>2, <2>4 DEF Expire
<1>6. ASSUME NEW o \in Ops, Manage(o),
             ~MintCommit(o), ~RotateCommit(o), ~RevokeCommit(o), ~DeleteCommit(o)
      PROVE  UNCHANGED <<tokens, creds, issued>>
  BY <1>6 DEF Manage, MintBegin, DeleteRead, ReadToken, Begin, MintInvalid,
              PurgeAfterCommit, DeletePurge
<1>7. ASSUME NEW a \in Auths, Resolve(a) PROVE UNCHANGED <<tokens, creds, issued>>
  BY <1>7 DEF Resolve, Present, SelectToken, SelectCredential, ReadCache, SelectRules,
              StoreCache
<1>8. ASSUME UNCHANGED vars PROVE UNCHANGED <<tokens, creds, issued>>
  BY <1>8 DEF vars
<1> HIDE DEF Evolves
<1> QED
  BY <1>k, <1>1, <1>2, <1>3, <1>4, <1>5, <1>6, <1>7, <1>8 DEF Next

(***************************************************************************)
(* Management operations.                                                  *)
(***************************************************************************)
\* What holds of an operation goes on holding while others move.
LEMMA OpFrame ==
    ASSUME Evolves, TypeOK, TypeOK', NEW o \in Ops, OpControl(o), RevokeHolds(o), op'[o] = op[o]
    PROVE  OpControl(o)' /\ RevokeHolds(o)'
<1>1. \A t \in TokenIds : tokens[t] # None => tokens'[t] # None
  BY NoneAssumption DEF Evolves, RowEvolves
<1>2. \A t \in TokenIds : tokens[t] # None /\ tokens[t].status = "revoked" =>
                              tokens'[t].status = "revoked"
  BY DEF Evolves, RowEvolves
<1>3. OpControl(o)'
  BY <1>1 DEF OpControl
<1>4. RevokeHolds(o)'
  BY <1>1, <1>2 DEF RevokeHolds
<1> QED BY <1>3, <1>4

\* A step of an operation keeps what is known of it.
LEMMA OpStep == Inv /\ [Next]_vars => OpInv'
<1> SUFFICES ASSUME Inv, [Next]_vars PROVE OpInv'
  OBVIOUS
<1>t. TypeOK /\ TypeOK' /\ OpInv /\ Evolves
  BY TypeStep, EvolveStep DEF Inv
<1>1. \A t \in TokenIds : tokens[t] # None => tokens'[t] # None
  BY <1>t, NoneAssumption DEF Evolves, RowEvolves
<1>u. CASE UNCHANGED op
  BY <1>t, <1>u, OpFrame DEF OpInv
<1>o. ASSUME NEW o \in Ops, Manage(o) PROVE OpInv'
  <2>1. \A p \in Ops \ {o} : op'[p] = op[p]
    BY <1>o, <1>t DEF Manage, MintBegin, DeleteRead, ReadToken, Begin, MintInvalid, MintCommit,
            RotateCommit, RevokeCommit, PurgeAfterCommit, DeletePurge, DeleteCommit, EndOp,
            TypeOK
  <2>2. SUFFICES OpControl(o)' /\ RevokeHolds(o)'
    BY <1>t, <2>1, OpFrame DEF OpInv
  <2>c. OpControl(o) /\ RevokeHolds(o) /\ op[o] \in OpStates /\ op \in [Ops -> OpStates]
    BY <1>t DEF OpInv, TypeOK
  <2>b. ASSUME NEW kind, NEW target, NEW phase, NEW read, Begin(o, kind, target, phase, read)
        PROVE  /\ op'[o] = [phase |-> phase, kind |-> kind, target |-> target,
                            read |-> read, result |-> None]
               /\ UNCHANGED tokens
    BY <2>b, <2>c DEF Begin
  <2>3. ASSUME NEW c \in CredIds, MintBegin(o, c) PROVE OpControl(o)' /\ RevokeHolds(o)'
    <3>1. op'[o] = [phase |-> "validating", kind |-> "mint", target |-> c,
                    read |-> NoRows, result |-> None]
      BY <2>3, <2>b DEF MintBegin
    <3> QED BY <3>1, NoneAssumption DEF OpControl, RevokeHolds, NoRows
  <2>4. ASSUME NEW c \in CredIds, DeleteRead(o, c) PROVE OpControl(o)' /\ RevokeHolds(o)'
    <3> DEFINE read == [t \in TokenIds |->
                          IF t \in Dependents(c) /\ tokens[t].status = "active"
                          THEN tokens[t] ELSE None]
    <3>1. op'[o] = [phase |-> "read", kind |-> "delete", target |-> c,
                    read |-> read, result |-> None]
      BY <2>4, <2>b DEF DeleteRead
    <3>2. \A t \in TokenIds : read[t] # None => tokens'[t] # None
      BY <1>1
    <3> HIDE DEF read
    <3> QED BY <3>1, <3>2, NoneAssumption DEF OpControl, RevokeHolds
  <2>5. ASSUME NEW t \in TokenIds, NEW kind \in {"rotate", "revoke"}, ReadToken(o, kind, t)
        PROVE  OpControl(o)' /\ RevokeHolds(o)'
    <3>1. op'[o] = [phase |-> "read", kind |-> kind, target |-> t,
                    read |-> [NoRows EXCEPT ![t] = tokens[t]], result |-> None]
      BY <2>5, <2>b DEF ReadToken
    <3>2. tokens[t] # None
      BY <2>5 DEF ReadToken
    <3> QED BY <3>1, <3>2, <1>1, NoneAssumption DEF OpControl, RevokeHolds, NoRows
  <2>e. ASSUME NEW result, EndOp(o, result)
        PROVE  op'[o] = [op[o] EXCEPT !.phase = "done", !.result = result]
    BY <2>e, <2>c DEF EndOp
  <2>f. ASSUME NEW result, EndOp(o, result), op[o].kind # "revoke" \/ result = "error"
        PROVE  OpControl(o)' /\ RevokeHolds(o)'
    BY <2>f, <2>e, <2>c, <1>1 DEF OpControl, RevokeHolds, OpStates
  <2>6. CASE MintInvalid(o)
    BY <2>6, <2>f DEF MintInvalid
  <2>7. CASE MintCommit(o)
    <3>1. op[o].kind # "revoke"
      BY <2>7, <2>c DEF MintCommit, OpControl
    <3> QED BY <2>7, <3>1, <2>f DEF MintCommit
  <2>m. ASSUME NEW phase, op' = [op EXCEPT ![o].phase = phase]
        PROVE  op'[o] = [op[o] EXCEPT !.phase = phase]
    BY <2>m, <2>c
  <2>8. CASE RotateCommit(o)
    <3>1. op[o].phase = "read" /\ op[o].kind = "rotate"
      BY <2>8 DEF RotateCommit
    <3>2. CASE EndOp(o, "error")
      BY <3>2, <2>f
    <3>3. CASE op' = [op EXCEPT ![o].phase = "committed"]
      <4>1. op'[o] = [op[o] EXCEPT !.phase = "committed"]
        BY <3>3, <2>m
      <4> QED BY <3>1, <4>1, <2>c, <1>1 DEF OpControl, RevokeHolds, OpStates
    <3> QED BY <2>8, <3>2, <3>3 DEF RotateCommit
  <2>9. CASE RevokeCommit(o)
    <3>1. op'[o] = [op[o] EXCEPT !.phase = "committed"]
          /\ op[o].phase = "read" /\ op[o].kind = "revoke"
      BY <2>9, <2>m DEF RevokeCommit
    <3>2. op[o].target \in TokenIds /\ op[o].read[op[o].target] # None
      BY <3>1, <2>c DEF OpControl
    <3>3. tokens[op[o].target] \in Rows /\ tokens'[op[o].target] # None
      BY <3>2, <2>c, <1>1, <1>t DEF OpControl, TypeOK
    <3>4. tokens'[op[o].target].status = "revoked"
      BY <2>9, <3>2, <3>3, <1>t DEF RevokeCommit, TypeOK, Rows
    <3>5. OpControl(o)'
      BY <3>1, <3>2, <2>c, <1>1 DEF OpControl, OpStates
    <3>6. RevokeHolds(o)'
      BY <3>1, <3>2, <3>3, <3>4, <2>c DEF RevokeHolds, OpStates
    <3> QED BY <3>5, <3>6
  <2>10. CASE PurgeAfterCommit(o)
    <3>1. op'[o] = [op[o] EXCEPT !.phase = "done", !.result = "ok"]
          /\ op[o].phase = "committed" /\ UNCHANGED tokens
      BY <2>10, <2>e DEF PurgeAfterCommit
    <3> QED BY <3>1, <2>c DEF OpControl, RevokeHolds, OpStates
  <2>11. CASE DeletePurge(o)
    <3>1. op'[o] = [op[o] EXCEPT !.phase = "purged"] /\ op[o].kind = "delete"
          /\ op[o].phase = "read"
      BY <2>11, <2>m DEF DeletePurge
    <3> QED BY <3>1, <2>c, <1>1 DEF OpControl, RevokeHolds, OpStates
  <2>12. CASE DeleteCommit(o)
    <3>1. op[o].kind # "revoke"
      BY <2>12, <2>c DEF DeleteCommit, OpControl
    <3> QED BY <2>12, <3>1, <2>f DEF DeleteCommit
  <2> QED
    BY <1>o, <2>3, <2>4, <2>5, <2>6, <2>7, <2>8, <2>9, <2>10, <2>11, <2>12 DEF Manage
<1>a. ASSUME NEW a \in Auths, Resolve(a) PROVE UNCHANGED op
  BY <1>a DEF Resolve, Present, SelectToken, SelectCredential, ReadCache, SelectRules,
              StoreCache
<1>e. ASSUME NEW t \in TokenIds, Expire(t) PROVE UNCHANGED op
  BY <1>e DEF Expire
<1> QED BY <1>u, <1>o, <1>a, <1>e DEF Next, vars

\* The operations that have committed stay so, and one that commits joins them.
LEMMA BumpedGrows ==
    ASSUME Inv, [Next]_vars
    PROVE  /\ Cardinality(Bumped) \in Nat /\ Cardinality(Bumped') \in Nat
           /\ Cardinality(Bumped) <= Cardinality(Bumped')
           /\ \A o \in Ops : op[o].phase \notin {"committed", "done"}
                             /\ op'[o].phase \in {"committed", "done"}
                 => Cardinality(Bumped) + 1 <= Cardinality(Bumped')
<1>t. op \in [Ops -> OpStates] /\ op' \in [Ops -> OpStates]
  BY TypeStep DEF Inv, TypeOK
<1>1. \A o \in Ops : op[o].phase \in {"committed", "done"} =>
                         op'[o].phase \in {"committed", "done"}
  <2>1. ASSUME NEW o \in Ops, Manage(o), NEW p \in Ops, op[p].phase \in {"committed", "done"}
        PROVE  op'[p].phase \in {"committed", "done"}
    <3>1. CASE p # o
      BY <1>t, <2>1, <3>1
         DEF Manage, MintBegin, DeleteRead, ReadToken, Begin, MintInvalid, MintCommit,
             RotateCommit, RevokeCommit, PurgeAfterCommit, DeletePurge, DeleteCommit, EndOp
    <3>2. CASE p = o
      <4>1. PurgeAfterCommit(o)
        BY <2>1, <3>2
           DEF Manage, MintBegin, DeleteRead, ReadToken, Begin, MintInvalid, MintCommit,
               RotateCommit, RevokeCommit, DeletePurge, DeleteCommit
      <4> QED BY <1>t, <3>2, <4>1 DEF PurgeAfterCommit, EndOp, OpStates
    <3> QED BY <3>1, <3>2
  <2>2. ASSUME NEW a \in Auths, Resolve(a) PROVE UNCHANGED op
    BY <2>2 DEF Resolve, Present, SelectToken, SelectCredential, ReadCache, SelectRules,
                StoreCache
  <2>3. ASSUME NEW t \in TokenIds, Expire(t) PROVE UNCHANGED op
    BY <2>3 DEF Expire
  <2>4. ASSUME UNCHANGED vars PROVE UNCHANGED op
    BY <2>4 DEF vars
  <2> QED BY <2>1, <2>2, <2>3, <2>4 DEF Next
<1>2. Bumped \in SUBSET Bumped' /\ Bumped' \in SUBSET Ops
  BY <1>1 DEF Bumped
<1>3. IsFiniteSet(Bumped') /\ IsFiniteSet(Bumped)
  BY <1>2, TokenStoreAssumption, OpsFinite, FS_Subset
<1>4. /\ Cardinality(Bumped) \in Nat /\ Cardinality(Bumped') \in Nat
      /\ Cardinality(Bumped) <= Cardinality(Bumped')
  BY <1>2, <1>3, FS_Subset, FS_CardinalityType
<1>5. ASSUME NEW o \in Ops, op[o].phase \notin {"committed", "done"},
             op'[o].phase \in {"committed", "done"}
      PROVE  Cardinality(Bumped) + 1 <= Cardinality(Bumped')
  <2>1. o \notin Bumped /\ o \in Bumped'
    BY <1>5 DEF Bumped
  <2>2. Bumped \cup {o} \in SUBSET Bumped'
    BY <1>2, <2>1
  <2>3. Cardinality(Bumped \cup {o}) = Cardinality(Bumped) + 1
    BY <1>3, <2>1, FS_AddElement
  <2> QED BY <1>3, <2>2, <2>3, FS_Subset
<1> QED BY <1>4, <1>5

\* A step keeps versions within the number of commits.
LEMMA VersionStep == Inv /\ [Next]_vars => VersionInv'
<1> SUFFICES ASSUME Inv, [Next]_vars PROVE VersionInv'
  OBVIOUS
<1> DEFINE n == Cardinality(Bumped)
           m == Cardinality(Bumped')
<1>t. TypeOK /\ TypeOK' /\ OpInv /\ VersionInv
  BY TypeStep DEF Inv
<1>g. n \in Nat /\ m \in Nat /\ n <= m
  BY BumpedGrows
<1>v. ASSUME NEW row \in Rows PROVE row.version \in Nat
  BY OpsFinite DEF Rows, MaxVersion
<1>s. SUFFICES ASSUME NEW t \in TokenIds
               PROVE  /\ tokens'[t] # None => tokens'[t].version <= 1 + m
                      /\ \A o \in Ops : op'[o].read[t] # None =>
                                             op'[o].read[t].version <= 1 + m
  BY DEF VersionInv
<1>1. /\ tokens[t] # None => tokens[t].version <= 1 + m
      /\ \A o \in Ops : op[o].read[t] # None => op[o].read[t].version <= 1 + m
  <2>1. tokens[t] # None => tokens[t].version \in Nat /\ tokens[t].version <= 1 + n
    BY <1>t, <1>v DEF TypeOK, VersionInv
  <2>2. \A o \in Ops : op[o].read[t] # None =>
           op[o].read[t].version \in Nat /\ op[o].read[t].version <= 1 + n
    BY <1>t, <1>v DEF TypeOK, OpStates, VersionInv
  <2> HIDE DEF n, m
  <2> QED BY <1>g, <2>1, <2>2
<1>2. ASSUME NEW o \in Ops, op[o].phase \notin {"committed", "done"},
             op'[o].phase \in {"committed", "done"}, op[o].read[t] # None
      PROVE  op[o].read[t].version + 1 <= 1 + m
  <2>1. op[o].read[t].version + 1 <= 2 + n /\ op[o].read[t].version \in Nat
    BY <1>2, <1>t, <1>v, BumpedVersion
  <2>2. n + 1 <= m
    BY <1>2, BumpedGrows
  <2> HIDE DEF n, m
  <2> QED BY <1>g, <2>1, <2>2
<1> HIDE DEF n, m
<1>u. CASE UNCHANGED <<tokens, op>>
  BY <1>u, <1>1
<1>o. ASSUME NEW o \in Ops, Manage(o)
      PROVE  /\ tokens'[t] # None => tokens'[t].version <= 1 + m
             /\ \A p \in Ops : op'[p].read[t] # None => op'[p].read[t].version <= 1 + m
  <2>c. op \in [Ops -> OpStates] /\ tokens \in [TokenIds -> Rows \cup {None}]
        /\ \A p \in Ops : op[p] \in OpStates
    BY <1>t DEF TypeOK
  <2>b. ASSUME NEW kind, NEW target, NEW phase, NEW read \in [TokenIds -> Rows \cup {None}],
               Begin(o, kind, target, phase, read), read[t] # None => read[t] = tokens[t]
        PROVE  /\ tokens'[t] # None => tokens'[t].version <= 1 + m
               /\ \A p \in Ops : op'[p].read[t] # None => op'[p].read[t].version <= 1 + m
    BY <2>b, <2>c, <1>1 DEF Begin
  <2>1. ASSUME NEW c \in CredIds, MintBegin(o, c)
        PROVE  /\ tokens'[t] # None => tokens'[t].version <= 1 + m
               /\ \A p \in Ops : op'[p].read[t] # None => op'[p].read[t].version <= 1 + m
    BY <2>1, <2>b DEF MintBegin, NoRows
  <2>2. ASSUME NEW c \in CredIds, DeleteRead(o, c)
        PROVE  /\ tokens'[t] # None => tokens'[t].version <= 1 + m
               /\ \A p \in Ops : op'[p].read[t] # None => op'[p].read[t].version <= 1 + m
    <3> DEFINE read == [u \in TokenIds |->
                          IF u \in Dependents(c) /\ tokens[u].status = "active"
                          THEN tokens[u] ELSE None]
    <3>1. read \in [TokenIds -> Rows \cup {None}] /\ (read[t] # None => read[t] = tokens[t])
      BY <2>c DEF Dependents
    <3>2. Begin(o, "delete", c, "read", read)
      BY <2>2 DEF DeleteRead
    <3> HIDE DEF read
    <3> QED BY <3>1, <3>2, <2>b
  <2>3. ASSUME NEW u \in TokenIds, NEW kind \in {"rotate", "revoke"}, ReadToken(o, kind, u)
        PROVE  /\ tokens'[t] # None => tokens'[t].version <= 1 + m
               /\ \A p \in Ops : op'[p].read[t] # None => op'[p].read[t].version <= 1 + m
    <3> DEFINE read == [NoRows EXCEPT ![u] = tokens[u]]
    <3>1. read \in [TokenIds -> Rows \cup {None}] /\ (read[t] # None => read[t] = tokens[t])
      BY <2>c DEF NoRows
    <3>2. Begin(o, kind, u, "read", read)
      BY <2>3 DEF ReadToken
    <3> HIDE DEF read
    <3> QED BY <3>1, <3>2, <2>b
  <2>r. ASSUME \/ \E result : EndOp(o, result)
               \/ \E phase : op' = [op EXCEPT ![o].phase = phase]
        PROVE  \A p \in Ops : op'[p].read = op[p].read
    <3>1. CASE \E result : EndOp(o, result)
      BY <3>1, <2>c DEF EndOp, OpStates
    <3>2. CASE \E phase : op' = [op EXCEPT ![o].phase = phase]
      BY <3>2, <2>c DEF OpStates
    <3> QED BY <2>r, <3>1, <3>2
  <2>k. ASSUME UNCHANGED tokens, \A p \in Ops : op'[p].read = op[p].read
        PROVE  /\ tokens'[t] # None => tokens'[t].version <= 1 + m
               /\ \A p \in Ops : op'[p].read[t] # None => op'[p].read[t].version <= 1 + m
    BY <2>k, <1>1
  <2>4. CASE MintInvalid(o)
    BY <2>4, <2>r, <2>k DEF MintInvalid
  <2>5. CASE MintCommit(o)
    <3>1. \A p \in Ops : op'[p].read = op[p].read
      BY <2>5, <2>r DEF MintCommit
    <3>2. tokens'[t] = tokens[t] \/ tokens'[t].version = 1
      BY <2>5, <2>c DEF MintCommit
    <3> QED BY <1>1, <1>g, <3>1, <3>2
  <2>6. CASE RotateCommit(o) \/ RevokeCommit(o)
    <3>1. \A p \in Ops : op'[p].read = op[p].read
      BY <2>6, <2>r DEF RotateCommit, RevokeCommit
    <3>2. op[o].phase = "read" /\ op'[o].phase \in {"committed", "done"}
          /\ op[o].kind \in {"rotate", "revoke"}
      <4>1. CASE EndOp(o, "error")
        BY <4>1, <2>6, <2>c DEF EndOp, RotateCommit, RevokeCommit, OpStates
      <4>2. CASE op' = [op EXCEPT ![o].phase = "committed"]
        BY <4>2, <2>6, <2>c DEF RotateCommit, RevokeCommit, OpStates
      <4> QED BY <2>6, <4>1, <4>2 DEF RotateCommit, RevokeCommit
    <3>3. op[o].target \in TokenIds /\ op[o].read[op[o].target] # None
          /\ tokens[op[o].target] \in Rows
      BY <1>t, <3>2 DEF OpInv, OpControl, TypeOK
    <3>4. CASE op[o].target = t
      <4>1. tokens'[t].version = op[o].read[t].version + 1
        <5>1. CASE RotateCommit(o)
          BY <5>1, <2>c, <3>3, <3>4 DEF RotateCommit, Rows
        <5>2. CASE RevokeCommit(o)
          BY <5>2, <2>c, <3>3, <3>4 DEF RevokeCommit, Rows
        <5> QED BY <2>6, <5>1, <5>2
      <4>2. op[o].read[t].version + 1 <= 1 + m
        BY <1>2, <3>2, <3>3, <3>4
      <4> QED BY <1>1, <3>1, <4>1, <4>2
    <3>5. CASE op[o].target # t
      <4>1. tokens'[t] = tokens[t]
        BY <2>6, <2>c, <3>3, <3>5 DEF RotateCommit, RevokeCommit
      <4> QED BY <1>1, <3>1, <4>1
    <3> QED BY <3>4, <3>5
  <2>7. CASE PurgeAfterCommit(o)
    BY <2>7, <2>r, <2>k DEF PurgeAfterCommit
  <2>8. CASE DeletePurge(o)
    BY <2>8, <2>r, <2>k DEF DeletePurge
  <2>9. CASE DeleteCommit(o)
    <3>1. \A p \in Ops : op'[p].read = op[p].read
      BY <2>9, <2>r DEF DeleteCommit
    <3>2. op[o].phase = "purged" /\ op'[o].phase = "done"
      <4>1. op[o].phase = "purged" /\ (EndOp(o, "ok") \/ EndOp(o, "error"))
        BY <2>9 DEF DeleteCommit
      <4>2. ASSUME NEW result, EndOp(o, result) PROVE op'[o].phase = "done"
        BY <4>2, <2>c DEF EndOp, OpStates
      <4> QED BY <4>1, <4>2
    <3>3. CASE tokens'[t] = tokens[t]
      BY <1>1, <3>1, <3>3
    <3>4. CASE tokens'[t] # tokens[t]
      <4>1. op[o].read[t] # None
            /\ tokens'[t] = [tokens[t] EXCEPT !.status = "revoked",
                                              !.version = op[o].read[t].version + 1]
        BY <2>9, <2>c, <3>4 DEF DeleteCommit
      <4>2. tokens[t] \in Rows
        BY <1>t, <4>1 DEF OpInv, OpControl, TypeOK
      <4>3. tokens'[t].version = op[o].read[t].version + 1
        BY <4>1, <4>2 DEF Rows
      <4>4. op[o].read[t].version + 1 <= 1 + m
        BY <1>2, <3>2, <4>1
      <4> QED BY <1>1, <3>1, <4>3, <4>4
    <3> QED BY <3>3, <3>4
  <2> QED BY <1>o, <2>1, <2>2, <2>3, <2>4, <2>5, <2>6, <2>7, <2>8, <2>9 DEF Manage
<1>a. ASSUME NEW a \in Auths, Resolve(a) PROVE UNCHANGED <<tokens, op>>
  BY <1>a DEF Resolve, Present, SelectToken, SelectCredential, ReadCache, SelectRules,
              StoreCache
<1>e. ASSUME NEW u \in TokenIds, Expire(u)
      PROVE  /\ tokens'[t] # None => tokens'[t].version <= 1 + m
             /\ \A p \in Ops : op'[p].read[t] # None => op'[p].read[t].version <= 1 + m
  <2>1. tokens'[t] = tokens[t] \/ (tokens[t] # None /\ tokens'[t].version = tokens[t].version)
    BY <1>e, <1>t DEF Expire, TypeOK, Rows
  <2> QED BY <1>e, <1>1, <2>1 DEF Expire
<1> QED BY <1>u, <1>o, <1>a, <1>e DEF Next, vars

(***************************************************************************)
(* Lookup ids and the rules cache.                                         *)
(***************************************************************************)
\* A step keeps every lookup id, in the table and in the cache, with the token it
\* was issued for.
LEMMA LookupStep == Inv /\ [Next]_vars => LookupInv'
<1> SUFFICES ASSUME Inv, [Next]_vars PROVE LookupInv'
  OBVIOUS
<1> DEFINE Keys == Lookups \X (1..MaxVersion)
<1>t. TypeOK /\ TypeOK' /\ LookupInv /\ AuthInv /\ Evolves
  BY TypeStep, EvolveStep DEF Inv
<1>1. ASSUME NEW t \in TokenIds, tokens'[t] # None PROVE issued'[tokens'[t].lookup] = t
  <2>1. CASE tokens'[t] = tokens[t]
    <3>1. issued[tokens[t].lookup] = t /\ t # None /\ tokens[t].lookup \in Lookups
      BY <1>t, <1>1, <2>1, TokenStoreAssumption DEF LookupInv, TypeOK, Rows
    <3> QED BY <1>t, <2>1, <3>1 DEF Evolves
  <2>2. CASE tokens'[t] # tokens[t]
    BY <1>t, <2>2 DEF Evolves, RowEvolves
  <2> QED BY <2>1, <2>2
<1>2. ASSUME NEW k \in Keys, cache'[k] = None \/ cache'[k] = cache[k], cache'[k] # None
      PROVE  cache'[k] = issued'[k[1]]
  BY <1>t, <1>2 DEF LookupInv, Evolves
<1>3. ASSUME NEW a \in Auths, StoreCache(a), NEW k \in Keys, cache'[k] # None
      PROVE  cache'[k] = issued'[k[1]]
  <2>1. /\ auth[a].row \in Rows /\ auth[a].row.lookup = auth[a].lookup
        /\ issued[auth[a].lookup] = auth[a].token /\ auth[a].rules = auth[a].token
    BY <1>t, <1>3 DEF StoreCache, AuthInv, RowInv
  <2>2. CASE k = RulesKey(auth[a].row)
    <3>1. k[1] = auth[a].lookup
      BY <2>1, <2>2 DEF RulesKey
    <3>2. cache'[k] = auth[a].rules /\ UNCHANGED issued
      BY <1>3, <1>t, <2>2 DEF StoreCache, TypeOK
    <3> QED BY <2>1, <3>1, <3>2
  <2>3. CASE k # RulesKey(auth[a].row)
    <3>1. cache'[k] = cache[k]
      BY <1>3, <1>t, <2>3 DEF StoreCache, TypeOK
    <3> QED BY <1>2, <1>3, <3>1
  <2> QED BY <2>2, <2>3
<1>4. ASSUME NEW o \in Ops, Purged(o), NEW k \in Keys
      PROVE  cache'[k] = None \/ cache'[k] = cache[k]
  BY <1>4, <1>t DEF Purged, TypeOK
<1>5. ASSUME NEW k \in Keys, cache'[k] # None PROVE cache'[k] = issued'[k[1]]
  <2>1. CASE UNCHANGED cache
    BY <1>2, <1>5, <2>1
  <2>2. ASSUME NEW o \in Ops, Manage(o) PROVE Purged(o) \/ UNCHANGED cache
    BY <2>2 DEF Manage, MintBegin, DeleteRead, ReadToken, Begin, MintInvalid, MintCommit,
                RotateCommit, RevokeCommit, PurgeAfterCommit, DeletePurge, DeleteCommit
  <2>3. ASSUME NEW a \in Auths, Resolve(a) PROVE StoreCache(a) \/ UNCHANGED cache
    BY <2>3 DEF Resolve, Present, SelectToken, SelectCredential, ReadCache, SelectRules
  <2>4. ASSUME NEW t \in TokenIds, Expire(t) PROVE UNCHANGED cache
    BY <2>4 DEF Expire
  <2>5. ASSUME NEW o \in Ops, Purged(o) PROVE cache'[k] = issued'[k[1]]
    BY <1>2, <1>4, <1>5, <2>5
  <2>6. ASSUME NEW a \in Auths, StoreCache(a) PROVE cache'[k] = issued'[k[1]]
    BY <1>3, <1>5, <2>6
  <2> QED BY <2>1, <2>2, <2>3, <2>4, <2>5, <2>6 DEF Next, vars
<1> QED BY <1>1, <1>5 DEF LookupInv

(***************************************************************************)
(* Resolution.                                                             *)
(***************************************************************************)
\* While a request waits, nothing comes to life behind its lookup id: a token that is
\* live there now was live before, with the same credential.
LEMMA NothingComesToLife ==
    ASSUME TypeOK, TypeOK', Evolves, NEW l \in Lookups, issued[l] # None,
           NEW t \in TokenIds, tokens'[t] # None, tokens'[t].lookup = l,
           tokens'[t].status = "active"
    PROVE  /\ tokens[t] # None /\ tokens[t].lookup = l /\ tokens[t].status = "active"
           /\ tokens'[t].cred = tokens[t].cred
<1>1. RowEvolves(t)
  BY DEF Evolves
<1>2. CASE tokens'[t] = tokens[t]
  BY <1>2
<1>3. CASE tokens'[t] # tokens[t]
  <2>1. tokens[t] # None /\ tokens'[t].cred = tokens[t].cred
        /\ (tokens[t].status = "revoked" => tokens'[t].status = "revoked")
        /\ tokens'[t].lookup = tokens[t].lookup
    BY <1>1, <1>3 DEF RowEvolves
  <2>2. tokens[t].status \in {"active", "revoked"}
    BY <2>1 DEF TypeOK, Rows
  <2> QED BY <2>1, <2>2
<1> QED BY <1>2, <1>3

\* What holds of a request goes on holding while others move.
LEMMA AuthFrame ==
    ASSUME TypeOK, TypeOK', Evolves, NEW a \in Auths, auth'[a] = auth[a],
           SelectInv(a), RowInv(a), GrantInv(a)
    PROVE  SelectInv(a)' /\ RowInv(a)' /\ GrantInv(a)'
<1>1. SelectInv(a)'
  <2> DEFINE l == auth[a].lookup
             live == {t \in Owner(l) : tokens[t].status = "active"}
             live2 == {t \in TokenIds : tokens'[t] # None /\ tokens'[t].lookup = l
                                          /\ tokens'[t].status = "active"}
  <2>0. SUFFICES ASSUME auth[a].phase = "select"
                 PROVE  /\ l \in Lookups
                        /\ auth[a].genuine => /\ issued'[l] # None
                                              /\ live2 # {} => auth[a].valid
                                              /\ \A t \in live2 : tokens'[t].cred \in creds' =>
                                                                     auth[a].cred_ok
    BY DEF SelectInv, Owner
  <2>1. l \in Lookups
    BY <2>0 DEF SelectInv
  <2>2. ASSUME auth[a].genuine
        PROVE  /\ issued[l] # None /\ (live # {} => auth[a].valid)
               /\ \A t \in live : tokens[t].cred \in creds => auth[a].cred_ok
    BY <2>0, <2>2 DEF SelectInv
  <2>3. ASSUME auth[a].genuine, NEW t \in live2
        PROVE  t \in live /\ tokens'[t].cred = tokens[t].cred
    <3>1. tokens[t] # None /\ tokens[t].lookup = l /\ tokens[t].status = "active"
          /\ tokens'[t].cred = tokens[t].cred
      BY <2>1, <2>2, <2>3, NothingComesToLife
    <3> QED BY <3>1 DEF Owner
  <2>4. creds' \subseteq creds /\ (issued[l] # None => issued'[l] # None)
    BY <2>1 DEF Evolves
  <2> HIDE DEF live, live2, l
  <2> QED BY <2>1, <2>2, <2>3, <2>4
<1>2. RowInv(a)'
  <2>1. creds' \subseteq creds
    BY DEF Evolves
  <2>2. ASSUME auth[a].phase \in {"credential", "cache", "rules", "store"}
        PROVE  issued'[auth[a].lookup] = auth[a].token
    BY <2>2, TokenStoreAssumption DEF RowInv, Evolves
  <2> QED BY <2>1, <2>2 DEF RowInv
<1>3. GrantInv(a)'
  BY DEF GrantInv, Evolves
<1> QED BY <1>1, <1>2, <1>3

\* A step of a request keeps what is known of it.
LEMMA AuthStep == Inv /\ [Next]_vars => AuthInv'
<1> SUFFICES ASSUME Inv, [Next]_vars PROVE AuthInv'
  OBVIOUS
<1>t. TypeOK /\ TypeOK' /\ LookupInv /\ AuthInv /\ Evolves
  BY TypeStep, EvolveStep DEF Inv
<1>f. ASSUME NEW a \in Auths, auth'[a] = auth[a]
      PROVE  SelectInv(a)' /\ RowInv(a)' /\ GrantInv(a)'
  BY <1>t, <1>f, AuthFrame DEF AuthInv
<1>u. CASE UNCHANGED auth
  BY <1>u, <1>f DEF AuthInv
<1>a. ASSUME NEW a \in Auths, Resolve(a) PROVE AuthInv'
  <2>c. /\ auth \in [Auths -> AuthStates] /\ auth[a] \in AuthStates
        /\ SelectInv(a) /\ RowInv(a) /\ GrantInv(a)
    BY <1>t DEF TypeOK, AuthInv
  <2>0. \A b \in Auths \ {a} : auth'[b] = auth[b]
    BY <1>a, <2>c DEF Resolve, Present, SelectToken, SelectCredential, ReadCache, SelectRules,
                      StoreCache, EndAuth
  <2>s. SUFFICES SelectInv(a)' /\ RowInv(a)' /\ GrantInv(a)'
    BY <2>0, <1>f DEF AuthInv
  <2>e. ASSUME NEW result \in {"rejected", "error"}, EndAuth(a, result)
        PROVE  SelectInv(a)' /\ RowInv(a)' /\ GrantInv(a)'
    <3>1. auth'[a].phase = "done" /\ auth'[a].result = result
      BY <2>e, <2>c DEF EndAuth, AuthStates
    <3> QED BY <3>1 DEF SelectInv, RowInv, GrantInv
  <2>n. auth[a].phase \in {"select", "credential", "cache", "rules", "store", "idle"} =>
           auth[a].result # "granted"
    BY <2>c DEF GrantInv
  <2>1. ASSUME NEW l \in Lookups, NEW genuine \in BOOLEAN, Present(a, l, genuine)
        PROVE  SelectInv(a)' /\ RowInv(a)' /\ GrantInv(a)'
    <3> DEFINE live == {t \in Owner(l) : genuine /\ tokens[t].status = "active"}
    <3>1. /\ auth'[a].phase = "select" /\ auth'[a].lookup = l /\ auth'[a].genuine = genuine
          /\ auth'[a].valid = (live # {}) /\ auth'[a].result = auth[a].result
          /\ auth'[a].cred_ok = (\E t \in live : tokens[t].cred \in creds)
      BY <2>1, <2>c DEF Present, AuthStates
    <3>2. auth[a].phase = "idle" /\ (genuine => issued[l] # None)
          /\ UNCHANGED <<tokens, creds, issued>>
      BY <2>1 DEF Present
    <3>3. GrantInv(a)' /\ RowInv(a)'
      BY <2>n, <3>1, <3>2 DEF GrantInv, RowInv
    <3>4. ASSUME genuine PROVE live = {t \in Owner(l) : tokens[t].status = "active"}
      BY <3>4
    <3>5. Owner(l)' = Owner(l)
      BY <3>2 DEF Owner
    <3>6. SelectInv(a)'
      <4> HIDE DEF live
      <4> QED BY <3>1, <3>2, <3>4, <3>5 DEF SelectInv, Owner
    <3> QED BY <3>3, <3>6
  <2>2. CASE SelectToken(a)
    <3>1. ASSUME NEW t \in Owner(auth[a].lookup), auth[a].phase = "select",
                 \E u \in Owner(auth[a].lookup) : auth[a].genuine /\ tokens[u].status = "active",
                 auth' = [auth EXCEPT ![a].phase = "credential",
                                      ![a].token = t, ![a].row = tokens[t]],
                 UNCHANGED <<tokens, creds, issued>>
          PROVE  SelectInv(a)' /\ RowInv(a)' /\ GrantInv(a)'
      <4> DEFINE l == auth[a].lookup
      <4>1. /\ auth'[a].phase = "credential" /\ auth'[a].lookup = l
            /\ auth'[a].token = t /\ auth'[a].row = tokens[t]
            /\ auth'[a].valid = auth[a].valid /\ auth'[a].cred_ok = auth[a].cred_ok
            /\ auth'[a].result = auth[a].result
        BY <3>1, <2>c DEF AuthStates
      <4>2. \A u \in Owner(l) : u \in TokenIds /\ tokens[u] \in Rows /\ tokens[u].lookup = l
                                 /\ issued[l] = u
        BY <1>t DEF Owner, TypeOK, LookupInv
      <4>3. tokens[t].status = "active" /\ auth[a].genuine
        <5>1. PICK u \in Owner(l) : auth[a].genuine /\ tokens[u].status = "active"
          BY <3>1
        <5>2. u = t
          BY <4>2
        <5> QED BY <5>1, <5>2
      <4>4. l \in Lookups /\ auth[a].valid /\ (tokens[t].cred \in creds => auth[a].cred_ok)
        BY <2>c, <3>1, <4>3 DEF SelectInv
      <4>5. SelectInv(a)' /\ GrantInv(a)'
        BY <2>n, <3>1, <4>1 DEF SelectInv, GrantInv
      <4>6. RowInv(a)'
        <5>1. auth'[a].row \in Rows /\ auth'[a].row.lookup = auth'[a].lookup
              /\ auth'[a].token \in TokenIds /\ auth'[a].lookup \in Lookups
          BY <4>1, <4>2, <4>4
        <5>2. issued'[auth'[a].lookup] = auth'[a].token /\ auth'[a].valid
          BY <3>1, <4>1, <4>2, <4>4
        <5>3. auth'[a].row.cred \in creds' => auth'[a].cred_ok
          BY <3>1, <4>1, <4>4
        <5> QED BY <4>1, <5>1, <5>2, <5>3 DEF RowInv
      <4> QED BY <4>5, <4>6
    <3>2. CASE EndAuth(a, "rejected") \/ EndAuth(a, "error")
      BY <3>2, <2>e
    <3> QED BY <2>2, <3>1, <3>2 DEF SelectToken
  <2>3. CASE SelectCredential(a)
    <3>1. CASE EndAuth(a, "rejected")
      BY <3>1, <2>e
    <3>2. CASE auth' = [auth EXCEPT ![a].phase = "cache"] /\ auth[a].row.cred \in creds
      <4>1. auth'[a] = [auth[a] EXCEPT !.phase = "cache"]
        BY <2>c, <3>2
      <4>2. auth[a].phase = "credential" /\ UNCHANGED <<tokens, creds, issued>>
        BY <2>3 DEF SelectCredential
      <4> QED BY <2>c, <2>n, <3>2, <4>1, <4>2 DEF SelectInv, RowInv, GrantInv, AuthStates
    <3> QED BY <2>3, <3>1, <3>2 DEF SelectCredential
  <2>4. CASE ReadCache(a)
    <3>0. auth[a].phase = "cache" /\ UNCHANGED <<tokens, creds, issued>>
      BY <2>4 DEF ReadCache
    <3>1. CASE auth' = [auth EXCEPT ![a].phase = "rules"]
      <4>1. auth'[a] = [auth[a] EXCEPT !.phase = "rules"]
        BY <2>c, <3>1
      <4> QED BY <2>c, <2>n, <3>0, <4>1 DEF SelectInv, RowInv, GrantInv, AuthStates
    <3>2. ASSUME cache[RulesKey(auth[a].row)] # None,
                 auth' = [auth EXCEPT ![a].phase = "done", ![a].result = "granted",
                                      ![a].rules = cache[RulesKey(auth[a].row)]]
          PROVE  SelectInv(a)' /\ RowInv(a)' /\ GrantInv(a)'
      <4>1. auth'[a] = [auth[a] EXCEPT !.phase = "done", !.result = "granted",
                                       !.rules = cache[RulesKey(auth[a].row)]]
        BY <2>c, <3>2
      <4>2. /\ auth[a].row \in Rows /\ auth[a].row.lookup = auth[a].lookup
            /\ auth[a].lookup \in Lookups /\ auth[a].valid /\ auth[a].cred_ok
        BY <2>c, <3>0 DEF RowInv
      <4>3. RulesKey(auth[a].row) \in Lookups \X (1..MaxVersion)
            /\ RulesKey(auth[a].row)[1] = auth[a].lookup
        BY <4>2 DEF RulesKey, Rows
      <4>4. cache[RulesKey(auth[a].row)] = issued[auth[a].lookup]
        BY <1>t, <3>2, <4>3 DEF LookupInv
      <4> QED BY <2>c, <3>0, <3>2, <4>1, <4>2, <4>4 DEF SelectInv, RowInv, GrantInv, AuthStates
    <3> QED BY <2>4, <3>1, <3>2 DEF ReadCache
  <2>5. CASE SelectRules(a)
    <3>1. auth'[a] = [auth[a] EXCEPT !.phase = "store", !.rules = auth[a].token]
      BY <2>5, <2>c DEF SelectRules
    <3>2. auth[a].phase = "rules" /\ UNCHANGED <<tokens, creds, issued>>
      BY <2>5 DEF SelectRules
    <3> QED BY <2>c, <2>n, <3>1, <3>2 DEF SelectInv, RowInv, GrantInv, AuthStates
  <2>6. CASE StoreCache(a)
    <3>1. auth'[a] = [auth[a] EXCEPT !.phase = "done", !.result = "granted"]
      BY <2>6, <2>c DEF StoreCache, EndAuth
    <3>2. auth[a].phase = "store" /\ UNCHANGED <<tokens, creds, issued>>
      BY <2>6 DEF StoreCache
    <3> QED BY <2>c, <3>1, <3>2, TokenStoreAssumption DEF SelectInv, RowInv, GrantInv, AuthStates
  <2> QED BY <1>a, <2>1, <2>2, <2>3, <2>4, <2>5, <2>6 DEF Resolve
<1>o. ASSUME NEW o \in Ops, Manage(o) PROVE UNCHANGED auth
  BY <1>o DEF Manage, MintBegin, DeleteRead, ReadToken, Begin, MintInvalid, MintCommit,
              RotateCommit, RevokeCommit, PurgeAfterCommit, DeletePurge, DeleteCommit
<1>e. ASSUME NEW t \in TokenIds, Expire(t) PROVE UNCHANGED auth
  BY <1>e DEF Expire
<1> QED BY <1>u, <1>a, <1>o, <1>e DEF Next, vars

(***************************************************************************)
(* The theorems.                                                           *)
(***************************************************************************)
\* The invariant holds when the server starts.
LEMMA InitInv == Init => Inv
<1> SUFFICES ASSUME Init PROVE Inv
  OBVIOUS
<1> USE DEF Init
<1>1. /\ tokens \in [TokenIds -> Rows \cup {None}]
      /\ \A t \in TokenIds : tokens[t] # None => tokens[t].version = 1
      /\ \A t, u \in TokenIds :
            tokens[t] # None /\ tokens[u] # None /\ tokens[t].lookup = tokens[u].lookup => t = u
  BY InitialTokensAssumption
<1>i. issued = [l \in Lookups |->
                  IF \E t \in TokenIds : tokens[t] # None /\ tokens[t].lookup = l
                  THEN CHOOSE t \in TokenIds : tokens[t] # None /\ tokens[t].lookup = l
                  ELSE None]
  BY Zenon
<1>2. ASSUME NEW l \in Lookups
      PROVE  \/ issued[l] = None
             \/ /\ issued[l] \in TokenIds /\ tokens[issued[l]] # None
                /\ tokens[issued[l]].lookup = l
  <2> DEFINE P(t) == tokens[t] # None /\ tokens[t].lookup = l
  <2>1. issued[l] = IF \E t \in TokenIds : P(t) THEN CHOOSE t \in TokenIds : P(t) ELSE None
    BY <1>i, Zenon
  <2>2. CASE \E t \in TokenIds : P(t)
    <3>1. issued[l] = CHOOSE t \in TokenIds : P(t)
      BY <2>1, <2>2
    <3>2. issued[l] \in TokenIds /\ P(issued[l])
      BY <2>2, <3>1
    <3> QED BY <3>2
  <2> QED BY <2>1, <2>2
<1>3. \A t \in TokenIds : tokens[t] # None =>
           tokens[t].lookup \in Lookups /\ issued[tokens[t].lookup] # None
  <2> SUFFICES ASSUME NEW t \in TokenIds, tokens[t] # None
               PROVE  tokens[t].lookup \in Lookups /\ issued[tokens[t].lookup] # None
    OBVIOUS
  <2>1. tokens[t].lookup \in Lookups
    BY <1>1 DEF Rows
  <2>2. issued[tokens[t].lookup] \in TokenIds
    BY <2>1
  <2> QED BY <2>1, <2>2, TokenStoreAssumption
<1>4. LookupInv
  BY <1>1, <1>2, <1>3 DEF LookupInv
<1>5. TypeOK
  <2>1. issued \in [Lookups -> TokenIds \cup {None}]
    BY <1>2
  <2>2. op \in [Ops -> OpStates]
    BY DEF OpStates, NoRows
  <2>3. auth \in [Auths -> AuthStates]
    BY DEF AuthStates
  <2> QED BY <1>1, <2>1, <2>2, <2>3, TokenStoreAssumption DEF TypeOK
<1>6. OpInv
  BY NoneAssumption DEF OpInv, OpControl, RevokeHolds, NoRows
<1>7. VersionInv
  BY <1>1, OpsFinite DEF VersionInv, NoRows
<1>8. AuthInv
  BY NoneAssumption DEF AuthInv, SelectInv, RowInv, GrantInv
<1> QED BY <1>4, <1>5, <1>6, <1>7, <1>8 DEF Inv

\* And every step keeps it.
LEMMA InvStep == Inv /\ [Next]_vars => Inv'
  BY TypeStep, OpStep, VersionStep, LookupStep, AuthStep DEF Inv

\* The state of the token store is well-typed; in particular no permission version
\* exceeds the number of operations, however rotations, revocations and deletions
\* race for the version they read.
THEOREM TypeCorrect == Spec => []TypeOK
  BY InitInv, InvStep, PTL DEF Spec, Inv

\* Revocation is final: no rotate_scoped_token, revoke_scoped_token or
\* delete_credential that read a row before it was revoked brings it back.
THEOREM RevocationIsFinal == Spec => RevokedIsFinal
<1>1. Inv /\ [Next]_vars =>
        [\A t \in TokenIds : tokens[t] # None /\ tokens[t].status = "revoked" =>
                                tokens'[t] # None /\ tokens'[t].status = "revoked"]_vars
  BY EvolveStep, NoneAssumption DEF Evolves, RowEvolves
<1> QED BY <1>1, InitInv, InvStep, PTL DEF Spec, RevokedIsFinal

\* revoke_scoped_token answers 200 only when its token is revoked, and it stays so.
THEOREM RevocationHolds == Spec => []RevokeRevokes
<1>1. Inv => RevokeRevokes
  BY DEF Inv, OpInv, RevokeHolds, RevokeRevokes
<1> QED BY <1>1, InitInv, InvStep, PTL DEF Spec

\* resolve_scoped_token grants nothing to a string that was dead when it was presented.
THEOREM DeadTokensAreRejected == Spec => []DeadTokenIsRejected
<1>1. Inv => DeadTokenIsRejected
  BY DEF Inv, AuthInv, GrantInv, DeadTokenIsRejected
<1> QED BY <1>1, InitInv, InvStep, PTL DEF Spec

\* Nor to one whose credential was gone by then.
THEOREM DeletedCredentialsAreRejected == Spec => []DeletedCredentialIsRejected
<1>1. Inv => DeletedCredentialIsRejected
  BY DEF Inv, AuthInv, GrantInv, DeletedCredentialIsRejected
<1> QED BY <1>1, InitInv, InvStep, PTL DEF Spec

\* The rules a request is judged by, cached or not, are its own token's.
THEOREM RulesAreOwn == Spec => []OwnRules
<1>1. Inv => OwnRules
  BY DEF Inv, AuthInv, GrantInv, OwnRules
<1> QED BY <1>1, InitInv, InvStep, PTL DEF Spec
=============================================================================
