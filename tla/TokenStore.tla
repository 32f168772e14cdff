----------------------------- MODULE TokenStore -----------------------------
(***************************************************************************)
(* The life of scoped tokens: management operations on the token and       *)
(* credential rows (services/token_service.py, delete_credential of        *)
(* services/credential_service.py) racing with each other and with the     *)
(* resolution of presented tokens (auth/proxy_auth.py), in front of a      *)
(* Redis cache of rules that may forget, or fail, at any time.             *)
(*                                                                         *)
(* Management operations read their rows, await, and commit what they      *)
(* changed: SQLAlchemy writes only the columns an operation assigned, so a *)
(* commit overwrites some columns of a row that may have changed since it  *)
(* was read.  Every SELECT reads committed rows on its own, which includes *)
(* what the snapshots of MySQL's REPEATABLE READ allow.                    *)
(*                                                                         *)
(* A raw token is a lookup id and a secret.  Strings with a given lookup   *)
(* id are the genuine one, which hashes to the row's token_hash, and       *)
(* others, for which one forged string stands.                             *)
(***************************************************************************)
EXTENDS Naturals, FiniteSets

CONSTANTS
    None,
    TokenIds, CredIds,
    Lookups,      \* lookup ids generate_scoped_token may draw; it never draws one twice
    Ops,          \* management requests
    Auths,        \* proxied requests
    Kinds,        \* the operations management requests may ask for
    Expiries,     \* subset of {None, "future"}: expires_at of minted tokens
    ForeignKeys,  \* subset of BOOLEAN: may the database enforce foreign keys?
    InitialTokens \* the token rows there may be at the start

ASSUME TokenStoreAssumption ==
    /\ None \notin TokenIds \cup CredIds \cup Lookups
    /\ Kinds \subseteq {"mint", "rotate", "revoke", "delete"}
    /\ Expiries \subseteq {None, "future"}
    /\ ForeignKeys \subseteq BOOLEAN /\ ForeignKeys # {}
    /\ IsFiniteSet(Ops)

MaxVersion == 1 + Cardinality(Ops)   \* every operation adds at most one

VARIABLES
    fk,      \* TRUE on MySQL, FALSE on SQLite (which does not enforce them)
    tokens,  \* token id -> its scoped_tokens row, or None
    creds,   \* the ids of the upstream_credentials rows
    cache,   \* <<lookup id, version>> -> the token whose rules are cached, or None
    issued,  \* lookup id -> the token it was generated for, or None
    op,      \* management request -> its progress
    auth     \* proxied request -> its progress

vars == <<fk, tokens, creds, cache, issued, op, auth>>

Rows == [cred : CredIds, lookup : Lookups, version : 1..MaxVersion,
         status : {"active", "revoked"}, expires : {None, "future", "past"}]

\* None is neither a row nor one of the strings it stands beside.
ASSUME NoneAssumption ==
    /\ None \notin Rows
    /\ None \notin {"mint", "rotate", "revoke", "delete", "ok", "error",
                   "granted", "rejected", "future", "past"}

\* The rows at the start are new, and scoped_tokens.lookup_id is unique.
ASSUME InitialTokensAssumption ==
    \A rows \in InitialTokens :
        /\ rows \in [TokenIds -> Rows \cup {None}]
        /\ \A t \in TokenIds : rows[t] # None => rows[t].version = 1
        /\ \A t, u \in TokenIds :
              rows[t] # None /\ rows[u] # None /\ rows[t].lookup = rows[u].lookup => t = u

\* read: the rows the operation loaded, by token id.
OpStates == [phase : {"idle", "validating", "read", "purged", "committed", "done"},
             kind : Kinds \cup {None}, target : TokenIds \cup CredIds \cup {None},
             read : [TokenIds -> Rows \cup {None}],
             result : {None, "ok", "error"}]

\* row: the loaded token row and its id; valid, cred_ok: was the string that of an
\* active token, and did its credential exist, when the request arrived?
AuthStates == [phase : {"idle", "select", "credential", "cache", "rules", "store", "done"},
               lookup : Lookups \cup {None}, genuine : BOOLEAN,
               token : TokenIds \cup {None}, row : Rows \cup {None},
               rules : TokenIds \cup {None},
               result : {None, "granted", "rejected", "error"},
               valid : BOOLEAN, cred_ok : BOOLEAN]

NoRows == [t \in TokenIds |-> None]

Init ==
    /\ fk \in ForeignKeys
    /\ tokens \in InitialTokens
    /\ creds = CredIds
    /\ cache = [k \in Lookups \X (1..MaxVersion) |-> None]
    /\ issued = [l \in Lookups |->
                   IF \E t \in TokenIds : tokens[t] # None /\ tokens[t].lookup = l
                   THEN CHOOSE t \in TokenIds : tokens[t] # None /\ tokens[t].lookup = l
                   ELSE None]
    /\ op = [o \in Ops |-> [phase |-> "idle", kind |-> None, target |-> None,
                            read |-> NoRows, result |-> None]]
    /\ auth = [a \in Auths |->
                 [phase |-> "idle", lookup |-> None, genuine |-> FALSE, token |-> None,
                  row |-> None, rules |-> None, result |-> None,
                  valid |-> FALSE, cred_ok |-> FALSE]]

\* Mutant of RulesKey: the lookup id is left out of the key.
RulesKeyByVersion(row) == <<CHOOSE l \in Lookups : TRUE, row.version>>

\* rules_key
RulesKey(row) == <<row.lookup, row.version>>

FreshLookups == {l \in Lookups : issued[l] = None}

\* The rows bound to credential c, revoked ones included.
Dependents(c) == {t \in TokenIds : tokens[t] # None /\ tokens[t].cred = c}

(***************************************************************************)
(* Management operations.  One that does not find its row, or finds it to  *)
(* be another user's, answers 404 and changes nothing: it does not begin.  *)
(***************************************************************************)
EndOp(o, result) == op' = [op EXCEPT ![o].phase = "done", ![o].result = result]

Begin(o, kind, target, phase, read) ==
    /\ op[o].phase = "idle" /\ kind \in Kinds
    /\ op' = [op EXCEPT ![o] = [phase |-> phase, kind |-> kind, target |-> target,
                                read |-> read, result |-> None]]
    /\ UNCHANGED <<fk, tokens, creds, cache, issued, auth>>

\* mint_scoped_token: get_owned_credential; zone lookups are awaited after it.
MintBegin(o, c) == c \in creds /\ Begin(o, "mint", c, "validating", NoRows)

\* The rules did not validate.
MintInvalid(o) ==
    /\ op[o].phase = "validating"
    /\ EndOp(o, "error")
    /\ UNCHANGED <<fk, tokens, creds, cache, issued, auth>>

\* flush and commit of the new row; the credential may be gone by now.  When the row cannot
\* be read back (session.refresh) the token is there, and the caller has an error for it.
MintCommit(o) ==
    /\ op[o].phase = "validating"
    /\ \/ /\ fk /\ op[o].target \notin creds
          /\ EndOp(o, "error")
          /\ UNCHANGED <<tokens, issued>>
       \/ /\ ~fk \/ op[o].target \in creds
          /\ \E t \in TokenIds, l \in FreshLookups, e \in Expiries :
                /\ tokens[t] = None
                /\ tokens' = [tokens EXCEPT ![t] =
                      [cred |-> op[o].target, lookup |-> l, version |-> 1,
                       status |-> "active", expires |-> e]]
                /\ issued' = [issued EXCEPT ![l] = t]
          /\ EndOp(o, "ok") \/ EndOp(o, "error")
    /\ UNCHANGED <<fk, creds, cache, auth>>

\* _get_owned_scoped_token, for rotate_ and revoke_scoped_token.
ReadToken(o, kind, t) ==
    /\ kind \in {"rotate", "revoke"} /\ tokens[t] # None
    /\ Begin(o, kind, t, "read", [NoRows EXCEPT ![t] = tokens[t]])

\* Mutant of RotateCommit: the whole row is written back as it was read.
RotateCommitWholeRow(o) ==
    /\ op[o].phase = "read" /\ op[o].kind = "rotate"
    /\ LET t == op[o].target
           row == op[o].read[t]
       IN  \E l \in FreshLookups :
             /\ tokens' = [tokens EXCEPT ![t] =
                             [row EXCEPT !.lookup = l, !.version = row.version + 1]]
             /\ issued' = [issued EXCEPT ![l] = t]
    /\ op' = [op EXCEPT ![o].phase = "committed"] \/ EndOp(o, "error")
    /\ UNCHANGED <<fk, creds, cache, auth>>

\* rotate_scoped_token: a new lookup id and secret, and the version that was read
\* plus one.  When the row cannot be read back the rotation stands, nothing is purged and
\* the caller has an error, not the new secret.
RotateCommit(o) ==
    /\ op[o].phase = "read" /\ op[o].kind = "rotate"
    /\ LET t == op[o].target
       IN  \E l \in FreshLookups :
             /\ tokens' = [tokens EXCEPT ![t].lookup = l,
                                         ![t].version = op[o].read[t].version + 1]
             /\ issued' = [issued EXCEPT ![l] = t]
    /\ op' = [op EXCEPT ![o].phase = "committed"] \/ EndOp(o, "error")
    /\ UNCHANGED <<fk, creds, cache, auth>>

\* Mutant of RevokeCommit: only the version is bumped, to flush the cached rules.
RevokeCommitVersionOnly(o) ==
    /\ op[o].phase = "read" /\ op[o].kind = "revoke"
    /\ LET t == op[o].target
       IN  tokens' = [tokens EXCEPT ![t].version = op[o].read[t].version + 1]
    /\ op' = [op EXCEPT ![o].phase = "committed"]
    /\ UNCHANGED <<fk, creds, cache, issued, auth>>

\* Mutant of RevokeCommit: a status nobody else knows.
RevokeCommitInactive(o) ==
    /\ op[o].phase = "read" /\ op[o].kind = "revoke"
    /\ LET t == op[o].target
       IN  tokens' = [tokens EXCEPT ![t].status = "inactive",
                                    ![t].version = op[o].read[t].version + 1]
    /\ op' = [op EXCEPT ![o].phase = "committed"]
    /\ UNCHANGED <<fk, creds, cache, issued, auth>>

\* revoke_scoped_token.
RevokeCommit(o) ==
    /\ op[o].phase = "read" /\ op[o].kind = "revoke"
    /\ LET t == op[o].target
       IN  tokens' = [tokens EXCEPT ![t].status = "revoked",
                                    ![t].version = op[o].read[t].version + 1]
    /\ op' = [op EXCEPT ![o].phase = "committed"]
    /\ UNCHANGED <<fk, creds, cache, issued, auth>>

\* cache_del of the keys of the rows that were read; Redis errors are swallowed.
Purged(o) ==
    LET keys == {RulesKey(op[o].read[t]) : t \in {u \in TokenIds : op[o].read[u] # None}}
    IN  cache' \in {cache, [k \in DOMAIN cache |-> IF k \in keys THEN None ELSE cache[k]]}

\* The last statement of rotate and revoke.
PurgeAfterCommit(o) ==
    /\ op[o].phase = "committed"
    /\ Purged(o)
    /\ EndOp(o, "ok")
    /\ UNCHANGED <<fk, tokens, creds, issued, auth>>

\* delete_credential: the credential and its active tokens are read.
DeleteRead(o, c) ==
    /\ c \in creds
    /\ Begin(o, "delete", c, "read",
             [t \in TokenIds |-> IF t \in Dependents(c) /\ tokens[t].status = "active"
                                 THEN tokens[t] ELSE None])

\* delete_credential purges before it commits.
DeletePurge(o) ==
    /\ op[o].phase = "read" /\ op[o].kind = "delete"
    /\ Purged(o)
    /\ op' = [op EXCEPT ![o].phase = "purged"]
    /\ UNCHANGED <<fk, tokens, creds, issued, auth>>

\* One transaction: the tokens that were read are revoked and the credential row
\* is deleted.  scoped_tokens rows are never deleted and their foreign key has no
\* ON DELETE: where it is enforced a dependent row, revoked or not, makes the
\* statement fail and everything is rolled back.
DeleteCommit(o) ==
    /\ op[o].phase = "purged"
    /\ \/ /\ fk /\ Dependents(op[o].target) # {}
          /\ EndOp(o, "error")
          /\ UNCHANGED <<tokens, creds>>
       \/ /\ ~fk \/ Dependents(op[o].target) = {}
          /\ tokens' = [t \in TokenIds |->
                          IF op[o].read[t] = None THEN tokens[t]
                          ELSE [tokens[t] EXCEPT !.status = "revoked",
                                                 !.version = op[o].read[t].version + 1]]
          /\ creds' = creds \ {op[o].target}
          /\ EndOp(o, "ok")
    /\ UNCHANGED <<fk, cache, issued, auth>>

(***************************************************************************)
(* resolve_scoped_token.                                                   *)
(***************************************************************************)
Owner(l) == {t \in TokenIds : tokens[t] # None /\ tokens[t].lookup = l}

EndAuth(a, result) == auth' = [auth EXCEPT ![a].phase = "done", ![a].result = result]

\* A client presents a token string; a genuine one it was given before (one that the
\* caller was not told, for an error after the commit, counts as given).
Present(a, l, genuine) ==
    LET live == {t \in Owner(l) : genuine /\ tokens[t].status = "active"}
    IN  /\ auth[a].phase = "idle"
        /\ genuine => issued[l] # None
        /\ auth' = [auth EXCEPT ![a].phase = "select", ![a].lookup = l,
                                ![a].genuine = genuine,
                                ![a].valid = live # {},
                                ![a].cred_ok = \E t \in live : tokens[t].cred \in creds]
        /\ UNCHANGED <<fk, tokens, creds, cache, issued, op>>

\* Mutant of SelectToken: cached rules vouch for the token's status.
SelectTokenCacheFirst(a) ==
    LET l == auth[a].lookup
    IN  /\ auth[a].phase = "select"
        /\ \/ /\ \A t \in Owner(l) :
                    \/ ~auth[a].genuine
                    \/ tokens[t].status # "active" /\ \A v \in 1..MaxVersion : cache[<<l, v>>] = None
              /\ EndAuth(a, "rejected")
           \/ \E t \in Owner(l) :
                 /\ auth[a].genuine
                 /\ tokens[t].status = "active" \/ \E v \in 1..MaxVersion : cache[<<l, v>>] # None
                 /\ auth' = [auth EXCEPT ![a].phase = "credential", ![a].token = t,
                                         ![a].row = tokens[t]]
        /\ UNCHANGED <<fk, tokens, creds, cache, issued, op>>

\* The authoritative SELECT by lookup id, and the checks on its row: hash, status,
\* expiry.  The expires_at that comes back from the database has no time zone, and
\* comparing it with datetime.now(UTC) raises TypeError.
SelectToken(a) ==
    LET rejected == \A t \in Owner(auth[a].lookup) :
                        ~auth[a].genuine \/ tokens[t].status # "active"
    IN  /\ auth[a].phase = "select"
        /\ \/ rejected /\ EndAuth(a, "rejected")
           \/ \E t \in Owner(auth[a].lookup) :
                 /\ ~rejected
                 /\ \/ tokens[t].expires # None /\ EndAuth(a, "error")
                    \/ /\ tokens[t].expires = None
                       /\ auth' = [auth EXCEPT ![a].phase = "credential",
                                               ![a].token = t, ![a].row = tokens[t]]
        /\ UNCHANGED <<fk, tokens, creds, cache, issued, op>>

\* Mutant of SelectCredential: a missing credential row is not noticed.
SelectCredentialUnchecked(a) ==
    /\ auth[a].phase = "credential"
    /\ auth' = [auth EXCEPT ![a].phase = "cache"]
    /\ UNCHANGED <<fk, tokens, creds, cache, issued, op>>

\* The credential row the token is bound to.
SelectCredential(a) ==
    /\ auth[a].phase = "credential"
    /\ IF auth[a].row.cred \in creds
       THEN auth' = [auth EXCEPT ![a].phase = "cache"]
       ELSE EndAuth(a, "rejected")
    /\ UNCHANGED <<fk, tokens, creds, cache, issued, op>>

\* _get_cached_rules: a hit or a miss.  A miss is possible at any time: the entry
\* was never stored, its TTL ran out, Redis was flushed or is down, it cannot be
\* decoded.
ReadCache(a) ==
    /\ auth[a].phase = "cache"
    /\ \/ auth' = [auth EXCEPT ![a].phase = "rules"]
       \/ /\ cache[RulesKey(auth[a].row)] # None
          /\ auth' = [auth EXCEPT ![a].phase = "done", ![a].result = "granted",
                                  ![a].rules = cache[RulesKey(auth[a].row)]]
    /\ UNCHANGED <<fk, tokens, creds, cache, issued, op>>

\* The SELECT of the scope_rules rows; they are written once, with their token.
SelectRules(a) ==
    /\ auth[a].phase = "rules"
    /\ auth' = [auth EXCEPT ![a].phase = "store", ![a].rules = auth[a].token]
    /\ UNCHANGED <<fk, tokens, creds, cache, issued, op>>

\* _set_cached_rules, and the context is returned.  A write that fails is one that
\* all later reads miss.
StoreCache(a) ==
    /\ auth[a].phase = "store"
    /\ cache' = [cache EXCEPT ![RulesKey(auth[a].row)] = auth[a].rules]
    /\ EndAuth(a, "granted")
    /\ UNCHANGED <<fk, tokens, creds, issued, op>>

(***************************************************************************)
(* The environment.                                                        *)
(***************************************************************************)
\* The clock passes the expires_at of a token.
Expire(t) ==
    /\ tokens[t] # None /\ tokens[t].expires = "future"
    /\ tokens' = [tokens EXCEPT ![t].expires = "past"]
    /\ UNCHANGED <<fk, creds, cache, issued, op, auth>>

Manage(o) ==
    \/ \E c \in CredIds : MintBegin(o, c) \/ DeleteRead(o, c)
    \/ \E t \in TokenIds : ReadToken(o, "rotate", t) \/ ReadToken(o, "revoke", t)
    \/ MintInvalid(o) \/ MintCommit(o)
    \/ RotateCommit(o) \/ RevokeCommit(o) \/ PurgeAfterCommit(o)
    \/ DeletePurge(o) \/ DeleteCommit(o)

Resolve(a) ==
    \/ \E l \in Lookups, genuine \in BOOLEAN : Present(a, l, genuine)
    \/ SelectToken(a) \/ SelectCredential(a)
    \/ ReadCache(a) \/ SelectRules(a) \/ StoreCache(a)

Next ==
    \/ \E o \in Ops : Manage(o)
    \/ \E a \in Auths : Resolve(a)
    \/ \E t \in TokenIds : Expire(t)

Spec == Init /\ [][Next]_vars

(***************************************************************************)
(* Properties.                                                             *)
(***************************************************************************)
TypeOK ==
    /\ fk \in BOOLEAN
    /\ tokens \in [TokenIds -> Rows \cup {None}]
    /\ creds \subseteq CredIds
    /\ cache \in [Lookups \X (1..MaxVersion) -> TokenIds \cup {None}]
    /\ issued \in [Lookups -> TokenIds \cup {None}]
    /\ op \in [Ops -> OpStates]
    /\ auth \in [Auths -> AuthStates]

\* A revoked token stays revoked, whatever rotation, revocation or credential
\* deletion read its row before the revocation and commits after it.
RevokedIsFinal ==
    [][\A t \in TokenIds :
         tokens[t] # None /\ tokens[t].status = "revoked" =>
             tokens'[t] # None /\ tokens'[t].status = "revoked"]_vars

\* A revocation that was answered with 200 has revoked its token.
RevokeRevokes ==
    \A o \in Ops :
        op[o].kind = "revoke" /\ op[o].result = "ok" =>
            tokens[op[o].target].status = "revoked"

\* A request that arrives after its token was revoked, rotated away or deleted with
\* its credential is turned down, however warm the rules cache is: "the
\* authoritative indexed SELECT" decides.
DeadTokenIsRejected ==
    \A a \in Auths : auth[a].result = "granted" => auth[a].valid

\* Nor does a request get through on a credential that was deleted before it came,
\* not even with a token minted while the deletion was running.
DeletedCredentialIsRejected ==
    \A a \in Auths : auth[a].result = "granted" => auth[a].cred_ok

\* The rules a request is judged by are those of the token its string was issued
\* for: no cache key is ever shared by two tokens.
OwnRules ==
    \A a \in Auths :
        auth[a].result = "granted" => auth[a].rules = issued[auth[a].lookup]

\* delete_credential: "Every still-active ScopedToken referencing this credential is
\* marked revoked".  The code does not have this property where foreign keys are
\* enforced: the deletion fails, and its rollback takes the revocations back.
DeleteRevokes ==
    \A o \in Ops :
        op[o].kind = "delete" /\ op[o].phase = "done" =>
            \A t \in TokenIds : op[o].read[t] # None => tokens[t].status = "revoked"

\* tests/test_proxy_auth.py: "A token with an expires_at in the future is still
\* accepted."  The code does not have this property: the comparison raises.
UnexpiredIsAccepted ==
    \A a \in Auths :
        auth[a].result = "error" =>
            \A t \in Owner(auth[a].lookup) : tokens[t].expires # "future"
=============================================================================
