------------------------------ MODULE Accounts ------------------------------
(***************************************************************************)
(* Accounts and the credentials they own: the Cloudflare login of          *)
(* services/oauth_service.py and auth/oauth_cf.py, local registration and  *)
(* login (routers/auth.py, bootstrap-admin of cli/console.py), and         *)
(* registering, verifying, deleting and browsing credentials.              *)
(*                                                                         *)
(* An operation is one request; an action is what it does between two      *)
(* awaits.  A database transaction reads, stages its writes and commits;   *)
(* unique keys it has staged make others wait until it is over.  The id of *)
(* a row is the operation that inserts it.                                 *)
(*                                                                         *)
(* Left out: that a credential with tokens resists deletion (TokenStore),  *)
(* the tokens of a consent and cred_version (OAuthRefresh), verify_status. *)
(***************************************************************************)
EXTENDS Integers, FiniteSets, FiniteSetsExt

CONSTANTS
    None,
    Ops,         \* the requests
    Existing,    \* the ids of the rows there may be at the start
    Emails, Subs,
    Flows,       \* the logins that are begun: their state, nonce and PKCE verifier
    Codes,       \* authorization codes: [id, flow, sub, email]
    Calls,       \* what an operation may be asked to do
    Seeds,       \* [users, creds, zones] the database and the cache may start with
    OAuthLabel,  \* "cloudflare-oauth"
    MaxKey       \* bound on the signing keys of the issuer

Ids == Ops \cup Existing

Users == [email : Emails \cup {None}, sub : Subs \cup {None}, pw : Ids \cup {None}]
Credentials ==
    [user : Ids, label : STRING, type : {"token", "oauth"}, consent : Subs \cup {None}]

Named == {"verify", "delete", "zones", "records"}   \* the calls that name a credential

CallTypes ==
    [kind : {"callback"}, state : Flows, code : Codes]
      \cup [kind : {"register"}, email : Emails]
      \cup [kind : {"login"}, email : Emails, pw : Ids]
      \cup [kind : {"create"}, user : Ids, label : STRING]
      \cup [kind : Named, user : Ids, cred : Ids]

Places == {"idle", "exchange", "key", "refetch", "user", "flush", "commit", "insert",
           "verify", "delete", "remove", "zones", "browse", "records", "done"}
Locals == [key : {None} \cup 1..MaxKey, kid : BOOLEAN, user : {None} \cup Ids,
           email : Emails \cup {None}, cred : {None} \cup Ids]
Answers == {"ok", "bad", "denied", "conflict", "notfound", "invalid", "error"}

ASSUME AccountsAssumption ==
    /\ MaxKey \in Nat \ {0} /\ OAuthLabel \in STRING
    /\ \A c \in Codes : c.flow \in Flows /\ c.sub \in Subs /\ c.email \in Emails \cup {None}
    /\ Calls \subseteq CallTypes

\* None stands for a row that is not there and for what is not known.
ASSUME NoneAssumption ==
    /\ None \notin Ids /\ None \notin Emails \cup Subs /\ None \notin 1..MaxKey
    /\ None \notin Users /\ None \notin Credentials /\ None \notin CallTypes
    /\ None \notin Answers

\* Mutant of SameKey: cf_sub is not unique.
SameKeyEmailOnly(r, s) == r.email # None /\ r.email = s.email

\* Two user rows with the same email or the same cf_sub.
SameKey(r, s) ==
    \/ r.email # None /\ r.email = s.email
    \/ r.sub # None /\ r.sub = s.sub

\* What there is at the start obeys the keys: email and cf_sub are unique, a credential
\* belongs to a user, and has no consent but one of that user.
ASSUME SeedsAssumption ==
    \A s \in Seeds :
        /\ s.users \in [Ids -> Users \cup {None}] /\ s.zones \subseteq Ids
        /\ s.creds \in [Ids -> Credentials \cup {None}]
        /\ \A o \in Ops : s.users[o] = None /\ s.creds[o] = None
        /\ \A i, j \in Ids : i # j /\ s.users[i] # None /\ s.users[j] # None =>
               ~SameKey(s.users[i], s.users[j])
        /\ \A i \in Ids : s.creds[i] # None =>
               /\ s.users[s.creds[i].user] # None
               /\ s.creds[i].consent \in {None, s.users[s.creds[i].user].sub}

VARIABLES
    users,      \* id -> [email, sub, pw] or None; pw is the operation that chose it
    creds,      \* id -> [user, label, type, consent] or None; consent is whose it is
    deleted,    \* the ids of the credentials that were deleted
    flows,      \* login -> "new", "stored" in Redis, or "gone"
    used,       \* the codes that were exchanged
    checksPkce, \* the issuer compares the verifier with the code's challenge
    published,  \* the issuer's signing keys; it signs with the newest
    jwks,       \* the worker's copy of them, None when it has none
    zones,      \* the credentials whose zones are cached
    pc,         \* operation -> the await it is at
    req,        \* operation -> its call
    local,      \* operation -> what it remembers: the key its id_token was signed
                \* with, whether a kid names that key, the user, its email, the credential
    session,    \* operation -> the user its session token is for, None without
    answer      \* operation -> what it was answered, None before

store == <<users, creds, deleted>>
issuer == <<used, checksPkce, published>>
vars == <<users, creds, deleted, flows, used, checksPkce, published, jwks, zones,
          pc, req, local, session, answer>>

Init ==
    /\ \E s \in Seeds : users = s.users /\ creds = s.creds /\ zones = s.zones
    /\ deleted = {}
    /\ flows = [f \in Flows |-> "new"]
    /\ used = {} /\ checksPkce \in BOOLEAN /\ published = {1} /\ jwks \in {None, {1}}
    /\ pc = [o \in Ops |-> "idle"]
    /\ req = [o \in Ops |-> None]
    /\ local = [o \in Ops |-> [key |-> None, kid |-> FALSE, user |-> None, email |-> None,
                               cred |-> None]]
    /\ session = [o \in Ops |-> None]
    /\ answer = [o \in Ops |-> None]

Goto(o, where) == pc' = [pc EXCEPT ![o] = where] /\ UNCHANGED answer

\* The operation ends; its session is closed, which rolls back what it staged.
End(o, a) ==
    /\ pc' = [pc EXCEPT ![o] = "done"]
    /\ answer' = [answer EXCEPT ![o] = a]

\* A request comes in.
Begin(o, kind, c) ==
    /\ pc[o] = "idle"
    /\ c.kind = kind
    /\ req' = [req EXCEPT ![o] = c]

\* The session token names the user.
CreateJwt(o, u) == session' = [session EXCEPT ![o] = u]

\* get_current_user found the row of the user that the session token names.
CurrentUser(c) == users[c.user] # None

(***************************************************************************)
(* Unique keys.                                                            *)
(***************************************************************************)
Code(o) == req[o].code

\* The row of users that a callback or a registration is going to write.  An email is
\* written only when it differs from the one that was loaded.
UserId(o) == IF local[o].user = None THEN o ELSE local[o].user
UserRow(o) ==
    CASE req[o].kind = "register" -> [email |-> req[o].email, sub |-> None, pw |-> o]
      [] req[o].kind = "callback" /\ local[o].user = None ->
            [email |-> Code(o).email, sub |-> Code(o).sub, pw |-> None]
      [] OTHER -> [users[local[o].user] EXCEPT !.email =
                     IF Code(o).email \in {None, local[o].email} THEN @ ELSE Code(o).email]

\* A callback writes a row of users, unless it knows the user and got no email.
WritesUser(o) == local[o].user = None \/ Code(o).email # None

\* Another transaction has staged this row, or a row with one of its keys.
Waits(o) ==
    \E p \in Ops \ {o} :
        /\ pc[p] = "commit" /\ WritesUser(p)
        /\ UserId(p) = UserId(o) \/ SameKey(UserRow(p), UserRow(o))

\* A committed row has one of its keys: IntegrityError.
Clashes(o) ==
    \E i \in Ids \ {UserId(o)} : users[i] # None /\ SameKey(users[i], UserRow(o))

\* A credential of the user has the label: IntegrityError on an insert.
LabelTaken(u, l) == \E i \in Ids : creds[i] # None /\ creds[i].user = u /\ creds[i].label = l

(***************************************************************************)
(* The issuer and Redis.                                                   *)
(***************************************************************************)
\* start_cf_oauth_login; cache_set_json swallows an error.
StartLogin(f) ==
    /\ flows[f] = "new"
    /\ \E where \in {"stored", "gone"} : flows' = [flows EXCEPT ![f] = where]
    /\ UNCHANGED <<store, issuer, jwks, zones, pc, req, local, session, answer>>

\* oauth_state_ttl has passed.
ExpireState(f) ==
    /\ flows[f] = "stored"
    /\ flows' = [flows EXCEPT ![f] = "gone"]
    /\ UNCHANGED <<store, issuer, jwks, zones, pc, req, local, session, answer>>

SigningKey == Max(published)

\* The issuer publishes a new key, and retires old ones, at the same time or later.
RotateKeys ==
    /\ \/ SigningKey < MaxKey
          /\ published' \in {published \cup {SigningKey + 1}, {SigningKey + 1}}
       \/ published # {SigningKey} /\ published' = {SigningKey}
    /\ UNCHANGED <<store, flows, used, checksPkce, jwks, zones, pc, req, local, session, answer>>

\* The worker's copy is older than _JWKS_CACHE_TTL_SECONDS.
ExpireKeys ==
    /\ jwks # None
    /\ jwks' = None
    /\ UNCHANGED <<store, flows, issuer, zones, pc, req, local, session, answer>>

\* Redis drops cached zones, or their TTL ends.
ForgetZones(i) ==
    /\ i \in zones
    /\ zones' = zones \ {i}
    /\ UNCHANGED <<store, flows, issuer, jwks, pc, req, local, session, answer>>

(***************************************************************************)
(* handle_cf_oauth_callback.                                               *)
(***************************************************************************)
\* _consume_oauth_state: GETDEL; when Redis fails the state is not known, deleted or not.
ConsumeState(o, c) ==
    /\ Begin(o, "callback", c)
    /\ flows[c.state] # "new" /\ flows[c.code.flow] # "new"
    /\ \/ flows[c.state] = "stored" /\ flows' = [flows EXCEPT ![c.state] = "gone"]
          /\ Goto(o, "exchange")
       \/ flows' \in {flows, [flows EXCEPT ![c.state] = "gone"]} /\ End(o, "bad")
    /\ UNCHANGED <<store, issuer, jwks, zones, local, session>>

\* exchange_code: a code is good once; the id_token is signed with the newest key, which
\* its header names or not.
ExchangeCode(o) ==
    /\ pc[o] = "exchange"
    /\ used' = used \cup {Code(o)}
    /\ IF Code(o) \notin used /\ (checksPkce => Code(o).flow = req[o].state)
       THEN /\ Goto(o, "key")
            /\ \E kid \in BOOLEAN :
                  local' = [local EXCEPT ![o] = [@ EXCEPT !.key = SigningKey, !.kid = kid]]
       ELSE End(o, "error") /\ UNCHANGED local
    /\ UNCHANGED <<store, flows, checksPkce, published, jwks, zones, req, session>>

\* The token response has no id_token, or is no JSON: ValueError.
NoIdToken(o) ==
    /\ pc[o] = "exchange"
    /\ used' = used \cup {Code(o)}
    /\ End(o, "bad")
    /\ UNCHANGED <<store, flows, checksPkce, published, jwks, zones, req, local, session>>

\* Mutant of NonceMatches: the nonce claim is not compared.
NonceUnchecked(o) == TRUE

\* The nonce in the id_token is the one stored with the state.
NonceMatches(o) == Code(o).flow = req[o].state

\* The keys fetch_jwks returns, the worker's copy or else those of the issuer.
FetchJwks == IF jwks = None THEN published ELSE jwks

\* The rest of validate_id_token, given the key that was chosen.  "invalid" is its
\* InvalidTokenError, which no handler knows: a 500.
Verify(o, key) ==
    IF key = local[o].key /\ NonceMatches(o) THEN Goto(o, "user") ELSE End(o, "invalid")

\* The keys of a document that _resolve_signing_key takes for the signing key: the one
\* the kid names, or all of them when there is no kid.
Matches(o, keys) == IF local[o].kid THEN keys \cap {local[o].key} ELSE keys

\* Mutant of ResolveKey: an unknown kid is refused at once.
ResolveKeyOnce(o) ==
    /\ pc[o] = "key"
    /\ jwks' = FetchJwks
    /\ IF Matches(o, FetchJwks) # {}
       THEN \E first \in Matches(o, FetchJwks) : Verify(o, first)
       ELSE End(o, "invalid")
    /\ UNCHANGED <<store, flows, issuer, zones, req, local, session>>

\* _resolve_signing_key, the first look at the cached or fetched keys.  matches[0] is any
\* of the matches: nothing is known of the order of the document.  A kid that is not
\* found clears the cache for a second fetch.
ResolveKey(o) ==
    /\ pc[o] = "key"
    /\ IF Matches(o, FetchJwks) # {}
       THEN jwks' = FetchJwks /\ \E first \in Matches(o, FetchJwks) : Verify(o, first)
       ELSE jwks' = None /\ Goto(o, "refetch")
    /\ UNCHANGED <<store, flows, issuer, zones, req, local, session>>

\* The second fetch, which no copy made meanwhile can stand in for.
RefetchKeys(o) ==
    /\ pc[o] = "refetch"
    /\ jwks' = published
    /\ IF Matches(o, published) # {}
       THEN \E first \in Matches(o, published) : Verify(o, first)
       ELSE End(o, "invalid")
    /\ UNCHANGED <<store, flows, issuer, zones, req, local, session>>

\* Mutant of UserOf: accounts are looked up by email.
UserOfEmail(c) == {i \in Ids : users[i] # None /\ users[i].email = c.email}

\* The rows SELECT User ... WHERE cf_sub = sub finds.
UserOf(c) == {i \in Ids : users[i] # None /\ users[i].sub = c.sub}

SelectUser(o) ==
    /\ pc[o] = "user"
    /\ local' = [local EXCEPT ![o] =
                   [@ EXCEPT !.user  = IF UserOf(Code(o)) = {} THEN None
                                       ELSE CHOOSE i \in UserOf(Code(o)) : TRUE,
                             !.email = IF UserOf(Code(o)) = {} THEN None
                                       ELSE users[CHOOSE i \in UserOf(Code(o)) : TRUE].email]]
    /\ Goto(o, "flush")
    /\ UNCHANGED <<store, flows, issuer, jwks, zones, req, session>>

\* Mutant of CredentialOf: the credential is looked up by its label alone.
CredentialOfLabel(u) == {i \in Ids : creds[i] # None /\ creds[i].label = OAuthLabel}

CredentialOf(u) ==
    {i \in Ids : creds[i] # None /\ creds[i].user = u /\ creds[i].label = OAuthLabel}

\* Mutant of FlushUser: a new user is committed before its credential is stored.
FlushUserCommits(o) ==
    /\ pc[o] = "flush"
    /\ WritesUser(o) => ~Waits(o)
    /\ IF WritesUser(o) /\ Clashes(o)
       THEN End(o, "error") /\ UNCHANGED <<local, users>>
       ELSE /\ users' = [users EXCEPT ![UserId(o)] = UserRow(o)]
            /\ local' = [local EXCEPT ![o].user = UserId(o)]
            /\ Goto(o, "commit")
    /\ UNCHANGED <<creds, deleted, flows, issuer, jwks, zones, req, session>>

\* The user row is flushed (explicitly, or by the SELECT that follows), and the
\* credential is looked up.  A snapshot may be older than this look: what changed since
\* is then met at the commit, as if it had changed after it.
FlushUser(o) ==
    /\ pc[o] = "flush"
    /\ WritesUser(o) => ~Waits(o)
    /\ IF WritesUser(o) /\ Clashes(o)
       THEN End(o, "error") /\ UNCHANGED local
       ELSE /\ local' = [local EXCEPT ![o].cred =
                           IF CredentialOf(UserId(o)) = {} THEN None
                           ELSE CHOOSE i \in CredentialOf(UserId(o)) : TRUE]
            /\ Goto(o, "commit")
    /\ UNCHANGED <<store, flows, issuer, jwks, zones, req, session>>

\* Mutant of CommitLogin: the id of a new user is taken before it has one.
CommitLoginLookedUp(o) ==
    LET u == UserId(o)
        k == IF local[o].cred = None THEN o ELSE local[o].cred
        row == [user |-> local[o].user, label |-> OAuthLabel, type |-> "oauth", consent |-> Code(o).sub]
    IN  /\ pc[o] = "commit"
        /\ IF IF local[o].cred = None THEN LabelTaken(u, OAuthLabel) ELSE creds[k] = None
           THEN End(o, "error") /\ UNCHANGED <<users, creds, session>>
           ELSE /\ users' = IF WritesUser(o) THEN [users EXCEPT ![u] = UserRow(o)] ELSE users
                /\ creds' = [creds EXCEPT ![k] =
                               IF local[o].cred = None THEN row ELSE [@ EXCEPT !.consent = Code(o).sub]]
                /\ \/ CreateJwt(o, u) /\ End(o, "ok")
                   \/ UNCHANGED session /\ End(o, "error")
        /\ UNCHANGED <<deleted, flows, issuer, jwks, zones, req, local>>

\* The credential is inserted or updated, and the transaction commits: user and
\* credential together.  A row that is gone makes the UPDATE fail (StaleDataError).
\* session.refresh reads the user back; when that fails the rows stay, but the caller
\* gets an error and no session.
CommitLogin(o) ==
    LET u == UserId(o)
        k == IF local[o].cred = None THEN o ELSE local[o].cred
        row == [user |-> u, label |-> OAuthLabel, type |-> "oauth", consent |-> Code(o).sub]
    IN  /\ pc[o] = "commit"
        /\ IF IF local[o].cred = None THEN LabelTaken(u, OAuthLabel) ELSE creds[k] = None
           THEN End(o, "error") /\ UNCHANGED <<users, creds, session>>
           ELSE /\ users' = IF WritesUser(o) THEN [users EXCEPT ![u] = UserRow(o)] ELSE users
                /\ creds' = [creds EXCEPT ![k] =
                               IF local[o].cred = None THEN row ELSE [@ EXCEPT !.consent = Code(o).sub]]
                /\ \/ CreateJwt(o, u) /\ End(o, "ok")
                   \/ UNCHANGED session /\ End(o, "error")
        /\ UNCHANGED <<deleted, flows, issuer, jwks, zones, req, local>>

(***************************************************************************)
(* Local accounts.                                                         *)
(***************************************************************************)
\* register and bootstrap_admin_command: is the email taken?
Register(o, c) ==
    /\ Begin(o, "register", c)
    /\ IF \E i \in Ids : users[i] # None /\ users[i].email = c.email
       THEN End(o, "conflict") ELSE Goto(o, "insert")
    /\ UNCHANGED <<store, flows, issuer, jwks, zones, local, session>>

\* The row is committed, then read back, which may fail.
InsertUser(o) ==
    /\ pc[o] = "insert"
    /\ ~Waits(o)
    /\ IF Clashes(o)
       THEN End(o, "error") /\ UNCHANGED users
       ELSE users' = [users EXCEPT ![o] = UserRow(o)] /\ (End(o, "ok") \/ End(o, "error"))
    /\ UNCHANGED <<creds, deleted, flows, issuer, jwks, zones, req, local, session>>

\* login, with the password that registration c.pw chose.
Login(o, c) ==
    LET match == {i \in Ids : users[i] # None /\ users[i].email = c.email
                                /\ users[i].pw # None /\ users[i].pw = c.pw}
    IN  /\ Begin(o, "login", c)
        /\ IF match = {} THEN End(o, "denied") /\ UNCHANGED session
           ELSE \E i \in match : CreateJwt(o, i) /\ End(o, "ok")
        /\ UNCHANGED <<store, flows, issuer, jwks, zones, local>>

(***************************************************************************)
(* Credentials.  c.user is the user of the session.                        *)
(***************************************************************************)
\* register_credential; "bad" when the secret for its type is missing.  The row is
\* committed, then read back, which may fail.
CreateCredential(o, c) ==
    /\ Begin(o, "create", c)
    /\ CurrentUser(c)
    /\ \/ End(o, "bad") /\ UNCHANGED creds
       \/ LabelTaken(c.user, c.label) /\ End(o, "error") /\ UNCHANGED creds
       \/ /\ ~LabelTaken(c.user, c.label)
          /\ creds' = [creds EXCEPT ![o] = [user |-> c.user, label |-> c.label,
                                            type |-> "token", consent |-> None]]
          /\ End(o, "ok") \/ End(o, "error")
    /\ UNCHANGED <<users, deleted, flows, issuer, jwks, zones, local, session>>

Owned(c) == creds[c.cred] # None /\ creds[c.cred].user = c.user

\* Mutant of FindOwned: the cached zones are looked up before the owner.
FindOwnedCacheFirst(o, c) ==
    /\ c.kind \in Named
    /\ Begin(o, c.kind, c)
    /\ CurrentUser(c)
    /\ local' = [local EXCEPT ![o].cred = IF Owned(c) THEN c.cred ELSE None]
    /\ IF c.kind = "zones" /\ c.cred \in zones THEN End(o, "ok")
       ELSE IF Owned(c) THEN Goto(o, c.kind) ELSE End(o, "notfound")
    /\ UNCHANGED <<store, flows, issuer, jwks, zones, session>>

\* get_owned_credential, at the start of the operations that name a credential.
FindOwned(o, c) ==
    /\ c.kind \in Named
    /\ Begin(o, c.kind, c)
    /\ CurrentUser(c)
    /\ local' = [local EXCEPT ![o].cred = IF Owned(c) THEN c.cred ELSE None]
    /\ IF Owned(c) THEN Goto(o, c.kind) ELSE End(o, "notfound")
    /\ UNCHANGED <<store, flows, issuer, jwks, zones, session>>

\* verify_credential: Cloudflare has answered, and the row is updated.
VerifyCommit(o) ==
    /\ pc[o] = "verify"
    /\ End(o, IF creds[req[o].cred] = None THEN "error" ELSE "ok")
    /\ UNCHANGED <<store, flows, issuer, jwks, zones, req, local, session>>

\* delete_credential: the cache is purged, or Redis fails.
DeletePurge(o) ==
    /\ pc[o] = "delete"
    /\ zones' \in {zones, zones \ {req[o].cred}}
    /\ Goto(o, "remove")
    /\ UNCHANGED <<store, flows, issuer, jwks, req, local, session>>

DeleteCommit(o) ==
    /\ pc[o] = "remove"
    /\ creds' = [creds EXCEPT ![req[o].cred] = None]
    /\ deleted' = deleted \cup {req[o].cred}
    /\ End(o, "ok")
    /\ UNCHANGED <<users, flows, issuer, jwks, zones, req, local, session>>

\* list_credential_zones: the cached zones, or else those Cloudflare lists.
ZonesCached(o) ==
    /\ pc[o] = "zones"
    /\ \/ req[o].cred \in zones /\ End(o, "ok")
       \/ Goto(o, "browse")
    /\ UNCHANGED <<store, flows, issuer, jwks, zones, req, local, session>>

ZonesFetched(o) ==
    /\ pc[o] = "browse"
    /\ zones' \in {zones, zones \cup {req[o].cred}}
    /\ End(o, "ok")
    /\ UNCHANGED <<store, flows, issuer, jwks, req, local, session>>

\* list_credential_zone_records: nothing is cached.
RecordsFetched(o) ==
    /\ pc[o] = "records"
    /\ End(o, "ok")
    /\ UNCHANGED <<store, flows, issuer, jwks, zones, req, local, session>>

\* The database, the issuer or Cloudflare fails; main.py answers.
Fail(o) ==
    /\ pc[o] \notin {"idle", "done"}
    /\ End(o, "error")
    /\ UNCHANGED <<store, flows, issuer, jwks, zones, req, local, session>>

Next ==
    \/ \E f \in Flows : StartLogin(f) \/ ExpireState(f)
    \/ RotateKeys \/ ExpireKeys
    \/ \E i \in Ids : ForgetZones(i)
    \/ \E o \in Ops, c \in Calls :
          \/ ConsumeState(o, c) \/ Register(o, c) \/ Login(o, c)
          \/ CreateCredential(o, c) \/ FindOwned(o, c)
    \/ \E o \in Ops :
          \/ ExchangeCode(o) \/ NoIdToken(o) \/ ResolveKey(o) \/ RefetchKeys(o)
          \/ SelectUser(o) \/ FlushUser(o) \/ CommitLogin(o)
          \/ InsertUser(o) \/ VerifyCommit(o) \/ DeletePurge(o) \/ DeleteCommit(o)
          \/ ZonesCached(o) \/ ZonesFetched(o) \/ RecordsFetched(o)
          \/ Fail(o)

Spec == Init /\ [][Next]_vars

(***************************************************************************)
(* Properties.                                                             *)
(***************************************************************************)
TypeOK ==
    /\ users \in [Ids -> Users \cup {None}]
    /\ creds \in [Ids -> Credentials \cup {None}]
    /\ deleted \subseteq Ids /\ zones \subseteq Ids /\ used \subseteq Codes
    /\ flows \in [Flows -> {"new", "stored", "gone"}] /\ checksPkce \in BOOLEAN
    /\ published \subseteq 1..MaxKey /\ published # {}
    /\ jwks = None \/ jwks \subseteq 1..MaxKey
    /\ pc \in [Ops -> Places]
    /\ req \in [Ops -> Calls \cup {None}]
    /\ local \in [Ops -> Locals]
    /\ session \in [Ops -> Ids \cup {None}]
    /\ answer \in [Ops -> Answers \cup {None}]

\* However first logins, registrations and changes of email race, no two accounts have
\* the same Cloudflare subject or the same email: checks and inserts are apart in
\* register and in handle_cf_oauth_callback.
OneAccountPerPerson ==
    \A i, j \in Ids : i # j /\ users[i] # None /\ users[j] # None =>
        /\ users[i].sub = None \/ users[i].sub # users[j].sub
        /\ users[i].email = None \/ users[i].email # users[j].email

\* A session is for the account of the person who logged in: by the subject of the
\* consent, by the password chosen when it was registered, never because an email
\* is, or once was, the same.
SessionIsOwn ==
    \A o \in Ops : session[o] # None =>
        \/ req[o].kind = "callback" /\ users[session[o]].sub = Code(o).sub
        \/ req[o].kind = "login" /\ users[session[o]].pw = req[o].pw

\* A login that was begun ends in at most one session, with a code that was issued for
\* it: callbacks may be repeated, reloaded, sent with the code of another login, or
\* with one of two codes for the same one; the issuer may or may not check PKCE
\* (_consume_oauth_state: "Atomically fetch-and-delete", "enforcing single use").
LoginEndsOnce ==
    \A o \in Ops : session[o] # None /\ req[o].kind = "callback" =>
        /\ Code(o).flow = req[o].state
        /\ \A p \in Ops \ {o} :
              session[p] # None /\ req[p].kind = "callback" => req[p].state # req[o].state

\* An account made by a Cloudflare login has the credential of that login, until it is
\* deleted: whatever fails, there is never the one without the other.
LoginIsAllOrNothing ==
    \A o \in Ops : users[o] # None /\ users[o].sub # None => creds[o] # None \/ o \in deleted

\* The consent stored in a credential is one its owner has given.
ConsentStaysWithUser ==
    \A i \in Ids : creds[i] # None /\ creds[i].consent # None =>
        users[creds[i].user].sub = creds[i].consent

\* The issuer may rotate its keys at any time.  An id_token of the right login that names
\* its key is refused only when that key has been retired, never because the worker's
\* copy of the keys is old.  One that does not name it is refused only once the issuer
\* has rotated: an old copy, or a document of several keys, may then offer another key
\* first, and _resolve_signing_key neither tries the others nor fetches again.
RotationIsTolerated ==
    \A o \in Ops : answer[o] = "invalid" /\ Code(o).flow = req[o].state =>
        IF local[o].kid THEN local[o].key \notin published ELSE published # {1}

\* Zones are shown, and credentials verified and deleted, only for a user who owned the
\* credential when asking, although cached zones outlive a deletion that a listing
\* overlaps (the purge precedes the commit, and the listing stores them after it).
OnlyOwnersAreServed ==
    \A o \in Ops :
        req[o] # None /\ req[o].kind \in Named /\ answer[o] = "ok" =>
            local[o].cred = req[o].cred
=============================================================================
