# A TLA+ model of cfproxy

cfproxy stands between DNS clients and the Cloudflare API. Its users register
Cloudflare credentials (API tokens, or an OAuth consent) and mint *scoped
tokens* with rules such as "read and write A records named `*.home.example.com`".
The proxy resolves the scoped token of each request, decides with its rules
whether the request is allowed, forwards it with the real credential and keeps
an audit log. The modules here model the parts of it that hold state or make
decisions; TLC checks them on small instances, and TLAPS proves nearly all of
their safety properties for every size. All paths below are relative to
`src/src/cfproxy/`.

## 1. Inventory

| Component | State it keeps | Operations | Interacts with |
|---|---|---|---|
| Scope predicates, `authz/scope.py` | none | normalise, validate and match names; `match_rules`; `is_lock_exempt`; `merge_patch_image` | called by the authoriser, the list filter, minting |
| Authorisation, `authz/authorizer.py` | none | `authorize_dns_request`: fetch the pre-image, judge old and new image | scope predicates, upstream client |
| Record endpoints, `routers/proxy_dns.py` | the audit row and the upstream record of each request | create, get, patch, put, delete | all of the above, lock, audit |
| Advisory lock, `db/locks.py` | named MySQL locks, one per (zone, record); row locks | `advisory_lock`, `with_row_lock` | record endpoints, OAuth refresh |
| Lists, `routers/proxy_dns.py`, `filtering/list_filter.py` | the pages fetched so far | `list_zones`, `list_dns_records` | upstream client, scope predicates |
| Upstream client, `upstream/client.py` | none (httpx pool) | `forward_request`, `fetch_cf_record`, `list_all_records`, `get_valid_access_token` | Cloudflare, OAuth endpoint, Redis, database |
| Token resolution, `auth/proxy_auth.py`, `cache/redis.py` | the rules cache | `resolve_scoped_token` | token and credential rows, Redis |
| Token management, `services/token_service.py` | `scoped_tokens`, `scope_rules` | mint, rotate, revoke | rules cache, credentials |
| Credentials, `services/credential_service.py` | `upstream_credentials`, the zones cache | register, verify, delete with its cascade, browse zones and records | tokens, rules cache, logins |
| OAuth refresh, `upstream/client.py` | refresh and access token of a credential, `cred_version` | refresh | token endpoint, Redis, row lock |
| OAuth login, `services/oauth_service.py`, `auth/oauth_cf.py` | login states in Redis, the worker's copy of the issuer's keys | start a login, callback | issuer, users, credentials |
| Accounts and sessions, `routers/auth.py`, `core/security.py`, `cli/console.py` | `users` | register, bootstrap-admin, login | credentials (ownership) |
| Audit log, `services/audit_service.py`, `routers/audit.py` | `audit_logs` | write, query | record endpoints |
| Connection pool, `db/session.py` | the connections of a worker | taken by sessions and by the lock | record endpoints |
| Blocked routes, token verification, schemas, configuration | none | constant answers, parsing | framework |

**What is hard in it.** Handlers are coroutines in several workers, and every
database, Redis and HTTP call is an await at which others run. Cloudflare
carries a mutation out some time after it was sent, even if the sender has given
up. The check of a mutation needs a record that others may change before the
mutation arrives (hence the lock, and an exemption from it). Rules are cached
outside the database that revokes tokens. ORM sessions hold rows that are stale
after a wait. Refresh tokens may be good for one use. Accounts are looked up and
inserted in separate steps. A mutation needs two connections of a bounded pool.
The hazards are listed
with their lines in `PROJECT.json`.

**What makes the parts correct.**

- A rule grants what its author was told it grants when it was validated, and
  the lock exemption is only given where it cannot matter (`ScopeRules`).
- A mutation is allowed for the record it changes, not for an earlier version
  of it; refused calls have no effect; the audit log has the decision and the
  image that was replaced; locks are given back (`DnsProxy`); everyone is
  answered although the pool is small (`PooledProxy`).
- A token that was revoked, rotated away, or deleted with its credential is
  dead at once and for good, in spite of the cache (`TokenStore`).
- A credential stays usable while requests refresh it and its user logs in
  again (`OAuthRefresh`).
- A list shows what the token may see, all of it and nothing else (`Listing`).
- A person has one account, a login gives a session for it once or nothing at
  all, and credentials serve their owners (`Accounts`).

## 2. Modules

```
Scope ── ScopeRules ── MCScope, ScopeProofs
  ├───── Listing ── MCListing, ListingProofs
  └───── Authorizer ── AtomicProxy
              └──── DnsProxy (INSTANCE AtomicProxy) ── MCDnsProxy
                       ├── PooledProxy ── MCPooledProxy
                       └── DnsProxyProofs ── DnsAtomicityProofs
                              └── (with PooledProxy) PooledProxyProofs
TokenStore ── MCTokenStore, TokenStoreProofs
OAuthRefresh ── MCOAuthRefresh, OAuthRefreshProofs
Accounts ── MCAccounts, AccountsProofs
```

**Scope** has the predicates of `authz/scope.py`. A name is the sequence of
labels `split(".")` returns, so the validator's string-suffix test is the suffix
relation on labels. IDNA and lower-casing are the function `ToASCII`: its domain
is what `encode("idna")` accepts, so an empty inner label "raises". In
`MergePatchImage` a key is there or absent. A JSON null, which the code takes for
the new value, is left out: it is refused wherever a rule looks at that value, so
it is granted nothing that the same body without the key is not.

**ScopeRules** takes a candidate rule through minting (`_validate_scope_rules`)
and then matches it against a query; its states are *candidate rule, accepted or
rejected, verdict* (grant, deny, or an exception).

**Authorizer** has `authorize_dns_request` as `Authorize(call, pre-image)` and,
marked external, what Cloudflare makes of a call (`Effect`). `Permitted` is what
a scope means, written independently of the code's order of tests.

**AtomicProxy** is the abstract specification: a call arrives, is authorised and
takes effect in one step (or never), and is answered. Refusals never take
effect, not even later.

**DnsProxy** is the implementation: one action per stretch of a handler between
two awaits.

| Action | Code |
|---|---|
| `Receive` | the handler, up to the choice made with `is_lock_exempt` |
| `AcquireLock`, `LockTimeout`, `Release` | `advisory_lock`: `GET_LOCK` returns 1 or 0; `RELEASE_LOCK` in the `finally` |
| `Fetch` | `fetch_cf_record` (404 is None) |
| `Decide` | `authorize_dns_request`, then deny or `forward_request` |
| `AuthorizeError` | what raises before anything is forwarded: any other answer to the fetch, or a name or body that `match_rules` or `merge_patch_image` cannot deal with |
| `Apply`, `Reject` | Cloudflare, at any later time |
| `Answered`, `ForwardTimeout` | `forward_request` returns, or httpx gives up |
| `WriteAudit`, `AuditFails`, `BadBody` | `_record_audit`; it swallows its own errors; `upstream.json()` may raise before it |
| `Reply` | the response, error statuses of Cloudflare passed on |
| `LoseLock`, `Crash` | the lock's connection drops, the worker dies |

`content` of a record is the request that wrote it last, which makes versions of
a record distinguishable. An exception is `decision = "error"`: it passes through
the `finally` and is answered by the handlers of `main.py`.

**PooledProxy** puts the requests of `DnsProxy` into one worker with a pool of
`Capacity` connections. `session` are the requests whose session has a
connection, `locker` those that have one for the mutation lock.

| Action | Code |
|---|---|
| `Arrive`, `Refused` | `resolve_scoped_token` takes a connection, or the pool stays empty for `pool_timeout` |
| `Resolved` | `resolve_upstream_auth`: a refresh commits, and gives the session's connection back |
| `Connect`, `ConnectTimeout` | `engine.connect()` of `_mutate_dns_record_by_id` |
| `PooledAcquireLock`, `PooledLockTimeout`, `PooledRelease` | the lock on that connection, and the end of its `async with` |
| `PooledWriteAudit`, `AuditTimeout` | `write_audit`; `_record_audit` swallows a timeout of the pool |
| `Close` | the end of `get_session` |

**TokenStore** has the rows of `scoped_tokens`, the ids of `upstream_credentials`,
the rules cache and the progress of each management request and each
resolution. A management operation reads its rows, and later commits *the columns
it assigned* computed from what it read: that is how SQLAlchemy writes. Minting
and rotation read their row once more after the commit; when that fails the change
is made although the caller is told of an error (and never sees the secret), and
a rotation leaves its cache entry. Every cache access may miss or fail. `fk` is TRUE for MySQL, FALSE for SQLite.

**OAuthRefresh** has one credential row, the row lock, the access-token cache and
the token endpoint, which may rotate refresh tokens. A request goes on, after the
lock, with the row it loaded before: the session's identity map is not refreshed.
`RefreshRefused` is any failure before the grant is performed, `RefreshLost` any
after it. The lock wait timeout of InnoDB is left out: it is a setting of the
database, and `EveryoneEnds` is to hold because the code gives the row back.

**Accounts** has the `users` and `upstream_credentials` rows, the login states in
Redis, the issuer's keys and the worker's copy of them, and the zones cache. A
request is an operation that goes from await to await:

| Action | Code |
|---|---|
| `StartLogin`, `ConsumeState` | `start_cf_oauth_login`, `_consume_oauth_state` (GETDEL; Redis may fail before or after it) |
| `ExchangeCode`, `NoIdToken` | `exchange_code`; the issuer takes a code once and may compare the PKCE verifier |
| `ResolveKey`, `RefetchKeys` | `_resolve_signing_key` with its second fetch, and the nonce check. An id_token names its key (`kid`) or does not; then it is checked with the first key of the document, which may be any, and never fetched for again |
| `SelectUser`, `FlushUser`, `CommitLogin` | the rest of `handle_cf_oauth_callback`, one transaction |
| `Register`, `InsertUser`, `Login` | `register` and `bootstrap_admin_command`; `login` |
| `CreateCredential` | `register_credential` |
| `FindOwned` | `get_owned_credential`, then one of `VerifyCommit`; `DeletePurge`, `DeleteCommit`; `ZonesCached`, `ZonesFetched`; `RecordsFetched` |
| `Fail` | an exception, anywhere |

The commits of a login, a registration and a new credential are followed by a
`session.refresh`; when that fails the rows are there, and the caller gets an error.

Unique keys are what the database makes of them: an insert or update waits for a
transaction that has staged the same key, and fails on a committed one. A
password is identified by the registration that chose it, a session token by its
user, a consent by its subject.

**Listing** has the upstream list, which changes at any time; a handler that
fetches it page by page; and a client that follows `total_pages`. `Slice` is
Python's slice with its negative bounds. `tokenRules` are the token's rules, and
`Readable` what each rule set may read, the test of `filter_records`; `At` is the
list comprehension around it: the items at the positions that passed, the n-th
being the one with n such positions up to it. (So written, and not with
`SelectSeq`, it can be reasoned about without induction.) The audit log is a
third kind of list, in the order of `ts`, which has seconds and no tie-breaker.
Its count and its page are two statements that see one snapshot, as MySQL gives it
(REPEATABLE READ); on SQLite an entry may be written between them. A match that
raises on a record's name ends a request as a page that fails does (`FetchFails`).

Left out of all of them: wording, status codes beyond their kind, headers and
origin pinning, client-side list filters (they choose which list is walked).

## 3. Runs

| Run | Question | Bounds |
|---|---|---|
| `scope` | What do accepted rules grant? | All patterns of up to three labels over an alphabet with `*`, the empty label and a full-width asterisk, and those of four over a smaller one, in both match modes; the zone has two labels, so the `*` can stand left of, inside and right of it |
| `dns` | Are concurrent calls atomic, authorised at the moment they take effect, and audited? | Two requests, every method and body shape, tokens that overlap, all of which take the lock; failures before the forward. Two requests are what a race between check and use needs |
| `dns_faults` | What survives when everything may fail? | Two requests, a lock-exempt token, all six failures |
| `dns_pool` | Is every request answered, and what does a full pool cost? | Two requests, a pool of two connections (three would be enough for one waiting and one working request), tokens with and without an OAuth credential, failures of the authorisation, the forward, its answer and the lock (with "audit" any row may be lost, whatever the pool does), under fairness |
| `dns_exempt` | *Violation.* The lock "closes the TOCTOU window" | A locked and a lock-exempt request on one record |
| `tokens` | Is a dead token dead at once and for good? | Two operations of any kind, two resolutions, two tokens, three lookup ids (one for the token that exists, one for each operation); symmetric in operations, resolutions and unused lookup ids |
| `tokens_delete` | *Violation.* Deleting a credential revokes its tokens | Foreign keys enforced |
| `tokens_expiry` | *Violation.* A token with a future expiry is accepted | Same |
| `oauth` | Does a credential survive concurrent refreshes and a login? | Three requests, one login, with and without row locks, rotation and `expires_in`; consents carry a refresh token, as with the default scopes |
| `oauth_recheck` | *Violation.* "expiry is re-checked inside the lock" | Two requests, locking |
| `accounts` | Does a login, whatever races with it, give the right session for the right account, once? | Two operations of any kind, two logins with two codes each, two subjects, two emails, one rotation of the keys; a database that is empty, has a Cloudflare account with its credential, or one without it, each beside a local account; symmetric in the operations |
| `listing` | Is a walk over a filtered list sound and complete, and does it end? | Up to five records, three zones or five audit entries, upstream pages of two, client pages from -1 to 2 and sizes from -1 to 3, two changes of the list |

`CHECK_DEADLOCK FALSE` everywhere: requests are finite in number, and a state in
which all of them are over has no successor.

**Fairness.** `dns_pool`, `oauth` and `listing` assume weak fairness of each
handler's next step (the event loop resumes a coroutine whose await is over; a
lock that is held, or a pool that is empty, ends the wait with a timeout) and of Cloudflare or the token
endpoint dealing with what reached it (httpx has a timeout, so even this is only
a convenience). In `oauth` a login that has begun is taken to commit. Nothing
makes clients, logins or failures happen. In `listing` the client follows the
pages it is told of.

**What the passing runs show.** With every by-id mutation under the lock the
handlers implement `AtomicProxy`. With all failures and exemptions allowed, three
things remain: no finished request holds a lock, the image left behind by a
full-body write is in its writer's scope, and a lock-exempt mutation is allowed
whatever the record has become. Revocation is final although rotation and
revocation write from stale reads, because they assign different columns; cached
rules cannot outlive it because the database is always asked first; and a token
minted while its credential is deleted is useless because the credential row is
looked up again. Row locks and the `cred_version` fence keep refreshes from
destroying a credential, as long as the endpoint's answers arrive.

In `dns_pool` two locked mutations can each hold one connection and wait for a
second; only `pool_timeout` ends this, and both are then answered with an error.
A lock is never left on a connection that went back to the pool. A mutation that
was carried out lacks its audit row only if its client was told of an error, or
if a refresh of its OAuth credential had given the session's connection back
and the session has none when the row is to be written (or if the database fails,
which this run leaves out).

In `accounts` the unique keys make up for checks and inserts that are apart: one
of two racing first logins fails and leaves nothing. Accounts are found by
subject, so an email that is shared with, or taken over from, another account
makes a login fail but never opens the other account. The nonce ties a code to
its login even if the issuer does not compare the PKCE verifier. An id_token that
names its key survives any rotation that leaves the key published; one that does
not is safe only until the first rotation (see below). A cached zone
list may outlive its credential; since ownership is checked before the cache is
asked, it is shown to nobody else.

A walk through the audit log, unlike one through records, misses nothing while
the log grows, except among entries of the same second.

### Where the code differs from what it says

With a run:

1. `dns_exempt`: a lock-exempt request does not take the lock, so it can rename a
   record between the fetch and the forward of a request that holds it.
2. `tokens_delete`: on MySQL a credential with any token row, revoked ones
   included, cannot be deleted, and the rollback takes the revocations back.
3. `tokens_expiry`: `expires_at` comes back from the database without a time
   zone, and comparing it with `datetime.now(UTC)` raises.
4. `oauth_recheck`: the row looked at inside the lock is the one loaded before it.

Without a run, seen while modelling:

- A forward that times out skips the audit row although the mutation may be
  carried out; `proxy_dns.py:12` says "Denies and mutations are written to the
  audit log before responding." `AuditGapIsKnown` states what is left of it.
- `proxy_blocked.py` says that batch, import and export are "unconditionally
  rejected", and `tests/test_routers_proxy.py:33` that these routes win over the
  by-id routes. The framework takes the first route that was registered, and the
  by-id routes are: GET, PATCH, PUT and DELETE treat "batch" as a record id, only
  POST is answered by `proxy_blocked`.
- A pasted credential may be labelled `cloudflare-oauth`. A login then finds it,
  writes the tokens of the consent into it and leaves `cred_type` as it is, so
  the consent is never used.
- A Cloudflare login whose email belongs to a local account fails with a 500 each
  time it is tried, as do all other violations of a unique key.
- `init_db` checks and inserts `schema_version` after it has released its lock.
- `validate_name_pattern` removes the `*` label wherever it stands, so `z.c.*`
  and `z.*.c` are accepted for zone `z.c` and match names outside it.
- The exact pattern `@` is accepted as the apex and never matches it.
- `z.c..*` is accepted, and every match then raises `UnicodeError`.
- `token_expires_at` has the time-zone problem too (`client.py:286`); the model
  has it as `CompareRaises`.
- `cred_version` is computed from what was read, so a login and a refresh may use
  a number twice and the fence then lets the older one through;
  `StaleWriterIsFenced` excepts this.
- A login that brings no refresh token keeps the old one in the row, which the
  new consent may have invalidated.
- An error answer to a page of zones is taken for the end of the list.
- `_resolve_signing_key` takes the first key for an `id_token` without `kid`. With
  an old copy of the keys, or several of them published, a genuine token is refused
  and the keys are not fetched again; `RotationIsTolerated` says when.
- A rotation whose `session.refresh` fails has replaced the secret, and nobody is
  told the new one; a mint then leaves an active token nobody has the secret of.

## 4. Proofs

The theorems hold for any sets of requests, records, tokens, rules, users, logins
and so on; the bounds of section 3 play no part. TLC has checked every property on
small instances before it was proved.

**Assumptions.** Each module names what it assumes of its constants, and TLC
evaluates these assumptions on its instances: None and the other markers are not
data, calls and what is there at the start have their shape. Those that say
something about the world:

- `ToASCIIAssumption`, `ZoneNamesAssumption` (`Scope`, `ScopeRules`): IDNA never
  returns an empty label and leaves alone what it has encoded; existing zones have
  a name it accepts.
- `InitialTokensAssumption` (`TokenStore`), `SeedsAssumption` (`Accounts`): the rows
  at the start obey the unique keys, credentials have an owner, and a consent is
  its owner's.
- `PooledProxyAssumption`: no crash, since a worker's pool dies with it.
- `ListsAssumption` (`Listing`): no two items of a list share an id (Cloudflare's
  ids, the primary key of the audit log), and timestamps are numbers. Page numbers
  and page sizes of clients are any integers.

| Module | Theorem | Property | Hypothesis |
|---|---|---|---|
| `ScopeProofs` | `TypeCorrect` | `TypeOK` | |
| | `WildcardsAreOneLabel` | `WildcardIsOneLabel` | |
| | `WildcardsExcludeApex` | `WildcardExcludesApex` | |
| | `ExactRulesStayInZone` | `ExactStaysInZone` | |
| | `ExemptionIsEscapeProof` | `ExemptIsEscapeProof` | |
| `DnsProxyProofs` | `TypeCorrect` | `TypeOK` | |
| | `LocksAreGivenBack` | `FinishedHoldsNoLock` | |
| | `ExemptionIsSafe` | `ExemptInFlightAuthorized` | |
| | `FullBodiesStayInScope` | `FullBodyStaysInScope` | |
| | `AuditPrecedesAnswer` | `AuditedBeforeAnswer` | no fault "audit" |
| `DnsAtomicityProofs` | `LockClosesWindow` | `InFlightAuthorized` | `Reliable` |
| | `AuditedPreImage` | `PreImageIsReplaced` | `Reliable` |
| | `ProxyIsAtomic` | `CallsAreAtomic` | `Truthful` |
| `PooledProxyProofs` | `LocksLiveOnTheirConnections` | `LockLivesOnItsConnection` | |
| | `AuditGapsAreKnown` | `AuditGapIsKnown` | no fault "audit" |
| | `StarvedHoldNoLock` | `FinishedHoldsNoLock` | |
| | `PooledBodiesStayInScope` | `FullBodyStaysInScope` | |
| | `PooledExemptionIsSafe` | `ExemptInFlightAuthorized` | |
| | `PooledLockClosesWindow` | `InFlightAuthorized` | `Reliable` |
| | `PooledAuditedPreImage` | `PreImageIsReplaced` | `Reliable` |
| `TokenStoreProofs` | `TypeCorrect` | `TypeOK` | |
| | `RevocationIsFinal` | `RevokedIsFinal` | |
| | `RevocationHolds` | `RevokeRevokes` | |
| | `DeadTokensAreRejected` | `DeadTokenIsRejected` | |
| | `DeletedCredentialsAreRejected` | `DeletedCredentialIsRejected` | |
| | `RulesAreOwn` | `OwnRules` | |
| `OAuthRefreshProofs` | `TypeCorrect` | `TypeOK` | |
| | `StaleWritersAreFenced` | `StaleWriterIsFenced` | |
| | `StoredTokensAreUsable` | `StoredTokenIsUsable` | consents carry a refresh token |
| `AccountsProofs` | `TypeCorrect` | `TypeOK` | |
| | `AccountsAreUnique` | `OneAccountPerPerson` | |
| | `SessionsAreOwn` | `SessionIsOwn` | |
| | `LoginsEndOnce` | `LoginEndsOnce` | |
| | `ConsentsStayWithUsers` | `ConsentStaysWithUser` | |
| | `LoginsAreAllOrNothing` | `LoginIsAllOrNothing` | |
| | `RotationsAreTolerated` | `RotationIsTolerated` | |
| | `OwnersAreServed` | `OnlyOwnersAreServed` | |
| `ListingProofs` | `TypeCorrect` | `TypeOK` | |
| | `OnlyVisibleItems` | `AnswerIsSound` | |
| | `WalkIsComplete` | `QuietWalkIsComplete` | |
| | `CountsOnlyTheVisible` | `CountsHideTheRest` | |
| | `AuditWalkIsComplete` | `AuditWalkSkipsNothing` | |

**The hypotheses.** A theorem without one covers every failure its model has.
`Reliable`: no timeouts of the forward, lost locks or crashes, and every by-id
mutation takes the lock. `dns_exempt` shows that the second half is needed; the
failures of the first half release the lock of a mutation still on its way.
`Truthful` adds that Cloudflare's answers parse, since otherwise a client is told
of an error although its mutation was made. With the fault "audit" the audit log
may lose any row, and `_record_audit` swallows the error. A consent without a
refresh token (`FALSE \in Offline`) leaves the old one in the row, which the new
consent may have made useless (section 3).

**The arguments,** with the invariants that make the properties inductive.

*ScopeRules.* `Inv`: what is stored was accepted, and the verdict is `Evaluate` of
it. The rest is about operators. `Stripped` says what `rstrip(".")` leaves,
`Normalized` that `normalize_fqdn` is idempotent (`match_rules` applies it to the
request's name, `name_matches` again) and keeps the length. An accepted wildcard
is longer than its zone (`ValidWildcardIsLonger`): without its `*` the zone is
still a suffix, and taking out a label that is not empty shortens the stripped
name (`RemovingShortens`), even in `z.c..*`. A granted name is as long as its
pattern, so it is not the apex.

*DnsProxy.*

- `Control` ties the program counter to the rest of a request's state (a request
  past its arrival has a call, only allowed requests wait for Cloudflare, ...).
  Type correctness alone is not inductive: `WriteAudit` stores a decision, which
  must be one by then. `StepIsLocal` says a step changes one request's entries, so
  the other requests' parts carry over at once.
- `LockOwner`: who holds a lock is in its critical section with a call for that
  very record. It gives `LocksAreGivenBack`.
- `Fetched`: a mutation on its way was allowed for the pre-image, and the record
  is still in that image's zone or gone (ids are never used again). Together with
  `ExemptIsGranted` (`is_lock_exempt` implies `match_rules` for every name and
  type) it gives `ExemptionIsSafe`.
- `WrittenInv`: a record's content names a request whose mutation was carried out,
  and if it had a full body its image is granted. The names in such a body do not
  depend on the record, so no lock is needed. It gives `FullBodiesStayInScope`.
- `AuditedInv`: a request about to be answered other than with an error has its row.
- `InCritical`: the lock is held through the critical section, and a mutation is
  in flight only inside it. `Fresh`: inside it, after the fetch, the record is
  the pre-image. `Fresh` is kept because whoever else changes the record would
  hold the same lock (`ApplySparesOthers`). The two give `LockClosesWindow` and
  `AuditedPreImage`.
- `Told`: the decision tells whether a mutation was forwarded. With it every step
  is shown to be a step of `AtomicProxy` or a stutter; a mutation takes effect at
  `Apply`.

*PooledProxy.* Its actions are those of `DnsProxy` with a connection taken or given
back, so the lemmas about `DnsProxy` steps are used again. `ConnectedInv` ties the
lock's connection to the program counter; `LoggedInv` says that without an OAuth
credential a session has its connection until the audit row is written; a row that
is missing otherwise was given up by a session without one (`Unlogged`). A step is
one of `DnsProxy`, or a stutter there, or one of three ways in which a full pool
ends a wait (`PooledStepIs`); these leave records and locks alone and happen
outside the critical section, so the invariants of `DnsProxy` hold here too
(`StarvedKeepsScope`, `StarvedKeepsLock`).

*TokenStore.* `OpInv`: an operation under way writes rows that are still there, and
a revocation that was committed holds, because no other operation assigns the
status. `LookupInv`: a lookup id belongs to the token it was issued for, in the
table and in the cache. `AuthInv` has one part per step of a resolution: what the
SELECT will find active was active when the request arrived (`SelectInv`), and the
row that was found belongs to it (`RowInv`). `VersionInv` bounds the versions by the
number of operations, which type correctness needs.

*OAuthRefresh.* `RowInv` holds whatever consents bring: `VersionInv` bounds versions
by the number of writers, and `FenceInv` says that while no login has gone by the
version tells rows apart, which gives `StaleWritersAreFenced`. That the stored token
is usable needs `TokenInv`: no token is ahead of the endpoint (`NotAhead`); an answer
on its way is accepted because nobody else has it (`PendingInv`); a token that is
rotated away was stored with one version only, so the fence lets its replacement
through (`OneVersion`); nobody has a token of a consent to come (`FutureInv`).

*Accounts.* Uniqueness comes from the database: `StagedInv` says that what an open
transaction has staged clashes with no row and with nothing else staged.
`MadeInv`: an operation's rows are there only when it is over, which gives
`LoginsAreAllOrNothing`. `OwnerInv`: the owner of a credential exists, and the
credential a login is about to write belongs to the account it found; with `Found`
(that account has the subject of the code) it gives `ConsentsStayWithUsers`.
`StateInv`: at most one callback passes with a login's state, and it ends in a
session only if the nonce matched. `KeyInv`: nothing is signed with a key newer
than the newest that is published, so a key that is not published any more has been
retired for good, and an id_token refused after the second fetch stays excused.
`CopyInv`: until the first rotation nobody has another key than the first, so a
token without `kid` is checked with the right one. The properties are part of the
invariant.

*Listing.* Three invariants, of which the last two are inductive with the first.

- `TypedInv`: types, the life of a request (nothing is left of an earlier one, an
  answer ends it, one that is not refused has numbers in it) and sound answers.
  What `int()` refuses is in no answer, so the counts are numbers.
- `QuietInv`: while nothing has changed, what was fetched is the beginning of the
  list up to the next upstream page, and what the walk has shown is the beginning
  of what the token may see up to the page asked for. Completeness alone is not
  inductive: it says nothing of a walk that is under way. `NextSlice` joins a
  beginning and the slice after it, for the upstream pages and the client's alike;
  `CeilDivBounds` says that a page is the last exactly if no item comes after it.
- `AuditInv`: an entry that was there when the walk began, and is alone in its
  second, has been shown, is on the page just read, or is behind it. The *rank* of
  an entry is the number of the user's entries that are not older. In any order the
  database may give, an entry that is alone in its second stands at its rank
  (`AloneHasItsRank`), and a new entry never lowers a rank (`RankGrows`): entries
  are pushed down, to pages the client has yet to read, and the count that says
  whether there is a next page comes from the same snapshot. It also has what
  `CountsOnlyTheVisible` needs of the log's counts.

What the filter returns is stated with cardinalities instead of an induction
(`RankIsOnto`: every n up to the number of kept positions is the rank of one).

**What the proofs found.** In `Accounts` two arms of a CASE overlapped, for an
operation that commits a user it had found: TLC takes the first arm, the semantics
leaves it open. In `ScopeRules` the property about exact rules spoke of the name
"@" only; "@." is granted too. Both are corrected.

**Only model-checked:**

- liveness (`EventuallyAnswered`, `EveryoneEnds`, `WalkEnds`): TLAPS does not do
  fairness;
- the four runs that show a violation.

## 5. Not modelled, and why

- Cryptography: hashing of passwords and tokens, encryption of secrets,
  signatures of `id_token`s and session tokens. A value is genuine or it is not.
- The other claims of an `id_token` (audience, issuer, times, `at_hash`,
  `c_hash`): they are compared with constants or with what came in the same
  response.
- Read-only endpoints that return rows as they are: token and credential lists,
  token details, `read_me`, `tail-audit`.
- Blocked routes and token verification: constant answers; which route is taken
  is the framework's matter (see the divergence above).
- Schemas, configuration, probes, `init-db`: declarations, or one statement.
- A crash in `dns_pool`: a worker's pool dies with it.
- The composition of `TokenStore` and `DnsProxy`: a request looks its token up
  once, before anything else, and no later step depends on the token's row. A
  mutation of a token that is revoked while it waits for the lock is carried out.

## 6. Plan

The modules in the order in which they were planned: `Scope`, `Authorizer`,
`DnsProxy` with `AtomicProxy`, their proofs, `TokenStore`, `OAuthRefresh`,
`Listing`, `PooledProxy`, `Accounts`, then the proofs about all of them. Every
invariant and action property of a passing run is now stated by a theorem. What
could still be added:

1. `PooledProxy` as an implementation of an atomic specification: a request that is
   refused for want of a connection arrives and is answered in one step, which
   `AtomicProxy` has as two.
2. The hazards without a property (`PROJECT.json`), which concern the validator of
   patterns and routes, and cached values that are served while they last.
