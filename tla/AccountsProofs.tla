--------------------------- MODULE AccountsProofs ---------------------------
(***************************************************************************)
(* Proofs about Accounts, for any number of requests, logins, codes and    *)
(* accounts, whether or not the issuer checks PKCE.                        *)
(***************************************************************************)
EXTENDS Accounts, TLAPS

InCallback == {"exchange", "key", "refetch", "user", "flush", "commit"}
InNamed == {"verify", "delete", "remove", "zones", "browse", "records"}

(***************************************************************************)
(* Where an operation is, and what it then knows.                          *)
(***************************************************************************)
Control(o) ==
    /\ pc[o] = "idle" => req[o] = None /\ local[o].user = None
    /\ pc[o] # "idle" => req[o] # None
    /\ pc[o] # "done" => session[o] = None /\ answer[o] = None
    /\ pc[o] \in InCallback => req[o].kind = "callback"
    /\ pc[o] = "insert" => req[o].kind = "register"
    /\ pc[o] \in InNamed => req[o].kind \in Named /\ local[o].cred = req[o].cred
    /\ pc[o] \in {"user", "flush", "commit"} => NonceMatches(o)

\* The account an operation found is the one of the subject that logs in.
Found(o) ==
    local[o].user # None =>
        /\ req[o] # None /\ req[o].kind = "callback"
        /\ users[local[o].user] # None /\ users[local[o].user].sub = Code(o).sub

ControlInv == \A o \in Ops : Control(o) /\ Found(o)

\* An operation inserts rows when it ends, and nobody knows them before.
MadeInv ==
    \A o \in Ops : pc[o] # "done" =>
        /\ users[o] = None /\ creds[o] = None
        /\ \A p \in Ops : local[p].cred # o

(***************************************************************************)
(* The unique keys: a transaction that has staged a row of users keeps the *)
(* others from its keys, and no committed row has them.                    *)
(***************************************************************************)
Stages(o) == pc[o] = "commit" /\ WritesUser(o)
Apart(o, p) == UserId(p) # UserId(o) /\ ~SameKey(UserRow(p), UserRow(o))

StagedInv ==
    \A o \in Ops : Stages(o) =>
        /\ ~Clashes(o)
        /\ \A p \in Ops \ {o} : Stages(p) => Apart(o, p)

(***************************************************************************)
(* Credentials belong to users, and their consents were given by them.     *)
(***************************************************************************)
OwnerInv ==
    /\ \A i \in Ids : creds[i] # None => users[creds[i].user] # None
    /\ \A o \in Ops : pc[o] = "commit" /\ local[o].cred # None =>
          /\ local[o].user # None
          /\ creds[local[o].cred] # None => creds[local[o].cred].user = local[o].user

(***************************************************************************)
(* A login that was begun goes on in one callback at most.                 *)
(***************************************************************************)
Passed(o) ==
    /\ req[o] # None /\ req[o].kind = "callback"
    /\ pc[o] \in InCallback \/ session[o] # None

StateInv ==
    \A o \in Ops : Passed(o) =>
        /\ flows[req[o].state] = "gone"
        /\ session[o] # None => NonceMatches(o)
        /\ \A p \in Ops \ {o} : Passed(p) => req[p].state # req[o].state

\* A session is for an account there is.
SessionInv == \A o \in Ops : session[o] # None => users[session[o]] # None

(***************************************************************************)
(* The issuer's keys: it has signed with no key newer than the newest.     *)
(***************************************************************************)
KeyInv ==
    \E newest \in published :
        /\ \A k \in published : k <= newest
        /\ \A o \in Ops : local[o].key # None => local[o].key <= newest

\* Until it rotates its first key, nobody knows another one.
CopyInv ==
    published = {1} =>
        /\ jwks = None \/ jwks = {1}
        /\ \A o \in Ops : pc[o] \in {"key", "refetch"} => local[o].key = 1

Inv ==
    /\ TypeOK /\ ControlInv /\ MadeInv /\ StagedInv /\ OwnerInv /\ StateInv
    /\ SessionInv /\ KeyInv /\ CopyInv
    /\ OneAccountPerPerson /\ SessionIsOwn /\ ConsentStaysWithUser /\ LoginIsAllOrNothing
    /\ RotationIsTolerated /\ OnlyOwnersAreServed

(***************************************************************************)
(* Steps.                                                                  *)
(***************************************************************************)
\* A request comes in.
Starts(o) ==
    \E c \in Calls : \/ ConsumeState(o, c) \/ Register(o, c) \/ Login(o, c)
                     \/ CreateCredential(o, c) \/ FindOwned(o, c)

\* A step that writes no rows, and learns of none.
Plain(o) ==
    \/ ExchangeCode(o) \/ NoIdToken(o) \/ ResolveKey(o) \/ RefetchKeys(o)
    \/ VerifyCommit(o) \/ DeletePurge(o)
    \/ ZonesCached(o) \/ ZonesFetched(o) \/ RecordsFetched(o) \/ Fail(o)

Takes(o) ==
    \/ Starts(o) \/ Plain(o)
    \/ SelectUser(o) \/ FlushUser(o) \/ CommitLogin(o) \/ InsertUser(o) \/ DeleteCommit(o)

\* The issuer, Redis and time.
Outside ==
    \/ \E f \in Flows : StartLogin(f) \/ ExpireState(f)
    \/ RotateKeys \/ ExpireKeys
    \/ \E i \in Ids : ForgetZones(i)

LEMMA NextKinds == Next <=> Outside \/ \E o \in Ops : Takes(o)
  BY DEF Next, Outside, Takes, Starts, Plain

LEMMA OutsideStep ==
    ASSUME TypeOK, Outside
    PROVE  /\ UNCHANGED <<users, creds, deleted, used, checksPkce, pc, req, local, session, answer>>
           /\ UNCHANGED published \/ RotateKeys
           /\ \A f \in Flows : flows[f] = "gone" => flows'[f] = "gone"
<1>1. ASSUME NEW f \in Flows, StartLogin(f) \/ ExpireState(f)
      PROVE  \A g \in Flows : flows[g] = "gone" => flows'[g] = "gone"
  BY <1>1 DEF StartLogin, ExpireState, TypeOK
<1> QED BY <1>1 DEF Outside, StartLogin, ExpireState, RotateKeys, ExpireKeys, ForgetZones,
                    store, issuer

\* Where an operation goes.
LEMMA PlaceStep ==
    ASSUME TypeOK, NEW o \in Ops
    PROVE  /\ \A w : Goto(o, w) =>
                 /\ pc'[o] = w /\ answer'[o] = answer[o]
                 /\ \A p \in Ops \ {o} : pc'[p] = pc[p] /\ answer'[p] = answer[p]
           /\ \A a : End(o, a) =>
                 /\ pc'[o] = "done" /\ answer'[o] = a
                 /\ \A p \in Ops \ {o} : pc'[p] = pc[p] /\ answer'[p] = answer[p]
           /\ \A w \in Places : Goto(o, w) => pc' \in [Ops -> Places]
           /\ \A a : End(o, a) => pc' \in [Ops -> Places]
           /\ \A w : Goto(o, w) => answer' \in [Ops -> Answers \cup {None}]
           /\ \A a \in Answers : End(o, a) => answer' \in [Ops -> Answers \cup {None}]
<1>1. pc \in [Ops -> Places] /\ answer \in [Ops -> Answers \cup {None}] /\ "done" \in Places
  BY DEF TypeOK, Places
<1> QED BY <1>1 DEF Goto, End

\* How a look at the issuer's keys ends.
LEMMA ResolveStep ==
    ASSUME NEW o \in Ops, ResolveKey(o) \/ RefetchKeys(o)
    PROVE  /\ \/ Goto(o, "user") /\ NonceMatches(o)
              \/ Goto(o, "refetch")
              \/ End(o, "invalid")
           /\ pc[o] \in {"key", "refetch"}
           /\ jwks' \in {None, jwks, published}
           /\ UNCHANGED <<users, creds, deleted, flows, used, checksPkce, published, zones, req,
                          local, session>>
<1>1. \A k : Verify(o, k) => (Goto(o, "user") /\ NonceMatches(o)) \/ End(o, "invalid")
  BY DEF Verify
<1>2. jwks' \in {None, jwks, published}
  BY DEF ResolveKey, RefetchKeys, FetchJwks
<1> QED BY <1>1, <1>2 DEF ResolveKey, RefetchKeys, store, issuer

\* What is learnt from the exchange of a code.
LEMMA ExchangeStep ==
    ASSUME TypeOK, NEW o \in Ops, ExchangeCode(o)
    PROVE  /\ local'[o].user = local[o].user /\ local'[o].email = local[o].email
           /\ local'[o].cred = local[o].cred
           /\ \/ Goto(o, "key") /\ local'[o].key = SigningKey
              \/ End(o, "error") /\ local'[o].key = local[o].key
           /\ pc[o] = "exchange"
           /\ UNCHANGED <<users, creds, deleted, flows, checksPkce, published, jwks, zones, req,
                          session>>
<1>t. local \in [Ops -> Locals] /\ local[o] \in Locals
  BY DEF TypeOK
<1>1. /\ pc[o] = "exchange"
      /\ UNCHANGED <<users, creds, deleted, flows, checksPkce, published, jwks, zones, req, session>>
  BY DEF ExchangeCode, store
<1>2. CASE End(o, "error") /\ UNCHANGED local
  BY <1>1, <1>2
<1>3. CASE ~(End(o, "error") /\ UNCHANGED local)
  <2>1. PICK n \in BOOLEAN :
           /\ Goto(o, "key")
           /\ local' = [local EXCEPT ![o] = [@ EXCEPT !.key = SigningKey, !.kid = n]]
    BY <1>3 DEF ExchangeCode
  <2>2. local'[o] = [local[o] EXCEPT !.key = SigningKey, !.kid = n]
    BY <1>t, <2>1
  <2> QED BY <1>1, <1>t, <2>1, <2>2 DEF Locals
<1> QED BY <1>2, <1>3

\* What a call carries.
LEMMA CallFields ==
    ASSUME NEW c \in Calls
    PROVE  /\ c # None
           /\ c.kind \in {"callback", "register", "login", "create"} \cup Named
           /\ c.kind = "callback" =>
                 /\ c.state \in Flows /\ c.code \in Codes
                 /\ c.code.flow \in Flows /\ c.code.sub \in Subs /\ c.code.sub # None
                 /\ c.code.email \in Emails \cup {None}
           /\ c.kind = "register" => c.email \in Emails
           /\ c.kind = "create" => c.user \in Ids /\ c.label \in STRING
           /\ c.kind \in Named => c.user \in Ids /\ c.cred \in Ids
<1>1. c \in CallTypes /\ None \notin CallTypes /\ None \notin Subs
  BY AccountsAssumption, NoneAssumption
<1>2. CASE c \in [kind : {"callback"}, state : Flows, code : Codes]
  <2>1. c.kind = "callback" /\ c.state \in Flows /\ c.code \in Codes
    BY <1>2
  <2> QED BY <1>1, <2>1, AccountsAssumption DEF Named
<1>3. CASE c \in [kind : {"register"}, email : Emails]
  BY <1>1, <1>3 DEF Named
<1>4. CASE c \in [kind : {"login"}, email : Emails, pw : Ids]
  BY <1>1, <1>4 DEF Named
<1>5. CASE c \in [kind : {"create"}, user : Ids, label : STRING]
  BY <1>1, <1>5 DEF Named
<1>6. CASE c \in [kind : Named, user : Ids, cred : Ids]
  BY <1>1, <1>6 DEF Named
<1> QED BY <1>1, <1>2, <1>3, <1>4, <1>5, <1>6 DEF CallTypes

\* An operation changes what is its own.
Own(o) ==
    \A p \in Ops \ {o} : /\ pc'[p] = pc[p] /\ req'[p] = req[p] /\ local'[p] = local[p]
                         /\ session'[p] = session[p] /\ answer'[p] = answer[p]

LEMMA OwnStep ==
    ASSUME TypeOK, NEW o \in Ops, Takes(o)
    PROVE  Own(o) /\ pc[o] # "done" /\ UNCHANGED <<published, checksPkce>>
<1>t. /\ req \in [Ops -> Calls \cup {None}] /\ local \in [Ops -> Locals]
      /\ session \in [Ops -> Ids \cup {None}]
  BY DEF TypeOK
<1>1. CASE Starts(o)
  <2>1. PICK c \in Calls : \/ ConsumeState(o, c) \/ Register(o, c) \/ Login(o, c)
                           \/ CreateCredential(o, c) \/ FindOwned(o, c)
    BY <1>1 DEF Starts
  <2>2. pc[o] = "idle" /\ \A p \in Ops \ {o} : req'[p] = req[p]
    BY <1>t, <2>1 DEF ConsumeState, Register, Login, CreateCredential, FindOwned, Begin
  <2>3. CASE ConsumeState(o, c)
    BY <2>2, <2>3, PlaceStep DEF ConsumeState, Own, issuer
  <2>4. CASE Register(o, c)
    BY <2>2, <2>4, PlaceStep DEF Register, Own, issuer
  <2>5. CASE Login(o, c)
    BY <1>t, <2>2, <2>5, PlaceStep DEF Login, CreateJwt, Own, issuer
  <2>6. CASE CreateCredential(o, c)
    BY <2>2, <2>6, PlaceStep DEF CreateCredential, Own, issuer
  <2>7. CASE FindOwned(o, c)
    BY <1>t, <2>2, <2>7, PlaceStep DEF FindOwned, Own, issuer
  <2> QED BY <2>1, <2>3, <2>4, <2>5, <2>6, <2>7
<1>2. CASE ExchangeCode(o) \/ NoIdToken(o)
  BY <1>t, <1>2, PlaceStep DEF ExchangeCode, NoIdToken, Own
<1>3. CASE ResolveKey(o) \/ RefetchKeys(o)
  BY <1>3, ResolveStep, PlaceStep DEF Own
<1>4. CASE VerifyCommit(o) \/ DeletePurge(o) \/ DeleteCommit(o)
  BY <1>4, PlaceStep DEF VerifyCommit, DeletePurge, DeleteCommit, Own, issuer
<1>5. CASE ZonesCached(o) \/ ZonesFetched(o) \/ RecordsFetched(o) \/ Fail(o)
  BY <1>5, PlaceStep DEF ZonesCached, ZonesFetched, RecordsFetched, Fail, Own, issuer
<1>6. CASE SelectUser(o) \/ FlushUser(o)
  BY <1>t, <1>6, PlaceStep DEF SelectUser, FlushUser, Own, issuer
<1>7. CASE CommitLogin(o)
  BY <1>t, <1>7, PlaceStep DEF CommitLogin, CreateJwt, Own, issuer
<1>8. CASE InsertUser(o)
  BY <1>8, PlaceStep DEF InsertUser, Own, issuer
<1> QED BY <1>1, <1>2, <1>3, <1>4, <1>5, <1>6, <1>7, <1>8 DEF Takes, Plain

(***************************************************************************)
(* Types.                                                                  *)
(***************************************************************************)
\* What an operation is about to write is a row of users.
LEMMA RowType ==
    ASSUME TypeOK, ControlInv, NEW o \in Ops, pc[o] \in {"flush", "commit", "insert"}
    PROVE  /\ UserRow(o) \in Users /\ UserId(o) \in Ids
           /\ local[o].user = None => UserId(o) = o
           /\ local[o].user # None => UserId(o) = local[o].user
           /\ req[o].kind = "register" => local[o].user = None /\ UserRow(o).sub = None
           /\ req[o].kind = "callback" /\ local[o].user = None =>
                 UserRow(o) = [email |-> Code(o).email, sub |-> Code(o).sub, pw |-> None]
           /\ req[o].kind = "callback" /\ local[o].user # None =>
                 /\ UserRow(o).sub = users[local[o].user].sub
                 /\ UserRow(o).pw = users[local[o].user].pw
<1>1. req[o] \in Calls /\ local[o] \in Locals /\ Ops \subseteq Ids
  BY DEF TypeOK, ControlInv, Control, Ids
<1>2. req[o].kind \in {"register", "callback"}
  BY DEF ControlInv, Control, InCallback
<1>3. local[o].user \in {None} \cup Ids
  BY <1>1 DEF Locals
<1>4. UserId(o) \in Ids
  BY <1>1, <1>3 DEF UserId
<1>5. CASE req[o].kind = "register"
  <2>1. local[o].user = None
    BY <1>5 DEF ControlInv, Found
  <2>2. req[o].email \in Emails
    BY <1>1, <1>5, CallFields
  <2>3. UserRow(o) = [email |-> req[o].email, sub |-> None, pw |-> o]
    BY <1>5 DEF UserRow
  <2> QED BY <1>1, <1>4, <1>5, <2>1, <2>2, <2>3 DEF UserId, Users
<1>6. CASE req[o].kind = "callback" /\ local[o].user = None
  <2>1. UserRow(o) = [email |-> Code(o).email, sub |-> Code(o).sub, pw |-> None]
    BY <1>6 DEF UserRow
  <2>2. Code(o).email \in Emails \cup {None} /\ Code(o).sub \in Subs
    BY <1>1, <1>6, CallFields DEF Code
  <2> QED BY <1>4, <1>6, <2>1, <2>2 DEF UserId, Users
<1>7. CASE req[o].kind = "callback" /\ local[o].user # None
  <2> DEFINE e == IF Code(o).email \in {None, local[o].email} THEN users[local[o].user].email
                  ELSE Code(o).email
  <2>1. UserRow(o) = [users[local[o].user] EXCEPT !.email = e]
    BY <1>7 DEF UserRow
  <2>2. users[local[o].user] \in Users
    BY <1>3, <1>7 DEF TypeOK, ControlInv, Found
  <2>3. Code(o).email \in Emails \cup {None}
    BY <1>1, <1>7, CallFields DEF Code
  <2>4. e \in Emails \cup {None}
    BY <2>2, <2>3 DEF Users
  <2> HIDE DEF e
  <2> QED BY <1>4, <1>7, <2>1, <2>2, <2>4 DEF UserId, Users
<1> QED BY <1>2, <1>5, <1>6, <1>7

\* Assignments to what an operation remembers keep its type.
LEMMA LocalType ==
    ASSUME TypeOK, NEW o \in Ops
    PROVE  /\ \A k \in 1..MaxKey, named \in BOOLEAN :
                 [local EXCEPT ![o] = [@ EXCEPT !.key = k, !.kid = named]] \in [Ops -> Locals]
           /\ \A i \in Ids \cup {None} : [local EXCEPT ![o].cred = i] \in [Ops -> Locals]
           /\ \A i \in Ids \cup {None}, e \in Emails \cup {None} :
                 [local EXCEPT ![o] = [@ EXCEPT !.user = i, !.email = e]] \in [Ops -> Locals]
<1>t. local \in [Ops -> Locals] /\ local[o] \in Locals
  BY DEF TypeOK
<1>0. \A r \in Locals : [local EXCEPT ![o] = r] \in [Ops -> Locals]
  BY <1>t
<1>1. ASSUME NEW k \in 1..MaxKey, NEW named \in BOOLEAN
      PROVE  [local EXCEPT ![o] = [@ EXCEPT !.key = k, !.kid = named]] \in [Ops -> Locals]
  <2>1. [local[o] EXCEPT !.key = k, !.kid = named] \in Locals
    BY <1>t DEF Locals
  <2>2. [local EXCEPT ![o] = [@ EXCEPT !.key = k, !.kid = named]]
          = [local EXCEPT ![o] = [local[o] EXCEPT !.key = k, !.kid = named]]
    OBVIOUS
  <2> QED BY <1>0, <2>1, <2>2
<1>2. ASSUME NEW i \in Ids \cup {None} PROVE [local EXCEPT ![o].cred = i] \in [Ops -> Locals]
  <2>1. [local[o] EXCEPT !.cred = i] \in Locals
    BY <1>t DEF Locals
  <2>2. [local EXCEPT ![o].cred = i] = [local EXCEPT ![o] = [local[o] EXCEPT !.cred = i]]
    OBVIOUS
  <2> QED BY <1>0, <2>1, <2>2
<1>3. ASSUME NEW i \in Ids \cup {None}, NEW e \in Emails \cup {None}
      PROVE  [local EXCEPT ![o] = [@ EXCEPT !.user = i, !.email = e]] \in [Ops -> Locals]
  <2>1. [local[o] EXCEPT !.user = i, !.email = e] \in Locals
    BY <1>t DEF Locals
  <2>2. [local EXCEPT ![o] = [@ EXCEPT !.user = i, !.email = e]]
          = [local EXCEPT ![o] = [local[o] EXCEPT !.user = i, !.email = e]]
    OBVIOUS
  <2> QED BY <1>0, <2>1, <2>2
<1> QED BY <1>1, <1>2, <1>3

\* The issuer signs with its newest key.
LEMMA NewestKey ==
    ASSUME TypeOK, KeyInv
    PROVE  /\ SigningKey \in published /\ SigningKey \in 1..MaxKey
           /\ \A k \in published : k <= SigningKey
           /\ \A o \in Ops : local[o].key # None => local[o].key <= SigningKey
<1>1. published \subseteq 1..MaxKey /\ MaxKey \in Nat
  BY AccountsAssumption DEF TypeOK
<1>2. PICK newest \in published :
         /\ \A k \in published : k <= newest
         /\ \A o \in Ops : local[o].key # None => local[o].key <= newest
  BY DEF KeyInv
<1>3. SigningKey \in published /\ \A k \in published : SigningKey >= k
  <2>1. \E x \in published : \A k \in published : x >= k
    BY <1>1, <1>2
  <2> QED BY <2>1 DEF SigningKey, Max
<1>4. SigningKey = newest
  BY <1>1, <1>2, <1>3
<1> QED BY <1>1, <1>2, <1>3, <1>4

\* The rest of the state, by name.
LEMMA TypeParts ==
    ASSUME TypeOK
    PROVE  /\ users \in [Ids -> Users \cup {None}] /\ creds \in [Ids -> Credentials \cup {None}]
           /\ deleted \subseteq Ids /\ zones \subseteq Ids /\ used \subseteq Codes
           /\ flows \in [Flows -> {"new", "stored", "gone"}] /\ checksPkce \in BOOLEAN
           /\ published \subseteq 1..MaxKey /\ published # {}
           /\ jwks = None \/ jwks \subseteq 1..MaxKey
           /\ pc \in [Ops -> Places] /\ req \in [Ops -> Calls \cup {None}]
           /\ local \in [Ops -> Locals] /\ session \in [Ops -> Ids \cup {None}]
           /\ answer \in [Ops -> Answers \cup {None}]
           /\ Ops \subseteq Ids
  BY DEF TypeOK, Ids

LEMMA OutsideType ==
    ASSUME TypeOK, KeyInv, Outside PROVE TypeOK'
<1>1. ASSUME NEW f \in Flows, StartLogin(f) \/ ExpireState(f) PROVE TypeOK'
  <2>1. flows' \in [Flows -> {"new", "stored", "gone"}]
    BY <1>1 DEF StartLogin, ExpireState, TypeOK
  <2> QED BY <1>1, <2>1 DEF StartLogin, ExpireState, store, issuer, TypeOK
<1>2. CASE RotateKeys
  <2>1. SigningKey \in published /\ SigningKey \in 1..MaxKey /\ MaxKey \in Nat
    BY NewestKey, AccountsAssumption
  <2>2. published' \subseteq 1..MaxKey /\ published' # {}
    BY <1>2, <2>1, TypeParts DEF RotateKeys
  <2> QED BY <1>2, <2>2 DEF RotateKeys, store, TypeOK
<1>3. CASE ExpireKeys
  BY <1>3 DEF ExpireKeys, store, issuer, TypeOK
<1>4. ASSUME NEW i \in Ids, ForgetZones(i) PROVE TypeOK'
  BY <1>4 DEF ForgetZones, store, issuer, TypeOK
<1> QED BY <1>1, <1>2, <1>3, <1>4 DEF Outside

LEMMA StartType ==
    ASSUME TypeOK, NEW o \in Ops, Starts(o) PROVE TypeOK'
<1> USE TypeParts
<1>1. PICK c \in Calls : \/ ConsumeState(o, c) \/ Register(o, c) \/ Login(o, c)
                         \/ CreateCredential(o, c) \/ FindOwned(o, c)
  BY DEF Starts
<1>2. req' \in [Ops -> Calls \cup {None}]
  BY <1>1 DEF ConsumeState, Register, Login, CreateCredential, FindOwned, Begin
<1>p. Named \cup {"exchange", "insert"} \subseteq Places
      /\ {"ok", "bad", "denied", "conflict", "notfound", "error"} \subseteq Answers
  BY DEF Places, Answers, Named
<1>3. CASE ConsumeState(o, c)
  <2>1. flows' \in [Flows -> {"new", "stored", "gone"}]
    BY <1>3 DEF ConsumeState
  <2>2. pc' \in [Ops -> Places] /\ answer' \in [Ops -> Answers \cup {None}]
    BY <1>p, <1>3, PlaceStep DEF ConsumeState
  <2> QED BY <1>2, <1>3, <2>1, <2>2 DEF ConsumeState, store, issuer, TypeOK
<1>4. CASE Register(o, c)
  <2>2. pc' \in [Ops -> Places] /\ answer' \in [Ops -> Answers \cup {None}]
    BY <1>p, <1>4, PlaceStep DEF Register
  <2> QED BY <1>2, <1>4, <2>2 DEF Register, store, issuer, TypeOK
<1>5. CASE Login(o, c)
  <2>1. pc' \in [Ops -> Places] /\ answer' \in [Ops -> Answers \cup {None}]
    BY <1>p, <1>5, PlaceStep DEF Login
  <2>2. session' \in [Ops -> Ids \cup {None}]
    BY <1>5 DEF Login, CreateJwt
  <2> QED BY <1>2, <1>5, <2>1, <2>2 DEF Login, store, issuer, TypeOK
<1>6. CASE CreateCredential(o, c)
  <2>1. pc' \in [Ops -> Places] /\ answer' \in [Ops -> Answers \cup {None}]
    BY <1>p, <1>6, PlaceStep DEF CreateCredential
  <2>2. c.user \in Ids /\ c.label \in STRING
    BY <1>6, CallFields DEF CreateCredential, Begin
  <2>3. [user |-> c.user, label |-> c.label, type |-> "token", consent |-> None] \in Credentials
    BY <2>2 DEF Credentials
  <2>4. creds' \in [Ids -> Credentials \cup {None}]
    BY <1>6, <2>3 DEF CreateCredential
  <2> QED BY <1>2, <1>6, <2>1, <2>4 DEF CreateCredential, issuer, TypeOK
<1>7. CASE FindOwned(o, c)
  <2>1. pc' \in [Ops -> Places] /\ answer' \in [Ops -> Answers \cup {None}]
    BY <1>p, <1>7, PlaceStep DEF FindOwned
  <2>2. c.cred \in Ids
    BY <1>7, CallFields DEF FindOwned
  <2>3. local' \in [Ops -> Locals]
    BY <1>7, <2>2, LocalType DEF FindOwned
  <2> QED BY <1>2, <1>7, <2>1, <2>3 DEF FindOwned, store, issuer, TypeOK
<1> QED BY <1>1, <1>3, <1>4, <1>5, <1>6, <1>7

LEMMA PlainType ==
    ASSUME TypeOK, ControlInv, KeyInv, NEW o \in Ops, Plain(o) PROVE TypeOK'
<1> USE TypeParts
<1>p. {"key", "refetch", "user", "remove", "browse"} \subseteq Places
      /\ {"ok", "bad", "invalid", "error"} \subseteq Answers
  BY DEF Places, Answers
<1>c. /\ pc[o] \in InCallback => req[o] \in Calls /\ req[o].kind = "callback"
      /\ pc[o] \in InNamed => req[o] \in Calls /\ req[o].kind \in Named
  BY DEF ControlInv, Control, InCallback, InNamed
<1>1. CASE ExchangeCode(o) \/ NoIdToken(o)
  <2>1. pc' \in [Ops -> Places] /\ answer' \in [Ops -> Answers \cup {None}]
    BY <1>p, <1>1, PlaceStep DEF ExchangeCode, NoIdToken
  <2>2. Code(o) \in Codes
    BY <1>c, <1>1, CallFields DEF ExchangeCode, NoIdToken, Code, InCallback
  <2>3. local' \in [Ops -> Locals]
    <3>1. SigningKey \in 1..MaxKey
      BY NewestKey
    <3>2. \A named \in BOOLEAN :
            [local EXCEPT ![o] = [@ EXCEPT !.key = SigningKey, !.kid = named]] \in [Ops -> Locals]
      BY <3>1, LocalType
    <3> QED BY <1>1, <3>2 DEF ExchangeCode, NoIdToken
  <2> QED BY <1>1, <2>1, <2>2, <2>3 DEF ExchangeCode, NoIdToken, store, TypeOK
<1>2. CASE ResolveKey(o) \/ RefetchKeys(o)
  <2>1. pc' \in [Ops -> Places] /\ answer' \in [Ops -> Answers \cup {None}]
    BY <1>p, <1>2, ResolveStep, PlaceStep
  <2>2. jwks' = None \/ jwks' \subseteq 1..MaxKey
    BY <1>2, ResolveStep
  <2> QED BY <1>2, <2>1, <2>2, ResolveStep DEF TypeOK
<1>3. CASE VerifyCommit(o) \/ DeletePurge(o)
  <2>1. pc' \in [Ops -> Places] /\ answer' \in [Ops -> Answers \cup {None}]
    BY <1>p, <1>3, PlaceStep DEF VerifyCommit, DeletePurge
  <2> QED BY <1>3, <2>1 DEF VerifyCommit, DeletePurge, store, issuer, TypeOK
<1>4. CASE ZonesCached(o) \/ ZonesFetched(o) \/ RecordsFetched(o) \/ Fail(o)
  <2>1. pc' \in [Ops -> Places] /\ answer' \in [Ops -> Answers \cup {None}]
    BY <1>p, <1>4, PlaceStep DEF ZonesCached, ZonesFetched, RecordsFetched, Fail
  <2>2. zones' \subseteq Ids
    <3>1. CASE ZonesFetched(o)
      BY <1>c, <3>1, CallFields DEF ZonesFetched, InNamed
    <3> QED BY <1>4, <3>1 DEF ZonesCached, RecordsFetched, Fail
  <2> QED BY <1>4, <2>1, <2>2 DEF ZonesCached, ZonesFetched, RecordsFetched, Fail, store,
                                  issuer, TypeOK
<1> QED BY <1>1, <1>2, <1>3, <1>4 DEF Plain

\* The row a login's commit writes to the credentials is one.
LEMMA CommitType ==
    ASSUME TypeOK, ControlInv, NEW o \in Ops, CommitLogin(o) PROVE TypeOK'
<1> USE TypeParts
<1> DEFINE u == UserId(o)
           k == IF local[o].cred = None THEN o ELSE local[o].cred
           row == [user |-> u, label |-> OAuthLabel, type |-> "oauth", consent |-> Code(o).sub]
           new == IF local[o].cred = None THEN row ELSE [creds[k] EXCEPT !.consent = Code(o).sub]
<1>1. pc' \in [Ops -> Places] /\ answer' \in [Ops -> Answers \cup {None}]
  BY PlaceStep DEF CommitLogin, Answers
<1>2. /\ u \in Ids /\ UserRow(o) \in Users /\ k \in Ids
      /\ Code(o).sub \in Subs
  <2>1. pc[o] = "commit" /\ req[o] \in Calls /\ req[o].kind = "callback"
    BY DEF CommitLogin, ControlInv, Control, InCallback
  <2> QED BY <2>1, RowType, CallFields DEF Code, Locals
<1>3. users' \in [Ids -> Users \cup {None}] /\ session' \in [Ops -> Ids \cup {None}]
  BY <1>2 DEF CommitLogin, CreateJwt
<1>4. creds' \in [Ids -> Credentials \cup {None}]
  <2>1. CASE UNCHANGED creds
    BY <2>1
  <2>2. CASE ~UNCHANGED creds
    <3>1. creds' = [creds EXCEPT ![k] = new] /\ (local[o].cred # None => creds[k] # None)
      BY <2>2 DEF CommitLogin
    <3>2. row \in Credentials
      BY <1>2, AccountsAssumption DEF Credentials
    <3>3. new \in Credentials
      BY <1>2, <3>1, <3>2 DEF Credentials
    <3> HIDE DEF new, k
    <3> QED BY <1>2, <3>1, <3>3
  <2> QED BY <2>1, <2>2
<1> HIDE DEF u, k, row, new
<1> QED BY <1>1, <1>3, <1>4 DEF CommitLogin, issuer, TypeOK

LEMMA TypeStep == TypeOK /\ ControlInv /\ KeyInv /\ [Next]_vars => TypeOK'
<1> SUFFICES ASSUME TypeOK, ControlInv, KeyInv, [Next]_vars PROVE TypeOK'
  OBVIOUS
<1> USE TypeParts
<1>1. ASSUME NEW o \in Ops, SelectUser(o) PROVE TypeOK'
  <2>1. pc' \in [Ops -> Places] /\ answer' \in [Ops -> Answers \cup {None}]
    BY <1>1, PlaceStep DEF SelectUser, Places
  <2>2. UserOf(Code(o)) \subseteq {i \in Ids : users[i] \in Users}
    BY DEF UserOf
  <2>3. UserOf(Code(o)) # {} => (CHOOSE i \in UserOf(Code(o)) : TRUE) \in UserOf(Code(o))
    OBVIOUS
  <2>4. local' \in [Ops -> Locals]
    <3> DEFINE i == IF UserOf(Code(o)) = {} THEN None ELSE CHOOSE i \in UserOf(Code(o)) : TRUE
               e == IF UserOf(Code(o)) = {} THEN None
                    ELSE users[CHOOSE j \in UserOf(Code(o)) : TRUE].email
    <3>1. i \in Ids \cup {None} /\ e \in Emails \cup {None}
      BY <2>2, <2>3 DEF Users
    <3>2. local' = [local EXCEPT ![o] = [@ EXCEPT !.user = i, !.email = e]]
      BY <1>1 DEF SelectUser
    <3> HIDE DEF i, e
    <3> QED BY <3>1, <3>2, LocalType
  <2> QED BY <1>1, <2>1, <2>4 DEF SelectUser, store, issuer, TypeOK
<1>2. ASSUME NEW o \in Ops, FlushUser(o) PROVE TypeOK'
  <2>1. pc' \in [Ops -> Places] /\ answer' \in [Ops -> Answers \cup {None}]
    BY <1>2, PlaceStep DEF FlushUser, Places, Answers
  <2>2. CredentialOf(UserId(o)) \subseteq Ids
    BY DEF CredentialOf
  <2>3. local' \in [Ops -> Locals]
    <3> DEFINE i == IF CredentialOf(UserId(o)) = {} THEN None
                    ELSE CHOOSE i \in CredentialOf(UserId(o)) : TRUE
    <3>1. i \in Ids \cup {None}
      BY <2>2
    <3>2. local' = local \/ local' = [local EXCEPT ![o].cred = i]
      BY <1>2 DEF FlushUser
    <3> HIDE DEF i
    <3>3. [local EXCEPT ![o].cred = i] \in [Ops -> Locals]
      BY <3>1, LocalType
    <3> QED BY <3>2, <3>3
  <2> QED BY <1>2, <2>1, <2>3 DEF FlushUser, store, issuer, TypeOK
<1>3. ASSUME NEW o \in Ops, InsertUser(o) PROVE TypeOK'
  <2>1. pc' \in [Ops -> Places] /\ answer' \in [Ops -> Answers \cup {None}]
    BY <1>3, PlaceStep DEF InsertUser, Answers
  <2>2. UserRow(o) \in Users
    BY <1>3, RowType DEF InsertUser
  <2>3. users' \in [Ids -> Users \cup {None}]
    BY <1>3, <2>2 DEF InsertUser
  <2> QED BY <1>3, <2>1, <2>3 DEF InsertUser, issuer, TypeOK
<1>4. ASSUME NEW o \in Ops, DeleteCommit(o) PROVE TypeOK'
  <2>1. pc' \in [Ops -> Places] /\ answer' \in [Ops -> Answers \cup {None}]
    BY <1>4, PlaceStep DEF DeleteCommit, Answers
  <2>2. req[o].cred \in Ids
    BY <1>4, CallFields DEF DeleteCommit, ControlInv, Control, InNamed
  <2> QED BY <1>4, <2>1, <2>2 DEF DeleteCommit, issuer, TypeOK
<1>5. CASE UNCHANGED vars
  BY <1>5 DEF vars, TypeOK
<1> QED BY <1>1, <1>2, <1>3, <1>4, <1>5, NextKinds, OutsideType, StartType, PlainType, CommitType
        DEF Takes

(***************************************************************************)
(* Rows: those of users stay, with their subject and their password; those *)
(* of credentials keep their owner.                                        *)
(***************************************************************************)
\* Steps other than these leave both tables alone.
LEMMA NoRowsWritten ==
    ASSUME TypeOK, [Next]_vars
    PROVE  \/ UNCHANGED <<users, creds, deleted>>
           \/ \E o \in Ops : CommitLogin(o) \/ InsertUser(o) \/ DeleteCommit(o)
           \/ \E o \in Ops, c \in Calls : CreateCredential(o, c)
<1>1. ASSUME NEW o \in Ops, Starts(o)
      PROVE  UNCHANGED <<users, creds, deleted>> \/ \E c \in Calls : CreateCredential(o, c)
  BY <1>1 DEF Starts, ConsumeState, Register, Login, FindOwned, store
<1>2. ASSUME NEW o \in Ops, Plain(o) PROVE UNCHANGED <<users, creds, deleted>>
  BY <1>2 DEF Plain, ExchangeCode, NoIdToken, ResolveKey, RefetchKeys, VerifyCommit,
              DeletePurge, ZonesCached, ZonesFetched, RecordsFetched, Fail, store
<1>3. ASSUME NEW o \in Ops, SelectUser(o) \/ FlushUser(o) PROVE UNCHANGED <<users, creds, deleted>>
  BY <1>3 DEF SelectUser, FlushUser, store
<1>4. CASE UNCHANGED vars
  BY <1>4 DEF vars
<1> QED BY <1>1, <1>2, <1>3, <1>4, NextKinds, OutsideStep DEF Takes

\* Only a login's commit and a registration write to users, and only their own row.
LEMMA UsersWritten ==
    ASSUME TypeOK, ControlInv, [Next]_vars, users' # users
    PROVE  \E o \in Ops :
               /\ \/ CommitLogin(o) /\ Stages(o) /\ req[o].kind = "callback"
                  \/ InsertUser(o) /\ ~Waits(o) /\ ~Clashes(o) /\ req[o].kind = "register"
               /\ users' = [users EXCEPT ![UserId(o)] = UserRow(o)]
               /\ pc'[o] = "done"
<1>1. \E o \in Ops : CommitLogin(o) \/ InsertUser(o)
  BY NoRowsWritten DEF CreateCredential, DeleteCommit
<1>2. ASSUME NEW o \in Ops, CommitLogin(o)
      PROVE  /\ Stages(o) /\ req[o].kind = "callback"
             /\ users' = [users EXCEPT ![UserId(o)] = UserRow(o)]
             /\ pc'[o] = "done"
  BY <1>2, PlaceStep DEF CommitLogin, Stages, ControlInv, Control, InCallback
<1>3. ASSUME NEW o \in Ops, InsertUser(o)
      PROVE  /\ ~Waits(o) /\ ~Clashes(o) /\ req[o].kind = "register"
             /\ users' = [users EXCEPT ![UserId(o)] = UserRow(o)]
             /\ pc'[o] = "done"
  <2>1. pc[o] = "insert" /\ req[o].kind = "register"
    BY <1>3 DEF InsertUser, ControlInv, Control
  <2>2. UserId(o) = o
    BY <2>1, RowType
  <2> QED BY <1>3, <2>1, <2>2, PlaceStep DEF InsertUser
<1> QED BY <1>1, <1>2, <1>3

LEMMA UsersKept ==
    ASSUME TypeOK, ControlInv, MadeInv, [Next]_vars
    PROVE  /\ \A i \in Ids : users[i] # None =>
                 /\ users'[i] # None
                 /\ users'[i].sub = users[i].sub /\ users'[i].pw = users[i].pw
           /\ \A o \in Ops : users[o] = None /\ users'[o] # None => pc'[o] = "done"
<1>1. CASE users' # users
  <2>1. PICK o \in Ops :
               /\ \/ CommitLogin(o) /\ Stages(o) /\ req[o].kind = "callback"
                  \/ InsertUser(o) /\ ~Waits(o) /\ ~Clashes(o) /\ req[o].kind = "register"
               /\ users' = [users EXCEPT ![UserId(o)] = UserRow(o)]
               /\ pc'[o] = "done"
    BY <1>1, UsersWritten
  <2>2. pc[o] \in {"commit", "insert"}
    BY <2>1 DEF CommitLogin, InsertUser
  <2>3. UserRow(o) \in Users /\ UserId(o) \in Ids /\ UserRow(o) # None
    BY <2>2, RowType, NoneAssumption
  <2>4. users'[UserId(o)] = UserRow(o) /\ \A i \in Ids \ {UserId(o)} : users'[i] = users[i]
    BY <2>1, <2>3, TypeParts
  <2>5. CASE local[o].user = None
    <3>1. UserId(o) = o /\ users[o] = None
      BY <2>2, <2>5, RowType DEF MadeInv
    <3> QED BY <2>1, <2>4, <3>1, TypeParts
  <2>6. CASE local[o].user # None
    <3>1. req[o].kind = "callback" /\ users[local[o].user] # None
      BY <2>6 DEF ControlInv, Found
    <3>2. UserId(o) = local[o].user
      BY <2>2, <2>6, RowType
    <3>3. UserRow(o).sub = users[local[o].user].sub /\ UserRow(o).pw = users[local[o].user].pw
      BY <2>2, <2>6, <3>1, RowType
    <3> QED BY <2>3, <2>4, <3>1, <3>2, <3>3, TypeParts
  <2> QED BY <2>5, <2>6
<1>2. CASE users' = users
  BY <1>2
<1> QED BY <1>1, <1>2

LEMMA CredsKept ==
    ASSUME TypeOK, ControlInv, MadeInv, OwnerInv, [Next]_vars
    PROVE  /\ \A i \in Ids : creds[i] # None /\ creds'[i] # None => creds'[i].user = creds[i].user
           /\ \A i \in Ids : creds[i] # None /\ creds'[i] = None => i \in deleted'
           /\ \A i \in Ids : creds[i] = None /\ creds'[i] # None =>
                 i \in Ops /\ pc[i] # "done" /\ pc'[i] = "done" /\ users'[creds'[i].user] # None
           /\ deleted \subseteq deleted'
<1> USE TypeParts
<1>1. ASSUME NEW o \in Ops, CommitLogin(o), creds' # creds
      PROVE  /\ deleted' = deleted
             /\ \E k \in Ids : /\ creds'[k] # None
                               /\ \A i \in Ids \ {k} : creds'[i] = creds[i]
                               /\ creds[k] # None => creds'[k].user = creds[k].user
                               /\ creds[k] = None => k = o /\ users'[creds'[k].user] # None
             /\ pc[o] # "done" /\ pc'[o] = "done"
  <2> DEFINE u == UserId(o)
             k == IF local[o].cred = None THEN o ELSE local[o].cred
             row == [user |-> u, label |-> OAuthLabel, type |-> "oauth", consent |-> Code(o).sub]
             new == IF local[o].cred = None THEN row ELSE [creds[k] EXCEPT !.consent = Code(o).sub]
  <2>1. /\ pc[o] = "commit" /\ pc'[o] = "done" /\ deleted' = deleted
        /\ creds' = [creds EXCEPT ![k] = new]
        /\ users' = IF WritesUser(o) THEN [users EXCEPT ![u] = UserRow(o)] ELSE users
        /\ local[o].cred # None => creds[k] # None
    BY <1>1, PlaceStep DEF CommitLogin
  <2>2. local[o].cred \in Ids \cup {None} /\ k \in Ids /\ creds[o] = None
    BY <2>1 DEF Locals, MadeInv
  <2>3. creds'[k] = new /\ \A i \in Ids \ {k} : creds'[i] = creds[i]
    BY <2>1, <2>2
  <2>4. u \in Ids /\ UserRow(o) # None /\ UserRow(o) \in Users
    BY <2>1, RowType, NoneAssumption
  <2>5. users'[u] # None
    <3>1. CASE WritesUser(o)
      BY <2>1, <2>4, <3>1
    <3>2. CASE ~WritesUser(o)
      <4>1. local[o].user # None /\ u = local[o].user
        BY <3>2 DEF WritesUser, UserId
      <4> QED BY <2>1, <3>2, <4>1 DEF ControlInv, Found
    <3> QED BY <3>1, <3>2
  <2>6. CASE local[o].cred = None
    <3>1. k = o /\ new = row
      BY <2>6
    <3>2. creds'[o] = row /\ row # None
      <4>1. creds'[o] = row
        BY <2>3, <3>1
      <4>2. row.user = u
        OBVIOUS
      <4>3. row \in Credentials
        <5>1. Code(o).sub \in Subs
          BY <2>1, CallFields DEF ControlInv, Control, InCallback, Code
        <5> QED BY <2>4, <5>1, AccountsAssumption DEF Credentials
      <4> QED BY <4>1, <4>3, NoneAssumption
    <3>3. creds'[o].user = u
      BY <3>2
    <3> HIDE DEF u, k, row, new
    <3> QED BY <2>1, <2>2, <2>3, <2>5, <3>1, <3>2, <3>3
  <2>7. CASE local[o].cred # None
    <3>1. creds[k] \in Credentials /\ new = [creds[k] EXCEPT !.consent = Code(o).sub]
      BY <2>1, <2>2, <2>7
    <3>2. Code(o).sub \in Subs
      BY <2>1, CallFields DEF ControlInv, Control, InCallback, Code
    <3>3. new \in Credentials /\ new.user = creds[k].user
      BY <3>1, <3>2 DEF Credentials
    <3> HIDE DEF u, k, row, new
    <3> QED BY <2>1, <2>2, <2>3, <2>7, <3>3, NoneAssumption
  <2> QED BY <2>6, <2>7
<1>2. ASSUME NEW o \in Ops, NEW c \in Calls, CreateCredential(o, c)
      PROVE  /\ deleted' = deleted /\ pc[o] # "done" /\ pc'[o] = "done"
             /\ creds[o] = None /\ \A i \in Ids \ {o} : creds'[i] = creds[i]
             /\ creds'[o] # None => users'[creds'[o].user] # None
  <2>1. pc[o] = "idle" /\ creds[o] = None
    BY <1>2 DEF CreateCredential, Begin, MadeInv
  <2>2. users[c.user] # None /\ users' = users
    BY <1>2 DEF CreateCredential, CurrentUser
  <2> QED BY <1>2, <2>1, <2>2, PlaceStep DEF CreateCredential
<1>3. ASSUME NEW o \in Ops, DeleteCommit(o)
      PROVE  /\ \A i \in Ids : creds'[i] = creds[i] \/ (creds'[i] = None /\ i \in deleted')
             /\ deleted \subseteq deleted'
  BY <1>3 DEF DeleteCommit
<1>4. ASSUME NEW o \in Ops, InsertUser(o) PROVE UNCHANGED <<creds, deleted>>
  BY <1>4 DEF InsertUser
<1>5. ASSUME NEW o \in Ops, CommitLogin(o) PROVE UNCHANGED deleted
  BY <1>5 DEF CommitLogin
<1> QED BY <1>1, <1>2, <1>3, <1>4, <1>5, NoRowsWritten

(***************************************************************************)
(* Control.                                                                *)
(***************************************************************************)
\* Where a step of an operation leads.
LEMMA ControlOwn ==
    ASSUME TypeOK, ControlInv, NEW o \in Ops, Takes(o)
    PROVE  Control(o)'
<1> USE TypeParts
<1>t. req[o] \in Calls \cup {None} /\ local[o] \in Locals /\ Control(o)
  BY DEF ControlInv
<1>n. None \notin Answers
  BY NoneAssumption
<1>1. CASE Starts(o)
  <2>1. PICK c \in Calls : \/ ConsumeState(o, c) \/ Register(o, c) \/ Login(o, c)
                           \/ CreateCredential(o, c) \/ FindOwned(o, c)
    BY <1>1 DEF Starts
  <2>2. pc[o] = "idle" /\ req'[o] = c /\ c # None
    BY <2>1, CallFields DEF ConsumeState, Register, Login, CreateCredential, FindOwned, Begin
  <2>3. CASE ConsumeState(o, c)
    BY <1>t, <2>2, <2>3, PlaceStep DEF ConsumeState, Begin, Control, InCallback, InNamed
  <2>4. CASE Register(o, c)
    BY <1>t, <2>2, <2>4, PlaceStep DEF Register, Begin, Control, InCallback, InNamed
  <2>5. CASE Login(o, c) \/ CreateCredential(o, c)
    BY <2>2, <2>5, PlaceStep DEF Login, CreateCredential, Control, InCallback, InNamed
  <2>6. CASE FindOwned(o, c)
    <3>1. local'[o].cred = IF Owned(c) THEN c.cred ELSE None
      BY <1>t, <2>6 DEF FindOwned, Locals
    <3>2. session'[o] = session[o] /\ c.kind \in Named
      BY <2>6 DEF FindOwned
    <3> QED BY <1>t, <2>2, <2>6, <3>1, <3>2, PlaceStep
            DEF FindOwned, Control, InCallback, InNamed, Named
  <2> QED BY <2>1, <2>3, <2>4, <2>5, <2>6
<1>2. CASE Plain(o)
  <2>1. /\ req' = req /\ session' = session /\ local'[o].cred = local[o].cred
        /\ pc'[o] \in {"key", "refetch", "user", "remove", "browse", "done"}
        /\ pc'[o] \in {"key", "refetch", "user"} => pc[o] \in InCallback
        /\ pc'[o] = "user" => NonceMatches(o)
        /\ pc'[o] \in {"remove", "browse"} => pc[o] \in InNamed
        /\ pc'[o] # "done" => answer'[o] = answer[o]
        /\ pc[o] \notin {"idle", "done"}
    <3>1. CASE ExchangeCode(o) \/ NoIdToken(o)
      <4>1. CASE ExchangeCode(o)
        BY <4>1, ExchangeStep, PlaceStep DEF InCallback
      <4>2. CASE NoIdToken(o)
        BY <4>2, PlaceStep DEF NoIdToken
      <4> QED BY <3>1, <4>1, <4>2
    <3>2. CASE ResolveKey(o) \/ RefetchKeys(o)
      BY <3>2, ResolveStep, PlaceStep DEF InCallback
    <3>3. CASE VerifyCommit(o) \/ DeletePurge(o) \/ ZonesCached(o) \/ ZonesFetched(o)
      BY <3>3, PlaceStep DEF VerifyCommit, DeletePurge, ZonesCached, ZonesFetched, InNamed
    <3>4. CASE RecordsFetched(o) \/ Fail(o)
      BY <3>4, PlaceStep DEF RecordsFetched, Fail
    <3> QED BY <1>2, <3>1, <3>2, <3>3, <3>4 DEF Plain
  <2> QED BY <1>t, <2>1 DEF Control, InCallback, InNamed, NonceMatches, Code
<1>3. CASE SelectUser(o)
  BY <1>t, <1>3, PlaceStep DEF SelectUser, Control, InCallback, InNamed, NonceMatches, Code
<1>4. CASE FlushUser(o)
  BY <1>t, <1>4, PlaceStep DEF FlushUser, Control, InCallback, InNamed, NonceMatches, Code
<1>5. CASE CommitLogin(o)
  BY <1>t, <1>5, PlaceStep DEF CommitLogin, Control, InCallback, InNamed
<1>6. CASE InsertUser(o) \/ DeleteCommit(o)
  BY <1>t, <1>6, PlaceStep DEF InsertUser, DeleteCommit, Control, InCallback, InNamed
<1> QED BY <1>1, <1>2, <1>3, <1>4, <1>5, <1>6 DEF Takes

\* What an operation has found stays: SELECT finds the account of the subject.
LEMMA FoundOwn ==
    ASSUME TypeOK, ControlInv, MadeInv, NEW o \in Ops, Takes(o), [Next]_vars
    PROVE  Found(o)'
<1> USE TypeParts
<1>t. req[o] \in Calls \cup {None} /\ local[o] \in Locals /\ Control(o) /\ Found(o)
  BY DEF ControlInv
<1>1. CASE SelectUser(o)
  <2>1. pc[o] = "user" /\ req' = req /\ users' = users /\ req[o] # None
        /\ req[o].kind = "callback"
    BY <1>t, <1>1 DEF SelectUser, store, Control, InCallback
  <2>2. local'[o].user = IF UserOf(Code(o)) = {} THEN None
                         ELSE CHOOSE i \in UserOf(Code(o)) : TRUE
    BY <1>t, <1>1 DEF SelectUser, Locals
  <2>3. local'[o].user # None => local'[o].user \in UserOf(Code(o))
    BY <2>2
  <2> QED BY <2>1, <2>3 DEF Found, UserOf, Code
<1>2. CASE ~SelectUser(o)
  <2>1. local'[o].user = local[o].user
    <3>1. CASE Starts(o)
      BY <1>t, <3>1 DEF Starts, ConsumeState, Register, Login, CreateCredential, FindOwned, Locals
    <3>2. CASE Plain(o)
      <4>1. CASE ExchangeCode(o)
        BY <4>1, ExchangeStep
      <4>2. CASE ResolveKey(o) \/ RefetchKeys(o)
        BY <4>2, ResolveStep
      <4> QED BY <3>2, <4>1, <4>2 DEF Plain, NoIdToken, VerifyCommit,
                DeletePurge, ZonesCached, ZonesFetched, RecordsFetched, Fail
    <3>3. CASE FlushUser(o) \/ CommitLogin(o) \/ InsertUser(o) \/ DeleteCommit(o)
      BY <1>t, <3>3 DEF FlushUser, CommitLogin, InsertUser, DeleteCommit, Locals
    <3> QED BY <1>2, <3>1, <3>2, <3>3 DEF Takes
  <2>2. local[o].user # None => req'[o] = req[o]
    <3>1. CASE Starts(o)
      BY <1>t, <3>1 DEF Starts, ConsumeState, Register, Login, CreateCredential, FindOwned,
                        Begin, Control
    <3>2. CASE Plain(o)
      BY <3>2 DEF Plain, ExchangeCode, NoIdToken, ResolveKey, RefetchKeys, VerifyCommit,
                DeletePurge, ZonesCached, ZonesFetched, RecordsFetched, Fail
    <3>3. CASE FlushUser(o) \/ CommitLogin(o) \/ InsertUser(o) \/ DeleteCommit(o)
      BY <3>3 DEF FlushUser, CommitLogin, InsertUser, DeleteCommit
    <3> QED BY <1>2, <3>1, <3>2, <3>3 DEF Takes
  <2>3. local[o].user # None =>
          users'[local[o].user] # None /\ users'[local[o].user].sub = users[local[o].user].sub
    BY <1>t, UsersKept DEF Found, Locals
  <2> QED BY <1>t, <2>1, <2>2, <2>3 DEF Found, Code
<1> QED BY <1>1, <1>2

\* What one operation or the outside does leaves the others where they are.
LEMMA ControlFrame ==
    ASSUME TypeOK, ControlInv, MadeInv, [Next]_vars, NEW p \in Ops,
           pc'[p] = pc[p], req'[p] = req[p], local'[p] = local[p],
           session'[p] = session[p], answer'[p] = answer[p]
    PROVE  Control(p)' /\ Found(p)'
<1>1. Control(p) /\ Found(p)
  BY DEF ControlInv
<1>2. Control(p)'
  BY <1>1 DEF Control, NonceMatches, Code
<1>3. local[p].user # None =>
          users'[local[p].user] # None /\ users'[local[p].user].sub = users[local[p].user].sub
  BY <1>1, UsersKept, TypeParts DEF Found, Locals
<1> QED BY <1>1, <1>2, <1>3 DEF Found, Code

LEMMA ControlStep == TypeOK /\ ControlInv /\ MadeInv /\ [Next]_vars => ControlInv'
<1> SUFFICES ASSUME TypeOK, ControlInv, MadeInv, [Next]_vars, NEW p \in Ops
             PROVE  Control(p)' /\ Found(p)'
  BY DEF ControlInv
<1>1. CASE Outside
  BY <1>1, OutsideStep, ControlFrame
<1>2. ASSUME NEW o \in Ops, Takes(o) PROVE Control(p)' /\ Found(p)'
  <2>1. CASE p = o
    BY <1>2, <2>1, ControlOwn, FoundOwn
  <2>2. CASE p # o
    BY <1>2, <2>2, OwnStep, ControlFrame DEF Own
  <2> QED BY <2>1, <2>2
<1>3. CASE UNCHANGED vars
  BY <1>3, ControlFrame DEF vars
<1> QED BY <1>1, <1>2, <1>3, NextKinds

LEMMA MadeStep == TypeOK /\ ControlInv /\ MadeInv /\ OwnerInv /\ [Next]_vars => MadeInv'
<1> SUFFICES ASSUME TypeOK, ControlInv, MadeInv, OwnerInv, [Next]_vars,
                    NEW o \in Ops, pc'[o] # "done"
             PROVE  users'[o] = None /\ creds'[o] = None /\ \A p \in Ops : local'[p].cred # o
  BY DEF MadeInv
<1> USE TypeParts
<1>1. pc[o] # "done"
  BY NextKinds, OutsideStep, OwnStep DEF vars, Own
<1>2. users[o] = None /\ creds[o] = None /\ \A p \in Ops : local[p].cred # o
  BY <1>1 DEF MadeInv
<1>3. users'[o] = None /\ creds'[o] = None
  BY <1>1, <1>2, UsersKept, CredsKept
<1>4. ASSUME NEW p \in Ops, local'[p].cred # local[p].cred
      PROVE  local'[p].cred = None \/ creds[local'[p].cred] # None
  <2>1. ASSUME NEW q \in Ops, Takes(q) PROVE p = q
    BY <1>4, <2>1, OwnStep DEF Own
  <2>2. Takes(p)
    BY <1>4, <2>1, NextKinds, OutsideStep DEF vars
  <2>t. local[p] \in Locals
    OBVIOUS
  <2>3. CASE Starts(p)
    <3>1. PICK c \in Calls : FindOwned(p, c)
      BY <1>4, <2>3 DEF Starts, ConsumeState, Register, Login, CreateCredential
    <3> QED BY <2>t, <3>1 DEF FindOwned, Owned, Locals
  <2>4. CASE FlushUser(p)
    <3> DEFINE k == IF CredentialOf(UserId(p)) = {} THEN None
                    ELSE CHOOSE i \in CredentialOf(UserId(p)) : TRUE
    <3>1. local' = local \/ local' = [local EXCEPT ![p].cred = k]
      BY <2>4 DEF FlushUser
    <3>2. k = None \/ creds[k] # None
      BY DEF CredentialOf
    <3> HIDE DEF k
    <3> QED BY <1>4, <2>t, <3>1, <3>2 DEF Locals
  <2>5. CASE ExchangeCode(p) \/ SelectUser(p)
    <3>1. CASE ExchangeCode(p)
      BY <1>4, <3>1, ExchangeStep
    <3>2. CASE SelectUser(p)
      <4>1. \E i, e : local' = [local EXCEPT ![p] = [@ EXCEPT !.user = i, !.email = e]]
        BY <3>2 DEF SelectUser
      <4> QED BY <1>4, <2>t, <4>1 DEF Locals
    <3> QED BY <2>5, <3>1, <3>2
  <2>6. CASE (Plain(p) /\ ~ExchangeCode(p)) \/ CommitLogin(p) \/ InsertUser(p) \/ DeleteCommit(p)
    BY <1>4, <2>6 DEF Plain, NoIdToken, ResolveKey, RefetchKeys, VerifyCommit,
         DeletePurge, ZonesCached, ZonesFetched, RecordsFetched, Fail, CommitLogin,
         InsertUser, DeleteCommit
  <2> QED BY <2>2, <2>3, <2>4, <2>5, <2>6 DEF Takes
<1>5. None # o
  BY NoneAssumption
<1> QED BY <1>2, <1>3, <1>4, <1>5

(***************************************************************************)
(* Unique keys.                                                            *)
(***************************************************************************)
LEMMA SameKeySymmetric == \A r, s : SameKey(r, s) => SameKey(s, r)
  BY DEF SameKey

\* What an operation is about to write depends on little.
LEMMA RowFrame ==
    ASSUME NEW p \in Ops, req'[p] = req[p], req[p].kind = "callback",
           local'[p].user = local[p].user,
           local'[p].email = local[p].email,
           local[p].user # None => users'[local[p].user] = users[local[p].user]
    PROVE  UserId(p)' = UserId(p) /\ UserRow(p)' = UserRow(p) /\ (WritesUser(p)' <=> WritesUser(p))
<1>c. UserId(p)' = UserId(p) /\ Code(p)' = Code(p)
  BY DEF UserId, Code
<1>1. UserId(p)' = UserId(p) /\ (WritesUser(p)' <=> WritesUser(p)) /\ Code(p)' = Code(p)
  BY <1>c DEF WritesUser
<1>2. CASE local[p].user = None
  BY <1>1, <1>2 DEF UserRow
<1>3. CASE local[p].user # None
  BY <1>1, <1>3 DEF UserRow
<1> QED BY <1>1, <1>2, <1>3

\* A callback that is about to commit has just flushed the user or was there before.
LEMMA CommitBefore ==
    ASSUME TypeOK, ControlInv, [Next]_vars, NEW p \in Ops, pc'[p] = "commit"
    PROVE  /\ req'[p] = req[p] /\ req[p].kind = "callback"
           /\ local'[p].user = local[p].user /\ local'[p].email = local[p].email
           /\ FlushUser(p) \/ (pc[p] = "commit" /\ local'[p] = local[p])
<1> USE TypeParts
<1>0. pc'[p] = "commit" /\ local[p] \in Locals
  OBVIOUS
<1>1. ASSUME NEW o \in Ops, Takes(o), p = o
      PROVE  FlushUser(p)
  <2>1. ~Starts(p)
    BY <1>0, PlaceStep DEF Starts, ConsumeState, Register, Login, CreateCredential, FindOwned, Named
  <2>2. ~Plain(p)
    <3>1. ~ExchangeCode(p)
      BY <1>0, PlaceStep, ExchangeStep
    <3>2. ~(ResolveKey(p) \/ RefetchKeys(p))
      BY <1>0, PlaceStep, ResolveStep
    <3> QED BY <1>0, <3>1, <3>2, PlaceStep DEF Plain, NoIdToken, VerifyCommit,
         DeletePurge, ZonesCached, ZonesFetched, RecordsFetched, Fail
  <2>3. ~SelectUser(p) /\ ~CommitLogin(p) /\ ~InsertUser(p) /\ ~DeleteCommit(p)
    BY <1>0, PlaceStep DEF SelectUser, CommitLogin, InsertUser, DeleteCommit
  <2> QED BY <1>1, <2>1, <2>2, <2>3 DEF Takes
<1>2. ASSUME FlushUser(p)
      PROVE  /\ req'[p] = req[p]
             /\ local'[p].user = local[p].user /\ local'[p].email = local[p].email
  <2>1. \E k : local' = local \/ local' = [local EXCEPT ![p].cred = k]
    BY <1>2 DEF FlushUser
  <2> QED BY <1>0, <1>2, <2>1 DEF FlushUser, Locals
<1>3. ASSUME NEW o \in Ops, Takes(o), p # o
      PROVE  req'[p] = req[p] /\ local'[p] = local[p] /\ pc[p] = "commit"
  BY <1>0, <1>3, OwnStep DEF Own
<1>4. ASSUME Outside \/ UNCHANGED vars
      PROVE  req'[p] = req[p] /\ local'[p] = local[p] /\ pc[p] = "commit"
  BY <1>0, <1>4, OutsideStep DEF vars
<1>5. FlushUser(p) \/ (pc[p] = "commit" /\ local'[p] = local[p])
  BY <1>1, <1>3, <1>4, NextKinds
<1>6. req[p].kind = "callback"
  BY <1>5 DEF FlushUser, ControlInv, Control, InCallback
<1> QED BY <1>1, <1>2, <1>3, <1>4, <1>5, <1>6, NextKinds

\* Only one operation takes a step.
LEMMA OneAtATime ==
    ASSUME TypeOK, NEW o \in Ops, NEW p \in Ops, Takes(o), Takes(p), pc'[o] # pc[o]
    PROVE  o = p
  BY OwnStep DEF Own

LEMMA StagedStep ==
    TypeOK /\ ControlInv /\ MadeInv /\ StagedInv /\ [Next]_vars => StagedInv'
<1> SUFFICES ASSUME TypeOK, ControlInv, MadeInv, StagedInv, [Next]_vars PROVE StagedInv'
  OBVIOUS
<1> USE TypeParts
<1>1. CASE users' = users
  <2>1. ASSUME NEW p \in Ops, Stages(p)'
        PROVE  /\ UserId(p)' = UserId(p) /\ UserRow(p)' = UserRow(p) /\ WritesUser(p)
               /\ ~Clashes(p) /\ (Stages(p) \/ (FlushUser(p) /\ ~Waits(p)))
    <3>1. UserId(p)' = UserId(p) /\ UserRow(p)' = UserRow(p) /\ (WritesUser(p)' <=> WritesUser(p))
      BY <1>1, <2>1, CommitBefore, RowFrame DEF Stages
    <3>2. WritesUser(p) /\ (Stages(p) \/ FlushUser(p))
      BY <2>1, <3>1, CommitBefore DEF Stages
    <3>3. FlushUser(p) => ~Waits(p) /\ ~Clashes(p)
      BY <2>1, <3>2, PlaceStep DEF FlushUser, Stages
    <3>4. Stages(p) => ~Clashes(p)
      BY DEF StagedInv
    <3> QED BY <3>1, <3>2, <3>3, <3>4
  <2>2. ASSUME NEW p \in Ops, Stages(p)' PROVE ~Clashes(p)'
    BY <1>1, <2>1, <2>2 DEF Clashes
  <2>3. ASSUME NEW p \in Ops, NEW q \in Ops \ {p}, Stages(p)', Stages(q)'
        PROVE  Apart(p, q)'
    <3>1. CASE Stages(p) /\ Stages(q)
      <4>1. Apart(p, q)
        BY <3>1 DEF StagedInv
      <4> QED BY <2>1, <2>3, <4>1 DEF Apart
    <3>2. CASE Stages(p) /\ FlushUser(q) /\ ~Waits(q)
      <4>1. UserId(p) # UserId(q) /\ ~SameKey(UserRow(p), UserRow(q))
        BY <3>2 DEF Waits, Stages
      <4> QED BY <2>1, <2>3, <4>1, SameKeySymmetric DEF Apart
    <3>3. CASE Stages(q) /\ FlushUser(p) /\ ~Waits(p)
      <4>1. UserId(p) # UserId(q) /\ ~SameKey(UserRow(q), UserRow(p))
        BY <3>3 DEF Waits, Stages
      <4> QED BY <2>1, <2>3, <4>1 DEF Apart
    <3>4. CASE FlushUser(p) /\ FlushUser(q)
      <4>1. Takes(p) /\ Takes(q) /\ pc[p] = "flush" /\ pc'[p] = "commit"
        BY <2>3, <3>4 DEF Takes, FlushUser, Stages
      <4> QED BY <4>1, OneAtATime
    <3> QED BY <2>1, <2>3, <3>1, <3>2, <3>3, <3>4
  <2> QED BY <2>2, <2>3 DEF StagedInv
<1>2. CASE users' # users
  <2>1. PICK o \in Ops :
               /\ \/ CommitLogin(o) /\ Stages(o) /\ req[o].kind = "callback"
                  \/ InsertUser(o) /\ ~Waits(o) /\ ~Clashes(o) /\ req[o].kind = "register"
               /\ users' = [users EXCEPT ![UserId(o)] = UserRow(o)]
               /\ pc'[o] = "done"
    BY <1>2, UsersWritten
  <2>2. Takes(o) /\ pc[o] \in {"commit", "insert"} /\ UserId(o) \in Ids
    BY <2>1, RowType DEF Takes, CommitLogin, InsertUser
  <2>3. ASSUME NEW p \in Ops, Stages(p)'
        PROVE  /\ p # o /\ pc[p] = "commit"
               /\ req'[p] = req[p] /\ local'[p] = local[p]
    BY <2>1, <2>2, <2>3, OwnStep DEF Own, Stages
  <2>4. ASSUME NEW p \in Ops, Stages(p)'
        PROVE  /\ UserId(p) # UserId(o) /\ ~SameKey(UserRow(o), UserRow(p))
               /\ Stages(p) /\ UserId(p)' = UserId(p) /\ UserRow(p)' = UserRow(p)
    <3>1. WritesUser(p) /\ UserId(p)' = UserId(p)
      BY <2>3, <2>4 DEF Stages, WritesUser, UserId, Code
    <3>2. Stages(p)
      BY <2>3, <2>4, <3>1 DEF Stages
    <3>3. UserId(p) # UserId(o) /\ ~SameKey(UserRow(o), UserRow(p))
      <4>1. CASE Stages(o)
        <5>1. Apart(p, o)
          BY <2>3, <2>4, <3>2, <4>1 DEF StagedInv
        <5> QED BY <5>1 DEF Apart
      <4>2. CASE ~Waits(o)
        <5>1. UserId(p) # UserId(o) /\ ~SameKey(UserRow(p), UserRow(o))
          BY <2>3, <2>4, <3>2, <4>2 DEF Waits, Stages
        <5> QED BY <5>1, SameKeySymmetric
      <4> QED BY <2>1, <4>1, <4>2
    <3>4. local[p].user # None => UserId(p) = local[p].user /\ local[p].user \in Ids
      BY DEF UserId, Locals
    <3>5. local[p].user # None => users'[local[p].user] = users[local[p].user]
      BY <2>1, <2>2, <3>3, <3>4
    <3>6. UserRow(p)' = UserRow(p)
      BY <2>3, <2>4, <3>5, CommitBefore, RowFrame DEF Stages
    <3> QED BY <3>1, <3>2, <3>3, <3>6
  <2>5. ASSUME NEW p \in Ops, Stages(p)' PROVE ~Clashes(p)'
    <3>1. ~Clashes(p)
      BY <2>4, <2>5 DEF StagedInv
    <3>2. ASSUME NEW i \in Ids \ {UserId(p)}, users'[i] # None, SameKey(users'[i], UserRow(p))
          PROVE  FALSE
      <4>1. CASE i = UserId(o)
        BY <2>1, <2>2, <2>4, <2>5, <3>2, <4>1
      <4>2. CASE i # UserId(o)
        BY <2>1, <2>2, <3>1, <3>2, <4>2 DEF Clashes
      <4> QED BY <4>1, <4>2
    <3> QED BY <2>4, <2>5, <3>2 DEF Clashes
  <2>6. ASSUME NEW p \in Ops, NEW q \in Ops \ {p}, Stages(p)', Stages(q)'
        PROVE  Apart(p, q)'
    <3>1. Apart(p, q)
      BY <2>4, <2>6 DEF StagedInv
    <3> QED BY <2>4, <2>6, <3>1 DEF Apart
  <2> QED BY <2>5, <2>6 DEF StagedInv
<1> QED BY <1>1, <1>2

LEMMA OneAccountStep ==
    TypeOK /\ ControlInv /\ StagedInv /\ OneAccountPerPerson /\ [Next]_vars => OneAccountPerPerson'
<1> SUFFICES ASSUME TypeOK, ControlInv, StagedInv, OneAccountPerPerson, [Next]_vars
             PROVE  OneAccountPerPerson'
  OBVIOUS
<1>1. CASE users' = users
  BY <1>1 DEF OneAccountPerPerson
<1>2. CASE users' # users
  <2>1. PICK o \in Ops :
               /\ \/ CommitLogin(o) /\ Stages(o) /\ req[o].kind = "callback"
                  \/ InsertUser(o) /\ ~Waits(o) /\ ~Clashes(o) /\ req[o].kind = "register"
               /\ users' = [users EXCEPT ![UserId(o)] = UserRow(o)]
               /\ pc'[o] = "done"
    BY <1>2, UsersWritten
  <2>2. UserId(o) \in Ids /\ ~Clashes(o)
    BY <2>1, RowType DEF CommitLogin, InsertUser, StagedInv
  <2>3. \A i \in Ids \ {UserId(o)} : users[i] # None => ~SameKey(users[i], UserRow(o))
    BY <2>2 DEF Clashes
  <2>4. users'[UserId(o)] = UserRow(o) /\ \A i \in Ids \ {UserId(o)} : users'[i] = users[i]
    BY <2>1, <2>2, TypeParts
  <2> QED BY <2>2, <2>3, <2>4 DEF OneAccountPerPerson, SameKey
<1> QED BY <1>1, <1>2

(***************************************************************************)
(* Credentials and sessions.                                               *)
(***************************************************************************)
\* What the commit of a login writes, and that there is no session without it.
LEMMA CommitRows ==
    ASSUME TypeOK, ControlInv, NEW o \in Ops, CommitLogin(o)
    PROVE  \/ UNCHANGED <<users, creds, session>>
           \/ /\ users'[UserId(o)] # None /\ users'[UserId(o)].sub = Code(o).sub
              /\ session' = session \/ session' = [session EXCEPT ![o] = UserId(o)]
              /\ \E k \in Ids :
                    /\ creds'[k] \in Credentials
                    /\ creds'[k].consent = Code(o).sub
                    /\ \A i \in Ids \ {k} : creds'[i] = creds[i]
                    /\ local[o].cred = None => k = o /\ creds'[k].user = UserId(o)
                    /\ local[o].cred # None =>
                          /\ k = local[o].cred /\ creds[k] # None
                          /\ creds'[k].user = creds[k].user
<1> USE TypeParts
<1> DEFINE u == UserId(o)
           k == IF local[o].cred = None THEN o ELSE local[o].cred
           row == [user |-> u, label |-> OAuthLabel, type |-> "oauth", consent |-> Code(o).sub]
           new == IF local[o].cred = None THEN row ELSE [creds[k] EXCEPT !.consent = Code(o).sub]
<1>1. CASE ~UNCHANGED <<users, creds, session>>
  <2>1. /\ creds' = [creds EXCEPT ![k] = new]
        /\ users' = IF WritesUser(o) THEN [users EXCEPT ![u] = UserRow(o)] ELSE users
        /\ local[o].cred # None => creds[k] # None
        /\ session' = session \/ session' = [session EXCEPT ![o] = u]
    BY <1>1 DEF CommitLogin, CreateJwt
  <2>2. pc[o] = "commit" /\ req[o].kind = "callback" /\ req[o] \in Calls
    BY DEF CommitLogin, ControlInv, Control, InCallback
  <2>3. k \in Ids /\ Code(o).sub \in Subs
    BY <2>2, CallFields DEF Locals, Code
  <2>4. u \in Ids /\ UserRow(o) \in Users /\ UserRow(o) # None
    BY <2>2, RowType, NoneAssumption
  <2>5. users'[u] # None /\ users'[u].sub = Code(o).sub
    <3>1. CASE WritesUser(o) /\ local[o].user = None
      <4>1. UserRow(o).sub = Code(o).sub
        BY <2>2, <3>1, RowType
      <4> QED BY <2>1, <2>4, <3>1, <4>1
    <3>2. CASE WritesUser(o) /\ local[o].user # None
      <4>1. UserRow(o).sub = users[local[o].user].sub
        BY <2>2, <3>2, RowType
      <4>2. users[local[o].user].sub = Code(o).sub
        BY <3>2 DEF ControlInv, Found
      <4> QED BY <2>1, <2>4, <3>2, <4>1, <4>2
    <3>3. CASE ~WritesUser(o)
      <4>1. local[o].user # None /\ u = local[o].user
        BY <3>3 DEF WritesUser, UserId
      <4> QED BY <2>1, <3>3, <4>1 DEF ControlInv, Found
    <3> QED BY <3>1, <3>2, <3>3
  <2>6. /\ new \in Credentials /\ new.consent = Code(o).sub
        /\ local[o].cred = None => new.user = u
        /\ local[o].cred # None => new.user = creds[k].user
    <3>1. CASE local[o].cred = None
      BY <2>3, <2>4, <3>1, AccountsAssumption DEF Credentials
    <3>2. CASE local[o].cred # None
      <4>1. creds[k] \in Credentials
        BY <2>1, <2>3, <3>2
      <4> QED BY <2>3, <3>2, <4>1 DEF Credentials
    <3> QED BY <3>1, <3>2
  <2>7. creds'[k] = new /\ \A i \in Ids \ {k} : creds'[i] = creds[i]
    BY <2>1, <2>3
  <2>8. (local[o].cred = None => k = o) /\ (local[o].cred # None => k = local[o].cred)
    OBVIOUS
  <2> HIDE DEF k, new, row
  <2> QED BY <2>1, <2>3, <2>5, <2>6, <2>7, <2>8
<1> QED BY <1>1

LEMMA OwnerStep == TypeOK /\ ControlInv /\ MadeInv /\ OwnerInv /\ [Next]_vars => OwnerInv'
<1> SUFFICES ASSUME TypeOK, ControlInv, MadeInv, OwnerInv, [Next]_vars PROVE OwnerInv'
  OBVIOUS
<1> USE TypeParts
<1>1. ASSUME NEW i \in Ids, creds'[i] # None PROVE users'[creds'[i].user] # None
  <2>1. CASE creds[i] = None
    BY <1>1, <2>1, CredsKept
  <2>2. CASE creds[i] # None
    <3>1. creds[i].user \in Ids /\ users[creds[i].user] # None
      BY <2>2 DEF Credentials, OwnerInv
    <3> QED BY <1>1, <2>2, <3>1, CredsKept, UsersKept
  <2> QED BY <2>1, <2>2
<1>2. ASSUME NEW o \in Ops, pc'[o] = "commit", local'[o].cred # None
      PROVE  /\ local'[o].user # None
             /\ creds'[local'[o].cred] # None => creds'[local'[o].cred].user = local'[o].user
  <2>1. local'[o].user = local[o].user
    BY <1>2, CommitBefore
  <2>2. CASE FlushUser(o)
    <3> DEFINE k == CHOOSE i \in CredentialOf(UserId(o)) : TRUE
    <3>1. local'[o].cred = k /\ CredentialOf(UserId(o)) # {}
      <4>1. pc[o] = "flush" /\ ~(WritesUser(o) /\ Clashes(o))
        BY <1>2, <2>2, PlaceStep DEF FlushUser
      <4>2. local' = [local EXCEPT ![o].cred =
                        IF CredentialOf(UserId(o)) = {} THEN None ELSE k]
        BY <2>2, <4>1 DEF FlushUser
      <4>3. local[o] \in Locals
        OBVIOUS
      <4> HIDE DEF k
      <4>4. local'[o].cred = IF CredentialOf(UserId(o)) = {} THEN None ELSE k
        BY <4>2, <4>3 DEF Locals
      <4> QED BY <1>2, <4>4
    <3>2. k \in Ids /\ creds[k] # None /\ creds[k].user = UserId(o)
      BY <3>1 DEF CredentialOf
    <3>3. local[o].user # None
      <4>1. SUFFICES ASSUME local[o].user = None PROVE FALSE
        OBVIOUS
      <4>2. UserId(o) = o /\ users[o] = None
        BY <2>2, <4>1 DEF FlushUser, UserId, MadeInv
      <4> QED BY <3>2, <4>2 DEF OwnerInv
    <3>4. creds' = creds /\ UserId(o) = local[o].user
      BY <2>2, <3>3 DEF FlushUser, store, UserId
    <3> QED BY <2>1, <3>1, <3>2, <3>3, <3>4
  <2>3. CASE pc[o] = "commit" /\ local'[o] = local[o]
    <3>1. /\ local[o].user # None /\ local[o].cred \in Ids
          /\ creds[local[o].cred] # None => creds[local[o].cred].user = local[o].user
      BY <1>2, <2>3 DEF OwnerInv, Locals
    <3>2. creds[local[o].cred] = None => creds'[local[o].cred] = None
      BY <3>1, CredsKept DEF MadeInv
    <3> QED BY <2>3, <3>1, <3>2, CredsKept
  <2> QED BY <1>2, <2>2, <2>3, CommitBefore
<1> QED BY <1>1, <1>2 DEF OwnerInv

LEMMA ConsentStep ==
    TypeOK /\ ControlInv /\ MadeInv /\ OwnerInv /\ ConsentStaysWithUser /\ [Next]_vars
        => ConsentStaysWithUser'
<1> SUFFICES ASSUME TypeOK, ControlInv, MadeInv, OwnerInv, ConsentStaysWithUser, [Next]_vars,
                    NEW i \in Ids, creds'[i] # None, creds'[i].consent # None
             PROVE  users'[creds'[i].user].sub = creds'[i].consent
  BY DEF ConsentStaysWithUser
<1> USE TypeParts
<1>1. CASE creds'[i] = creds[i]
  <2>1. creds[i].user \in Ids /\ users[creds[i].user] # None
    BY <1>1 DEF Credentials, OwnerInv
  <2> QED BY <1>1, <2>1, UsersKept DEF ConsentStaysWithUser
<1>2. CASE creds'[i] # creds[i]
  <2>1. ASSUME NEW o \in Ops, NEW c \in Calls, CreateCredential(o, c) PROVE FALSE
    BY <1>2, <2>1 DEF CreateCredential
  <2>2. ASSUME NEW o \in Ops, InsertUser(o) \/ DeleteCommit(o) PROVE FALSE
    BY <1>2, <2>2 DEF InsertUser, DeleteCommit
  <2>3. PICK o \in Ops : CommitLogin(o)
    BY <1>2, <2>1, <2>2, NoRowsWritten
  <2>4. PICK k \in Ids :
          /\ users'[UserId(o)].sub = Code(o).sub
          /\ creds'[k].consent = Code(o).sub
          /\ \A j \in Ids \ {k} : creds'[j] = creds[j]
          /\ local[o].cred = None => k = o /\ creds'[k].user = UserId(o)
          /\ local[o].cred # None =>
                /\ k = local[o].cred /\ creds[k] # None
                /\ creds'[k].user = creds[k].user
    BY <1>2, <2>3, CommitRows
  <2>5. k = i
    BY <1>2, <2>4
  <2>6. creds'[k].user = UserId(o)
    <3>1. CASE local[o].cred # None
      <4>1. pc[o] = "commit"
        BY <2>3 DEF CommitLogin
      <4>2. local[o].user # None /\ creds[k].user = local[o].user
        BY <2>4, <3>1, <4>1 DEF OwnerInv
      <4> QED BY <2>4, <3>1, <4>2 DEF UserId
    <3> QED BY <2>4, <3>1
  <2> QED BY <2>4, <2>5, <2>6
<1> QED BY <1>1, <1>2

LEMMA AllOrNothingStep ==
    TypeOK /\ ControlInv /\ MadeInv /\ OwnerInv /\ LoginIsAllOrNothing /\ [Next]_vars
        => LoginIsAllOrNothing'
<1> SUFFICES ASSUME TypeOK, ControlInv, MadeInv, OwnerInv, LoginIsAllOrNothing, [Next]_vars,
                    NEW o \in Ops, users'[o] # None, users'[o].sub # None
             PROVE  creds'[o] # None \/ o \in deleted'
  BY DEF LoginIsAllOrNothing
<1> USE TypeParts
<1>1. CASE users[o] # None
  <2>1. creds[o] # None \/ o \in deleted
    BY <1>1, UsersKept DEF LoginIsAllOrNothing
  <2> QED BY <2>1, CredsKept
<1>2. CASE users[o] = None
  <2>1. PICK q \in Ops :
               /\ \/ CommitLogin(q) /\ Stages(q) /\ req[q].kind = "callback"
                  \/ InsertUser(q) /\ ~Waits(q) /\ ~Clashes(q) /\ req[q].kind = "register"
               /\ users' = [users EXCEPT ![UserId(q)] = UserRow(q)]
               /\ pc'[q] = "done"
    BY <1>2, UsersWritten
  <2>2. pc[q] \in {"commit", "insert"} /\ UserId(q) = o
    BY <1>2, <2>1 DEF CommitLogin, InsertUser
  <2>3. local[q].user = None /\ q = o
    BY <1>2, <2>2 DEF UserId, ControlInv, Found
  <2>4. CommitLogin(o)
    <3>1. CASE InsertUser(o) /\ req[o].kind = "register"
      <4>1. UserRow(o).sub = None /\ users'[o] = UserRow(o)
        BY <2>1, <2>2, <2>3, <3>1, RowType
      <4> QED BY <4>1
    <3> QED BY <2>1, <2>3, <3>1
  <2>5. local[o].cred = None
    BY <2>3, <2>4 DEF CommitLogin, OwnerInv
  <2>6. creds'[o] \in Credentials
    BY <1>2, <2>4, <2>5, CommitRows
  <2> QED BY <2>6, NoneAssumption
<1> QED BY <1>1, <1>2

\* An operation takes a step of its own or stays as it is.
LEMMA Moves ==
    ASSUME TypeOK, [Next]_vars, NEW p \in Ops
    PROVE  \/ Takes(p) /\ pc[p] # "done"
           \/ /\ pc'[p] = pc[p] /\ req'[p] = req[p] /\ local'[p] = local[p]
              /\ session'[p] = session[p] /\ answer'[p] = answer[p]
<1>1. ASSUME NEW o \in Ops, Takes(o), o # p
      PROVE  /\ pc'[p] = pc[p] /\ req'[p] = req[p] /\ local'[p] = local[p]
             /\ session'[p] = session[p] /\ answer'[p] = answer[p]
  BY <1>1, OwnStep DEF Own
<1>2. Takes(p) => pc[p] # "done"
  BY OwnStep
<1>3. CASE UNCHANGED vars
  BY <1>3 DEF vars
<1> QED BY <1>1, <1>2, <1>3, NextKinds, OutsideStep

\* Where an operation is follows from its call.
LEMMA CallPlaces ==
    ASSUME TypeOK, ControlInv, NEW p \in Ops, pc[p] \notin {"idle", "done"}
    PROVE  /\ req[p].kind = "callback" => pc[p] \in InCallback
           /\ req[p].kind \in Named => pc[p] \in InNamed
<1>1. pc[p] \in InCallback \cup InNamed \cup {"insert"}
  BY TypeParts DEF Places, InCallback, InNamed
<1> QED BY <1>1 DEF ControlInv, Control, Named

\* A call is kept once it has come in, and sessions are made by two actions.
LEMMA Goes ==
    ASSUME TypeOK, ControlInv, NEW p \in Ops, Takes(p)
    PROVE  /\ Starts(p) => pc[p] = "idle"
           /\ ~Starts(p) => req'[p] = req[p] /\ pc[p] \notin {"idle", "done"}
           /\ session'[p] # session[p] => CommitLogin(p) \/ \E c \in Calls : Login(p, c)
<1>0. Starts(p) => pc[p] = "idle"
  BY DEF Starts, ConsumeState, Register, Login, CreateCredential, FindOwned, Begin
<1>1. CASE Starts(p)
  BY <1>1 DEF Starts, ConsumeState, Register, Login, CreateCredential, FindOwned, Begin
<1>2. CASE Plain(p)
  BY <1>0, <1>2 DEF Plain, ExchangeCode, NoIdToken, ResolveKey, RefetchKeys, VerifyCommit,
       DeletePurge, ZonesCached, ZonesFetched, RecordsFetched, Fail
<1>3. CASE SelectUser(p) \/ FlushUser(p) \/ CommitLogin(p) \/ InsertUser(p) \/ DeleteCommit(p)
  BY <1>0, <1>3 DEF SelectUser, FlushUser, CommitLogin, InsertUser, DeleteCommit
<1> QED BY <1>1, <1>2, <1>3 DEF Takes

LEMMA SessionStep ==
    TypeOK /\ ControlInv /\ MadeInv /\ SessionInv /\ SessionIsOwn /\ [Next]_vars
        => SessionInv' /\ SessionIsOwn'
<1> SUFFICES ASSUME TypeOK, ControlInv, MadeInv, SessionInv, SessionIsOwn, [Next]_vars,
                    NEW p \in Ops, session'[p] # None
             PROVE  /\ users'[session'[p]] # None
                    /\ \/ req'[p].kind = "callback" /\ users'[session'[p]].sub = Code(p)'.sub
                       \/ req'[p].kind = "login" /\ users'[session'[p]].pw = req'[p].pw
  BY DEF SessionInv, SessionIsOwn
<1> USE TypeParts
<1>1. CASE session[p] # None
  <2>1. pc[p] = "done"
    BY <1>1 DEF ControlInv, Control
  <2>2. session'[p] = session[p] /\ req'[p] = req[p]
    BY <2>1, Moves
  <2>3. session[p] \in Ids /\ users[session[p]] # None
    BY <1>1 DEF SessionInv
  <2>4. /\ users'[session[p]] # None /\ users'[session[p]].sub = users[session[p]].sub
        /\ users'[session[p]].pw = users[session[p]].pw
    BY <2>3, UsersKept
  <2> QED BY <1>1, <2>2, <2>4 DEF SessionIsOwn, Code
<1>2. CASE session[p] = None
  <2>1. CASE CommitLogin(p)
    <3>1. /\ users'[UserId(p)] # None /\ users'[UserId(p)].sub = Code(p).sub
          /\ session' = [session EXCEPT ![p] = UserId(p)]
      BY <1>2, <2>1, CommitRows
    <3>2. req' = req /\ req[p].kind = "callback"
      BY <2>1 DEF CommitLogin, ControlInv, Control, InCallback
    <3> QED BY <3>1, <3>2 DEF Code
  <2>2. ASSUME NEW c \in Calls, Login(p, c)
        PROVE  /\ users'[session'[p]] # None
               /\ req'[p].kind = "login" /\ users'[session'[p]].pw = req'[p].pw
    <3>1. users' = users /\ req'[p] = c /\ c.kind = "login"
      BY <2>2 DEF Login, Begin, store
    <3>2. PICK i \in Ids : /\ users[i] # None /\ users[i].pw = c.pw
                           /\ session' = [session EXCEPT ![p] = i]
      BY <1>2, <2>2 DEF Login, CreateJwt
    <3> QED BY <3>1, <3>2
  <2> QED BY <1>2, <2>1, <2>2, Moves, Goes
<1> QED BY <1>1, <1>2

(***************************************************************************)
(* The state of a login is consumed once.                                  *)
(***************************************************************************)
\* A consumed state stays consumed.
LEMMA GoneStays ==
    ASSUME TypeOK, [Next]_vars, NEW f \in Flows, flows[f] = "gone"
    PROVE  flows'[f] = "gone"
<1> USE TypeParts
<1>1. ASSUME NEW o \in Ops, NEW c \in Calls, ConsumeState(o, c) PROVE flows'[f] = "gone"
  BY <1>1 DEF ConsumeState
<1>2. ASSUME NEW o \in Ops, Takes(o), \A c \in Calls : ~ConsumeState(o, c) PROVE flows' = flows
  <2>1. CASE Starts(o)
    BY <1>2, <2>1 DEF Starts, Register, Login, CreateCredential, FindOwned
  <2>2. CASE Plain(o)
    BY <2>2 DEF Plain, ExchangeCode, NoIdToken, ResolveKey, RefetchKeys, VerifyCommit,
         DeletePurge, ZonesCached, ZonesFetched, RecordsFetched, Fail
  <2>3. CASE SelectUser(o) \/ FlushUser(o) \/ CommitLogin(o) \/ InsertUser(o) \/ DeleteCommit(o)
    BY <2>3 DEF SelectUser, FlushUser, CommitLogin, InsertUser, DeleteCommit
  <2> QED BY <1>2, <2>1, <2>2, <2>3 DEF Takes
<1>3. CASE UNCHANGED vars
  BY <1>3 DEF vars
<1> QED BY <1>1, <1>2, <1>3, NextKinds, OutsideStep

\* A callback that has passed _consume_oauth_state has just done so, or had before.
LEMMA PassedBefore ==
    ASSUME TypeOK, ControlInv, [Next]_vars, NEW p \in Ops, Passed(p)'
    PROVE  /\ req'[p] \in Calls /\ req'[p].kind = "callback"
           /\ \/ Passed(p) /\ req'[p] = req[p]
              \/ /\ flows[req'[p].state] = "stored" /\ session'[p] = None
                 /\ flows' = [flows EXCEPT ![req'[p].state] = "gone"]
                 /\ Takes(p) /\ pc'[p] # pc[p]
<1> USE TypeParts
<1>0. req'[p] # None /\ req'[p].kind = "callback"
      /\ (pc'[p] \in InCallback \/ session'[p] # None)
  BY DEF Passed
<1>c. req'[p] \in Calls
  <2>1. CASE Takes(p) /\ Starts(p)
    BY <2>1 DEF Starts, ConsumeState, Register, Login, CreateCredential, FindOwned, Begin
  <2>2. CASE Takes(p) /\ ~Starts(p)
    BY <1>0, <2>2, Goes
  <2>3. CASE req'[p] = req[p]
    BY <1>0, <2>3
  <2> QED BY <2>1, <2>2, <2>3, Moves
<1>1. CASE Takes(p) /\ Starts(p)
  <2>1. PICK c \in Calls : \/ ConsumeState(p, c) \/ Register(p, c) \/ Login(p, c)
                           \/ CreateCredential(p, c) \/ FindOwned(p, c)
    BY <1>1 DEF Starts
  <2>2. pc[p] = "idle" /\ req'[p] = c
    BY <2>1 DEF ConsumeState, Register, Login, CreateCredential, FindOwned, Begin
  <2>3. ConsumeState(p, c)
    BY <1>0, <2>1, <2>2 DEF Register, Login, CreateCredential, FindOwned, Begin, Named
  <2>4. session'[p] = None /\ pc'[p] \in InCallback
    BY <1>0, <2>2, <2>3 DEF ConsumeState, ControlInv, Control
  <2>5. flows[c.state] = "stored" /\ flows' = [flows EXCEPT ![c.state] = "gone"]
    BY <2>3, <2>4, PlaceStep DEF ConsumeState, InCallback
  <2>6. pc'[p] # pc[p]
    BY <2>2, <2>4 DEF InCallback
  <2> QED BY <1>0, <1>c, <1>1, <2>2, <2>4, <2>5, <2>6
<1>2. CASE Takes(p) /\ ~Starts(p)
  <2>1. req'[p] = req[p] /\ pc[p] \notin {"idle", "done"}
    BY <1>2, Goes
  <2>2. pc[p] \in InCallback
    BY <1>0, <2>1, CallPlaces
  <2> QED BY <1>0, <1>c, <2>1, <2>2 DEF Passed
<1>3. CASE /\ pc'[p] = pc[p] /\ req'[p] = req[p] /\ session'[p] = session[p]
  BY <1>0, <1>c, <1>3 DEF Passed
<1> QED BY <1>1, <1>2, <1>3, Moves

LEMMA StateStep == TypeOK /\ ControlInv /\ StateInv /\ [Next]_vars => StateInv'
<1> SUFFICES ASSUME TypeOK, ControlInv, StateInv, [Next]_vars PROVE StateInv'
  OBVIOUS
<1> USE TypeParts
<1>1. ASSUME NEW p \in Ops, Passed(p)' PROVE flows'[req'[p].state] = "gone"
  <2>1. req'[p].state \in Flows
    BY <1>1, PassedBefore, CallFields
  <2> QED BY <1>1, <2>1, PassedBefore, GoneStays DEF StateInv
<1>2. ASSUME NEW p \in Ops, Passed(p)', session'[p] # None PROVE NonceMatches(p)'
  <2>1. Passed(p) /\ req'[p] = req[p] /\ req[p].kind = "callback"
    BY <1>2, PassedBefore
  <2>2. CASE session[p] # None
    BY <2>1, <2>2 DEF StateInv, NonceMatches, Code
  <2>3. CASE session[p] = None
    <3>1. Takes(p)
      BY <1>2, <2>3, Moves
    <3>2. CommitLogin(p) \/ \E c \in Calls : Login(p, c)
      BY <1>2, <2>3, <3>1, Goes
    <3>3. CommitLogin(p)
      BY <2>1, <3>2 DEF Login, Begin
    <3>4. NonceMatches(p)
      BY <3>3 DEF CommitLogin, ControlInv, Control
    <3> QED BY <2>1, <3>4 DEF NonceMatches, Code
  <2> QED BY <2>2, <2>3
<1>3. ASSUME NEW p \in Ops, NEW q \in Ops \ {p}, Passed(p)', Passed(q)'
      PROVE  req'[q].state # req'[p].state
  <2>1. CASE Passed(p) /\ Passed(q) /\ req'[p] = req[p] /\ req'[q] = req[q]
    BY <2>1 DEF StateInv
  <2>2. CASE Passed(p) /\ req'[p] = req[p] /\ flows[req'[q].state] = "stored"
    BY <2>2 DEF StateInv
  <2>3. CASE Passed(q) /\ req'[q] = req[q] /\ flows[req'[p].state] = "stored"
    BY <2>3 DEF StateInv
  <2>4. CASE Takes(p) /\ Takes(q) /\ pc'[p] # pc[p]
    BY <2>4, OneAtATime
  <2> QED BY <1>3, <2>1, <2>2, <2>3, <2>4, PassedBefore
<1> QED BY <1>1, <1>2, <1>3 DEF StateInv

(***************************************************************************)
(* The issuer's keys.                                                      *)
(***************************************************************************)
\* A key is remembered when the code is exchanged, and not changed after that.
LEMMA KeyOf ==
    ASSUME TypeOK, [Next]_vars, NEW p \in Ops
    PROVE  local'[p].key = local[p].key \/ (local'[p].key = SigningKey /\ ExchangeCode(p))
<1> USE TypeParts
<1>t. local[p] \in Locals
  OBVIOUS
<1>1. CASE Starts(p)
  BY <1>t, <1>1 DEF Starts, ConsumeState, Register, Login, CreateCredential, FindOwned, Locals
<1>2. CASE ExchangeCode(p)
  BY <1>2, ExchangeStep
<1>3. CASE Plain(p) /\ ~ExchangeCode(p)
  BY <1>3 DEF Plain, NoIdToken, ResolveKey, RefetchKeys, VerifyCommit,
       DeletePurge, ZonesCached, ZonesFetched, RecordsFetched, Fail
<1>4. CASE SelectUser(p)
  <2>1. \E i, e : local' = [local EXCEPT ![p] = [@ EXCEPT !.user = i, !.email = e]]
    BY <1>4 DEF SelectUser
  <2> QED BY <1>t, <2>1 DEF Locals
<1>5. CASE FlushUser(p)
  <2>1. \E k : local' = local \/ local' = [local EXCEPT ![p].cred = k]
    BY <1>5 DEF FlushUser
  <2> QED BY <1>t, <2>1 DEF Locals
<1>6. CASE CommitLogin(p) \/ InsertUser(p) \/ DeleteCommit(p)
  BY <1>6 DEF CommitLogin, InsertUser, DeleteCommit
<1> QED BY <1>1, <1>2, <1>3, <1>4, <1>5, <1>6, Moves DEF Takes

LEMMA PublishedStep ==
    ASSUME TypeOK, [Next]_vars PROVE UNCHANGED published \/ RotateKeys
  BY NextKinds, OutsideStep, OwnStep DEF vars

LEMMA KeyStep == TypeOK /\ KeyInv /\ [Next]_vars => KeyInv'
<1> SUFFICES ASSUME TypeOK, KeyInv, [Next]_vars PROVE KeyInv'
  OBVIOUS
<1>1. /\ SigningKey \in published /\ SigningKey \in 1..MaxKey
      /\ \A k \in published : k <= SigningKey
      /\ \A o \in Ops : local[o].key # None => local[o].key <= SigningKey
  BY NewestKey
<1>2. \A o \in Ops : local'[o].key # None => local'[o].key \in Int /\ local'[o].key <= SigningKey
  <2>1. \A o \in Ops : local[o].key # None => local[o].key \in Int
    BY TypeParts, AccountsAssumption DEF Locals
  <2>2. SigningKey \in Int
    BY <1>1
  <2> QED BY <1>1, <2>1, <2>2, KeyOf
<1>3. CASE UNCHANGED published
  BY <1>1, <1>2, <1>3 DEF KeyInv
<1>4. CASE RotateKeys
  <2>1. \E n \in published' : SigningKey <= n /\ n \in Int /\ \A k \in published' : k <= n
    <3>1. published \subseteq Int /\ SigningKey \in Int
      BY <1>1, TypeParts, AccountsAssumption
    <3>2. CASE published' = {SigningKey}
      BY <3>1, <3>2
    <3>3. CASE published' = {SigningKey + 1} \/ published' = published \cup {SigningKey + 1}
      <4>1. SigningKey + 1 \in published' /\ SigningKey <= SigningKey + 1
        BY <3>1, <3>3
      <4>2. ASSUME NEW k \in published' PROVE k <= SigningKey + 1
        <5>0. k \in published \/ k = SigningKey + 1
          BY <3>3
        <5>1. k = SigningKey + 1 \/ (k \in Int /\ k <= SigningKey)
          BY <1>1, <3>1, <5>0
        <5> QED BY <3>1, <5>1
      <4> QED BY <3>1, <4>1, <4>2
    <3> QED BY <1>4, <3>2, <3>3 DEF RotateKeys
  <2> QED BY <1>1, <1>2, <2>1 DEF KeyInv
<1> QED BY <1>3, <1>4, PublishedStep

\* A rotation never leads back to the first key.
LEMMA FirstKeyStep ==
    ASSUME TypeOK, KeyInv, [Next]_vars, published' = {1}
    PROVE  published = {1} /\ SigningKey = 1
<1>1. /\ SigningKey \in published /\ SigningKey \in 1..MaxKey
      /\ \A k \in published : k <= SigningKey
  BY NewestKey
<1>2. published \subseteq 1..MaxKey /\ MaxKey \in Nat
  BY TypeParts, AccountsAssumption
<1>3. CASE UNCHANGED published
  BY <1>1, <1>3
<1>4. CASE RotateKeys
  <2>1. published' # {SigningKey + 1} /\ published' # published \cup {SigningKey + 1}
    BY <1>1, <1>2
  <2>2. published # {SigningKey} /\ SigningKey = 1
    BY <1>4, <2>1 DEF RotateKeys
  <2>3. \A k \in published : k = 1
    BY <1>1, <1>2, <2>2
  <2> QED BY <1>1, <2>2, <2>3
<1> QED BY <1>3, <1>4, PublishedStep

LEMMA CopyStep == TypeOK /\ KeyInv /\ CopyInv /\ [Next]_vars => CopyInv'
<1> SUFFICES ASSUME TypeOK, KeyInv, CopyInv, [Next]_vars, published' = {1} PROVE CopyInv'
  BY DEF CopyInv
<1> USE TypeParts
<1>1. published = {1} /\ SigningKey = 1
  BY FirstKeyStep
<1>2. jwks = None \/ jwks = {1}
  BY <1>1 DEF CopyInv
<1>3. jwks' = None \/ jwks' = {1}
  <2>1. ASSUME NEW o \in Ops, Takes(o) PROVE jwks' \in {None, jwks, published}
    <3>1. CASE Starts(o)
      BY <3>1 DEF Starts, ConsumeState, Register, Login, CreateCredential, FindOwned
    <3>2. CASE ResolveKey(o) \/ RefetchKeys(o)
      BY <3>2, ResolveStep
    <3> QED BY <2>1, <3>1, <3>2 DEF Takes, Plain, ExchangeCode, NoIdToken, VerifyCommit,
              DeletePurge, ZonesCached, ZonesFetched, RecordsFetched, Fail,
              SelectUser, FlushUser, CommitLogin, InsertUser, DeleteCommit
  <2>2. CASE Outside
    BY <1>2, <2>2 DEF Outside, StartLogin, ExpireState, RotateKeys, ExpireKeys, ForgetZones
  <2>3. CASE UNCHANGED vars
    BY <1>2, <2>3 DEF vars
  <2> QED BY <1>1, <1>2, <2>1, <2>2, <2>3, NextKinds
<1>4. ASSUME NEW p \in Ops, pc'[p] \in {"key", "refetch"} PROVE local'[p].key = 1
  <2>1. CASE ExchangeCode(p)
    BY <1>1, <1>4, <2>1, ExchangeStep, PlaceStep
  <2>2. CASE Takes(p) /\ ~ExchangeCode(p)
    <3>1. ~Starts(p)
      BY <1>4, PlaceStep DEF Starts, ConsumeState, Register, Login, CreateCredential, FindOwned,
           Named
    <3>2. ResolveKey(p) \/ RefetchKeys(p)
      BY <1>4, <2>2, <3>1, PlaceStep DEF Takes, Plain, NoIdToken, VerifyCommit, DeletePurge,
           ZonesCached, ZonesFetched, RecordsFetched, Fail,
           SelectUser, FlushUser, CommitLogin, InsertUser, DeleteCommit
    <3> QED BY <1>1, <3>2, ResolveStep DEF CopyInv
  <2>3. CASE pc'[p] = pc[p] /\ local'[p] = local[p]
    BY <1>1, <1>4, <2>3 DEF CopyInv
  <2> QED BY <2>1, <2>2, <2>3, Moves
<1> QED BY <1>3, <1>4 DEF CopyInv

\* Why an id_token of the right login is refused.
Excused(o) == IF local[o].kid THEN local[o].key \notin published ELSE published # {1}

\* An id_token that names its key is compared with that key alone, and one that does
\* not with the only key there is until the issuer rotates.
LEMMA Refusal ==
    ASSUME TypeOK, CopyInv, NEW p \in Ops, ResolveKey(p) \/ RefetchKeys(p),
           answer'[p] = "invalid", answer[p] # "invalid"
    PROVE  ~NonceMatches(p) \/ Excused(p)
<1> SUFFICES ASSUME NonceMatches(p) PROVE Excused(p)
  OBVIOUS
<1> USE TypeParts
<1>v. \A k : Verify(p, k) => k # local[p].key
  BY PlaceStep DEF Verify
<1>g. ~Goto(p, "refetch")
  BY PlaceStep
<1>1. CASE local[p].kid
  <2>1. \A ks : \A k \in Matches(p, ks) : k = local[p].key
    BY <1>1 DEF Matches
  <2>2. RefetchKeys(p) /\ Matches(p, published) = {}
    BY <1>v, <1>g, <2>1 DEF ResolveKey, RefetchKeys
  <2> QED BY <1>1, <2>2 DEF Matches, Excused
<1>2. CASE ~local[p].kid /\ published = {1}
  <2>1. FetchJwks = {1} /\ Matches(p, {1}) = {1} /\ local[p].key = 1
    BY <1>2, ResolveStep DEF CopyInv, FetchJwks, Matches
  <2> QED BY <1>2, <1>v, <1>g, <2>1 DEF ResolveKey, RefetchKeys
<1> QED BY <1>1, <1>2 DEF Excused

\* What was refused for a reason stays refused for it, and nothing is refused without.
LEMMA RotationStep ==
    TypeOK /\ ControlInv /\ KeyInv /\ CopyInv /\ RotationIsTolerated /\ [Next]_vars
      => RotationIsTolerated'
<1> SUFFICES ASSUME TypeOK, ControlInv, KeyInv, CopyInv, RotationIsTolerated, [Next]_vars,
                    NEW p \in Ops, answer'[p] = "invalid", Code(p)'.flow = req'[p].state
             PROVE  Excused(p)'
  BY DEF RotationIsTolerated, Excused
<1> USE TypeParts
<1>1. CASE answer[p] = "invalid"
  <2>1. pc[p] = "done"
    BY <1>1, NoneAssumption DEF ControlInv, Control, Answers
  <2>2. req'[p] = req[p] /\ local'[p] = local[p]
    BY <2>1, Moves
  <2>3. local[p].key \notin published => local[p].key \notin published'
    <3>1. CASE UNCHANGED published
      BY <3>1
    <3>2. CASE RotateKeys
      <4>1. /\ SigningKey \in published /\ SigningKey \in 1..MaxKey
            /\ local[p].key # None => local[p].key <= SigningKey
        BY NewestKey
      <4>2. CASE local[p].key = None
        <5>1. published' \subseteq 1..MaxKey
          BY TypeStep DEF TypeOK
        <5> QED BY <4>2, <5>1, NoneAssumption
      <4>3. CASE local[p].key # None
        <5>1. local[p].key \in Int /\ SigningKey \in Int /\ local[p].key <= SigningKey
          BY <4>1, <4>3, AccountsAssumption DEF Locals
        <5>2. local[p].key # SigningKey + 1
          BY <5>1
        <5> QED BY <3>2, <4>1, <5>2 DEF RotateKeys
      <4> QED BY <4>2, <4>3
    <3> QED BY <3>1, <3>2, PublishedStep
  <2>4. published' = {1} => published = {1}
    BY FirstKeyStep
  <2>5. Excused(p)
    BY <1>1, <2>2 DEF RotationIsTolerated, Code, Excused
  <2> QED BY <2>2, <2>3, <2>4, <2>5 DEF Excused
<1>2. CASE answer[p] # "invalid"
  <2>1. Takes(p)
    BY <1>2, Moves
  <2>2. ~Starts(p)
    BY <1>2, PlaceStep DEF Starts, ConsumeState, Register, Login, CreateCredential, FindOwned
  <2>3. ~SelectUser(p) /\ ~FlushUser(p) /\ ~CommitLogin(p) /\ ~InsertUser(p) /\ ~DeleteCommit(p)
    BY <1>2, PlaceStep DEF SelectUser, FlushUser, CommitLogin, InsertUser, DeleteCommit
  <2>e. ~ExchangeCode(p)
    BY <1>2, PlaceStep, ExchangeStep
  <2>r. ResolveKey(p) \/ RefetchKeys(p)
    BY <1>2, <2>1, <2>2, <2>3, <2>e, PlaceStep DEF Takes, Plain, NoIdToken, VerifyCommit,
         DeletePurge, ZonesCached, ZonesFetched, RecordsFetched, Fail
  <2>4. UNCHANGED <<req, local, published>>
    BY <2>r, ResolveStep
  <2>5. ~NonceMatches(p) \/ Excused(p)
    BY <1>2, <2>r, Refusal
  <2> QED BY <2>4, <2>5 DEF NonceMatches, Code, Excused
<1> QED BY <1>1, <1>2

(***************************************************************************)
(* Owners.                                                                 *)
(***************************************************************************)
LEMMA ServedStep ==
    TypeOK /\ ControlInv /\ OnlyOwnersAreServed /\ [Next]_vars => OnlyOwnersAreServed'
<1> SUFFICES ASSUME TypeOK, ControlInv, OnlyOwnersAreServed, [Next]_vars, NEW p \in Ops,
                    req'[p] # None, req'[p].kind \in Named, answer'[p] = "ok"
             PROVE  local'[p].cred = req'[p].cred
  BY DEF OnlyOwnersAreServed
<1> USE TypeParts
<1>1. CASE req'[p] = req[p] /\ local'[p] = local[p] /\ answer'[p] = answer[p]
  BY <1>1 DEF OnlyOwnersAreServed
<1>2. CASE Takes(p) /\ Starts(p)
  <2>1. PICK c \in Calls : \/ ConsumeState(p, c) \/ Register(p, c) \/ Login(p, c)
                           \/ CreateCredential(p, c) \/ FindOwned(p, c)
    BY <1>2 DEF Starts
  <2>2. pc[p] = "idle" /\ req'[p] = c
    BY <2>1 DEF ConsumeState, Register, Login, CreateCredential, FindOwned, Begin
  <2>3. FindOwned(p, c)
    BY <2>1, <2>2 DEF ConsumeState, Register, Login, CreateCredential, Begin, Named
  <2>4. answer[p] = None /\ None # "ok"
    BY <2>2, NoneAssumption DEF ControlInv, Control, Answers
  <2> QED BY <2>3, <2>4, PlaceStep DEF FindOwned
<1>3. CASE Takes(p) /\ ~Starts(p)
  <2>1. req'[p] = req[p] /\ pc[p] \notin {"idle", "done"}
    BY <1>3, Goes
  <2>2. pc[p] \in InNamed
    BY <2>1, CallPlaces
  <2>3. local[p].cred = req[p].cred
    BY <2>2 DEF ControlInv, Control
  <2>4. ~ExchangeCode(p) /\ ~SelectUser(p) /\ ~FlushUser(p)
    BY <2>2 DEF InNamed, ExchangeCode, SelectUser, FlushUser
  <2>5. local' = local
    BY <1>3, <2>4 DEF Takes, Plain, NoIdToken, ResolveKey, RefetchKeys, VerifyCommit,
         DeletePurge, ZonesCached, ZonesFetched, RecordsFetched, Fail, CommitLogin,
         InsertUser, DeleteCommit
  <2> QED BY <2>1, <2>3, <2>5
<1> QED BY <1>1, <1>2, <1>3, Moves

(***************************************************************************)
(* The invariant.                                                          *)
(***************************************************************************)
LEMMA InitInv == Init => Inv
<1> SUFFICES ASSUME Init PROVE Inv
  OBVIOUS
<1>1. PICK s \in Seeds : users = s.users /\ creds = s.creds /\ zones = s.zones
  BY DEF Init
<1>2. /\ users \in [Ids -> Users \cup {None}] /\ zones \subseteq Ids
      /\ creds \in [Ids -> Credentials \cup {None}]
      /\ \A o \in Ops : users[o] = None /\ creds[o] = None
      /\ \A i, j \in Ids : i # j /\ users[i] # None /\ users[j] # None =>
            ~SameKey(users[i], users[j])
      /\ \A i \in Ids : creds[i] # None =>
            /\ users[creds[i].user] # None
            /\ creds[i].consent \in {None, users[creds[i].user].sub}
  BY <1>1, SeedsAssumption
<1>3. /\ \A o \in Ops : /\ pc[o] = "idle" /\ req[o] = None /\ session[o] = None
                        /\ answer[o] = None
                        /\ local[o].user = None /\ local[o].cred = None /\ local[o].key = None
      /\ published = {1} /\ local \in [Ops -> Locals]
  BY DEF Init, Locals
<1>4. TypeOK
  <2>1. 1 \in 1..MaxKey
    BY AccountsAssumption
  <2>2. jwks = None \/ jwks \subseteq 1..MaxKey
    BY <2>1 DEF Init
  <2> QED BY <1>2, <1>3, <2>1, <2>2 DEF Init, TypeOK, Places
<1>5. ControlInv
  BY <1>3 DEF ControlInv, Control, Found, InCallback, InNamed
<1>6. MadeInv /\ OwnerInv
  BY <1>2, <1>3, NoneAssumption DEF MadeInv, OwnerInv, Ids
<1>7. StagedInv /\ StateInv /\ SessionInv
  BY <1>3 DEF StagedInv, Stages, StateInv, Passed, SessionInv
<1>8. KeyInv /\ CopyInv
  BY <1>3 DEF KeyInv, CopyInv, Init
<1>9. OneAccountPerPerson /\ ConsentStaysWithUser
  BY <1>2 DEF OneAccountPerPerson, ConsentStaysWithUser, SameKey
<1>10. SessionIsOwn /\ LoginIsAllOrNothing /\ RotationIsTolerated /\ OnlyOwnersAreServed
  BY <1>2, <1>3, NoneAssumption
     DEF SessionIsOwn, LoginIsAllOrNothing, RotationIsTolerated, OnlyOwnersAreServed, Answers
<1> QED BY <1>4, <1>5, <1>6, <1>7, <1>8, <1>9, <1>10 DEF Inv

LEMMA InvStep == Inv /\ [Next]_vars => Inv'
  BY TypeStep, ControlStep, MadeStep, StagedStep, OwnerStep, StateStep, KeyStep, CopyStep,
     SessionStep, OneAccountStep, ConsentStep, AllOrNothingStep, RotationStep, ServedStep
     DEF Inv

(***************************************************************************)
(* Theorems.                                                               *)
(***************************************************************************)
\* The state of accounts, credentials and their operations is well-typed.
THEOREM TypeCorrect == Spec => []TypeOK
<1>1. Inv => TypeOK
  BY DEF Inv
<1> QED BY <1>1, InitInv, InvStep, PTL DEF Spec

\* However many callbacks and registrations race, no two accounts have the same subject
\* or the same email, though register and handle_cf_oauth_callback check before they write.
THEOREM AccountsAreUnique == Spec => []OneAccountPerPerson
<1>1. Inv => OneAccountPerPerson
  BY DEF Inv
<1> QED BY <1>1, InitInv, InvStep, PTL DEF Spec

\* create_jwt is only called for the account of the subject, or of the password, that
\* logged in.
THEOREM SessionsAreOwn == Spec => []SessionIsOwn
<1>1. Inv => SessionIsOwn
  BY DEF Inv
<1> QED BY <1>1, InitInv, InvStep, PTL DEF Spec

\* A login that was begun ends in at most one session, with a code issued for it, also
\* when the issuer does not check PKCE.
THEOREM LoginsEndOnce == Spec => []LoginEndsOnce
<1>1. Inv => LoginEndsOnce
  <2>1. ASSUME Inv, NEW o \in Ops, session[o] # None, req[o].kind = "callback" PROVE Passed(o)
    <3>1. pc[o] # "idle"
      BY <2>1 DEF Inv, ControlInv, Control
    <3> QED BY <2>1, <3>1 DEF Inv, ControlInv, Control, Passed
  <2> QED BY <2>1 DEF Inv, StateInv, LoginEndsOnce, NonceMatches
<1> QED BY <1>1, InitInv, InvStep, PTL DEF Spec

\* The consent that handle_cf_oauth_callback stores belongs to the owner of the credential.
THEOREM ConsentsStayWithUsers == Spec => []ConsentStaysWithUser
<1>1. Inv => ConsentStaysWithUser
  BY DEF Inv
<1> QED BY <1>1, InitInv, InvStep, PTL DEF Spec

\* The account and the credential of a first login are committed together.
THEOREM LoginsAreAllOrNothing == Spec => []LoginIsAllOrNothing
<1>1. Inv => LoginIsAllOrNothing
  BY DEF Inv
<1> QED BY <1>1, InitInv, InvStep, PTL DEF Spec

\* _resolve_signing_key refuses an id_token of the right login that names its key only if
\* the key has been retired, whatever the worker's copy of the keys was, and one that
\* names none only if the issuer has rotated its keys.
THEOREM RotationsAreTolerated == Spec => []RotationIsTolerated
<1>1. Inv => RotationIsTolerated
  BY DEF Inv
<1> QED BY <1>1, InitInv, InvStep, PTL DEF Spec

\* get_owned_credential stands before every answer about a credential, cached zones
\* included.
THEOREM OwnersAreServed == Spec => []OnlyOwnersAreServed
<1>1. Inv => OnlyOwnersAreServed
  BY DEF Inv
<1> QED BY <1>1, InitInv, InvStep, PTL DEF Spec
=============================================================================
