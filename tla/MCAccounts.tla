----------------------------- MODULE MCAccounts -----------------------------
(***************************************************************************)
(* Accounts with two operations, two logins with two codes each, and every *)
(* kind of account that may exist before.                                  *)
(***************************************************************************)
EXTENDS Accounts, TLC

CONSTANTS o1, o2, u0, u1, k0, f1, f2

MCCode(id, flow, sub, email) == [id |-> id, flow |-> flow, sub |-> sub, email |-> email]

\* s1 consents to f1 twice, once without an email, and to f2 with another email; s2
\* consents to f2 with the email s1 had.
MCCodes == {MCCode("c1", f1, "s1", "e1"), MCCode("c2", f1, "s1", None),
            MCCode("c3", f2, "s2", "e1"), MCCode("c4", f2, "s1", "e2")}

MCCalls ==
    {[kind |-> "callback", state |-> f, code |-> c] : f \in {f1, f2}, c \in MCCodes}
      \cup {[kind |-> "register", email |-> "e1"]}
      \cup {[kind |-> "login", email |-> "e1", pw |-> p] : p \in {o1, o2, u1}}
      \cup {[kind |-> "create", user |-> u0, label |-> OAuthLabel]}
      \cup {[kind |-> k, user |-> u, cred |-> k0] :
               k \in {"verify", "delete", "zones", "records"}, u \in {u0, u1}}

Nothing == [i \in Ids |-> None]
User(email, sub, pw) == [email |-> email, sub |-> sub, pw |-> pw]
Credential(type, consent) ==
    [user |-> u0, label |-> OAuthLabel, type |-> type, consent |-> consent]

\* Nobody; a Cloudflare account with its credential, whose zones are cached, beside a
\* local account; a Cloudflare account that has deleted its credential, beside a local
\* account with the email its subject will have.
MCSeeds ==
    {[users |-> Nothing, creds |-> Nothing, zones |-> {}],
     [users |-> [Nothing EXCEPT ![u0] = User("e1", "s1", None), ![u1] = User("e2", None, u1)],
      creds |-> [Nothing EXCEPT ![k0] = Credential("oauth", "s1")], zones |-> {k0}],
     [users |-> [Nothing EXCEPT ![u0] = User("e2", "s1", None), ![u1] = User("e1", None, u1)],
      creds |-> Nothing, zones |-> {}]}

MCSymmetry == Permutations({o1, o2})
=============================================================================
