---------------------------- MODULE MCTokenStore ----------------------------
(***************************************************************************)
(* Small instances of TokenStore: one token that exists, one that may be   *)
(* minted, lookup ids for a rotation and a mint.                           *)
(***************************************************************************)
EXTENDS TokenStore, TLC

CONSTANTS t1, t2, c1, l1, l2, l3, o1, o2, a1, a2

MCInitialTokens ==
    {[t \in TokenIds |->
        IF t = t1 THEN [cred |-> c1, lookup |-> l1, version |-> 1, status |-> "active",
                        expires |-> e]
        ELSE None] : e \in Expiries}
\* Requests, and the lookup ids still to be drawn, are interchangeable.
Symmetry == Permutations(Ops) \cup Permutations(Auths) \cup Permutations({l2, l3})
=============================================================================
