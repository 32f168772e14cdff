----------------------------- MODULE ScopeProofs -----------------------------
(***************************************************************************)
(* What an accepted rule grants, for every pattern, name, zone and set of  *)
(* labels.  The argument is about normalize_fqdn: it is idempotent, so the *)
(* name match_rules normalises before its loop and name_matches once more  *)
(* is the canonical one; and the length of its result, the position of the *)
(* last label that is not empty, tells a wildcard from the apex.           *)
(***************************************************************************)
EXTENDS ScopeRules, SequenceTheorems, WellFoundedInduction, TLAPS

(***************************************************************************)
(* Minimum and maximum of sets of numbers.                                 *)
(***************************************************************************)
\* A non-empty set of natural numbers has a least element.
LEMMA MinExists ==
    ASSUME NEW S \in SUBSET Nat, S # {}
    PROVE  \E x \in S : \A y \in S : x <= y
<1> DEFINE R == OpToRel(<, Nat)
<1>1. IsWellFoundedOn(R, Nat)
  BY NatLessThanWellFounded
<1>2. \E x \in S : \A y \in S : ~(<<y, x>> \in R)
  <2> HIDE DEF R
  <2> QED BY <1>1, WFMin
<1>3. \A x, y \in Nat : x < y => <<x, y>> \in R
  BY DEF OpToRel
<1>4. PICK x \in S : \A y \in S : ~(<<y, x>> \in R)
  <2> HIDE DEF R
  <2> QED BY <1>2
<1>5. \A y \in S : ~(y < x)
  <2> HIDE DEF R
  <2> QED BY <1>3, <1>4
<1>6. \A y \in S : x <= y
  <2> HIDE DEF R
  <2> QED BY <1>5
<1> QED BY <1>6

\* Min is what it is called.
LEMMA MinIsLeast ==
    ASSUME NEW S \in SUBSET Nat, S # {}
    PROVE  Min(S) \in S /\ \A y \in S : Min(S) <= y
BY MinExists DEF Min

\* Max is too, for the sets of positions it is used on.
LEMMA MaxIsGreatest ==
    ASSUME NEW n \in Nat, NEW S \in SUBSET (1..n), S # {}
    PROVE  Max(S) \in S /\ \A y \in S : Max(S) >= y
<1> DEFINE T == {n - x : x \in S}
<1>1. T \in SUBSET Nat /\ T # {}
  <2>1. T \in SUBSET Nat
    OBVIOUS
  <2>2. T # {}
    OBVIOUS
  <2> QED BY <2>1, <2>2
<1>2. PICK d \in T : \A e \in T : d <= e
  <2> HIDE DEF T
  <2> QED BY <1>1, MinExists
<1>3. PICK x \in S : d = n - x
  BY <1>2
<1>4. \A y \in S : n - x <= n - y
  BY <1>2, <1>3
<1>5. \A y \in S : x >= y
  BY <1>4
<1> QED BY <1>5 DEF Max

(***************************************************************************)
(* normalize_fqdn.                                                         *)
(***************************************************************************)
\* The empty string splits into one empty label.
LEMMA EmptyNameIsAName ==
    /\ EmptyName \in DnsNames /\ Len(EmptyName) = 1 /\ EmptyName[1] = EmptyLabel
BY ToASCIIAssumption DEF EmptyName, DnsNames

\* name.rstrip("."): everything up to the last label that is not empty.
LEMMA Stripped ==
    ASSUME NEW n \in DnsNames
    PROVE  \/ StripDots(n) = EmptyName /\ \A i \in 1..Len(n) : n[i] = EmptyLabel
           \/ \E m \in 1..Len(n) :
                /\ StripDots(n) = SubSeq(n, 1, m) /\ StripDots(n) # EmptyName
                /\ StripDots(n) \in DnsNames /\ Len(StripDots(n)) = m
                /\ \A i \in 1..m : StripDots(n)[i] = n[i]
                /\ n[m] # EmptyLabel /\ \A i \in 1..Len(n) : n[i] # EmptyLabel => i <= m
<1> DEFINE kept == {i \in DOMAIN n : n[i] # EmptyLabel}
<1>1. DOMAIN n = 1..Len(n) /\ Len(n) \in Nat /\ n \in Seq(DOMAIN Stars)
  BY DEF DnsNames
<1>2. CASE kept = {}
  BY <1>1, <1>2 DEF StripDots
<1>3. CASE kept # {}
  <2>1. kept \in SUBSET (1..Len(n))
    BY <1>1
  <2>2. Max(kept) \in kept /\ \A i \in kept : Max(kept) >= i
    <3> HIDE DEF kept
    <3> QED BY <1>1, <1>3, <2>1, MaxIsGreatest
  <2> DEFINE m == Max(kept)
  <2>3. m \in 1..Len(n) /\ n[m] # EmptyLabel /\ \A i \in 1..Len(n) : n[i] # EmptyLabel => i <= m
    BY <1>1, <2>2
  <2>4. StripDots(n) = SubSeq(n, 1, m)
    BY <1>3 DEF StripDots
  <2> HIDE DEF m, kept
  <2>5. /\ SubSeq(n, 1, m) \in Seq(DOMAIN Stars) /\ Len(SubSeq(n, 1, m)) = m
        /\ \A i \in 1..m : SubSeq(n, 1, m)[i] = n[i]
    <3>1. m \in Int /\ \A i \in 1..m : n[i] \in DOMAIN Stars
      BY <1>1, <2>3
    <3>2. /\ SubSeq(n, 1, m) \in Seq(DOMAIN Stars)
          /\ Len(SubSeq(n, 1, m)) = IF 1 <= m THEN m - 1 + 1 ELSE 0
          /\ \A i \in 1..(m - 1 + 1) : SubSeq(n, 1, m)[i] = n[1 + i - 1]
      BY <3>1, SubSeqProperties
    <3> QED BY <2>3, <3>1, <3>2
  <2>6. SubSeq(n, 1, m) # EmptyName
    <3>1. SUFFICES ASSUME SubSeq(n, 1, m) = EmptyName PROVE FALSE
      OBVIOUS
    <3>2. m = 1
      BY <2>5, <3>1, EmptyNameIsAName
    <3>3. EmptyName[m] = n[m]
      BY <2>3, <2>5, <3>1
    <3> QED BY <2>3, <3>2, <3>3, EmptyNameIsAName
  <2> QED BY <2>3, <2>4, <2>5, <2>6 DEF DnsNames
<1> QED BY <1>2, <1>3

\* normalize_fqdn returns the empty string as it is.
LEMMA EmptyNameIsNormal ==
    StripDots(EmptyName) = EmptyName /\ NormalizeFqdn(EmptyName) = EmptyName
<1>1. {i \in DOMAIN EmptyName : EmptyName[i] # EmptyLabel} = {}
  BY EmptyNameIsAName DEF DnsNames
<1>2. StripDots(EmptyName) = EmptyName
  BY <1>1 DEF StripDots
<1> QED BY <1>2 DEF NormalizeFqdn

\* normalize_fqdn keeps the number of labels and is idempotent; the last label of its
\* result is not empty.
LEMMA Normalized ==
    ASSUME NEW n \in DnsNames, Encodable(n)
    PROVE  /\ NormalizeFqdn(n) \in DnsNames
           /\ Len(NormalizeFqdn(n)) = Len(StripDots(n))
           /\ Encodable(NormalizeFqdn(n))
           /\ NormalizeFqdn(NormalizeFqdn(n)) = NormalizeFqdn(n)
           /\ StripDots(n) # EmptyName =>
                 /\ Len(NormalizeFqdn(n)) > 0
                 /\ NormalizeFqdn(n)[Len(NormalizeFqdn(n))] # EmptyLabel
<1>1. CASE StripDots(n) = EmptyName
  <2>1. NormalizeFqdn(n) = EmptyName
    BY <1>1 DEF NormalizeFqdn
  <2>2. NormalizeFqdn(EmptyName) = EmptyName /\ Encodable(EmptyName)
    BY EmptyNameIsNormal DEF Encodable
  <2> QED BY <1>1, <2>1, <2>2, EmptyNameIsAName
<1>2. CASE StripDots(n) # EmptyName
  <2> DEFINE s == StripDots(n)
             t == NormalizeFqdn(n)
  <2>1. PICK m \in 1..Len(n) :
           s \in DnsNames /\ Len(s) = m /\ (\A i \in 1..m : s[i] = n[i]) /\ n[m] # EmptyLabel
    BY <1>2, Stripped
  <2>2. m \in Nat \ {0} /\ DOMAIN s = 1..m
    BY <2>1, LenProperties DEF DnsNames
  <2>3. \A i \in 1..m : s[i] \in DOMAIN ToASCII
    BY <1>2, <2>2 DEF Encodable
  <2>4. t = [i \in 1..m |-> ToASCII[s[i]]]
    BY <1>2, <2>2 DEF NormalizeFqdn
  <2>5. \A i \in 1..m : t[i] \in DOMAIN ToASCII /\ t[i] \in DOMAIN Stars /\ t[i] # EmptyLabel
                            /\ ToASCII[t[i]] = t[i]
    BY <2>3, <2>4, ToASCIIAssumption
  <2> HIDE DEF t
  <2>6. t \in Seq(DOMAIN Stars) /\ Len(t) = m /\ DOMAIN t = 1..m
    <3>1. t \in [1..m -> DOMAIN Stars]
      BY <2>4, <2>5
    <3> QED BY <2>2, <3>1
  <2>7. t # EmptyName
    BY <2>2, <2>5, <2>6, EmptyNameIsAName
  <2>8. StripDots(t) = t
    <3>1. PICK k \in 1..Len(t) :
            /\ StripDots(t) = SubSeq(t, 1, k)
            /\ \A i \in 1..Len(t) : t[i] # EmptyLabel => i <= k
      <4>1. t \in DnsNames /\ 1 \in 1..Len(t) /\ t[1] # EmptyLabel
        BY <2>2, <2>5, <2>6 DEF DnsNames
      <4> QED BY <4>1, Stripped
    <3>2. k = m
      BY <2>2, <2>5, <2>6, <3>1
    <3>3. SubSeq(t, 1, m) = t
      BY <2>6, SubSeqFull
    <3> QED BY <3>1, <3>2, <3>3
  <2>9. Encodable(t)
    BY <2>5, <2>6, <2>8 DEF Encodable
  <2>10. NormalizeFqdn(t) = t
    <3>1. NormalizeFqdn(t) = [i \in 1..m |-> ToASCII[t[i]]]
      BY <2>6, <2>7, <2>8 DEF NormalizeFqdn
    <3> QED BY <2>4, <2>5, <3>1
  <2>11. Len(t) > 0 /\ t[Len(t)] # EmptyLabel
    BY <2>2, <2>5, <2>6
  <2> QED BY <2>1, <2>6, <2>9, <2>10, <2>11 DEF t, DnsNames
<1> QED BY <1>1, <1>2

(***************************************************************************)
(* The suffix test of validate_name_pattern.                               *)
(***************************************************************************)
\* What reversing a name, of which IsSuffix is made, does to its ends.
LEMMA Reversed ==
    ASSUME NEW u \in DnsNames
    PROVE  /\ Reverse(u) \in DnsNames /\ Len(Reverse(u)) = Len(u)
           /\ Len(u) > 0 => Reverse(u)[1] = u[Len(u)]
<1>1. Len(u) \in Nat /\ \A i \in 1..Len(u) : u[i] \in DOMAIN Stars
  BY DEF DnsNames
<1>2. Reverse(u) \in [1..Len(u) -> DOMAIN Stars]
  BY <1>1 DEF Reverse
<1>3. Reverse(u) \in Seq(DOMAIN Stars) /\ Len(Reverse(u)) = Len(u)
  BY <1>1, <1>2
<1>4. Len(u) > 0 => Reverse(u)[1] = u[Len(u)]
  BY <1>1 DEF Reverse
<1> QED BY <1>3, <1>4 DEF DnsNames

\* A suffix is not longer than the name, and has the same last label.
LEMMA SuffixEndsAlike ==
    ASSUME NEW s \in DnsNames, NEW t \in DnsNames, IsSuffix(s, t)
    PROVE  Len(s) <= Len(t) /\ (Len(s) > 0 => s[Len(s)] = t[Len(t)])
<1> DEFINE a == Reverse(s)
           b == Reverse(t)
<1>1. /\ Len(s) \in Nat /\ Len(t) \in Nat /\ Len(a) = Len(s) /\ Len(b) = Len(t)
      /\ a \in Seq(DOMAIN Stars) /\ b \in Seq(DOMAIN Stars)
  BY Reversed DEF DnsNames
<1>2. Len(s) <= Len(t) /\ SubSeq(a, 1, Len(s)) = SubSeq(b, 1, Len(s))
  BY <1>1 DEF IsSuffix, IsPrefix
<1>3. ASSUME Len(s) > 0 PROVE s[Len(s)] = t[Len(t)]
  <2>1. a[1] = s[Len(s)] /\ b[1] = t[Len(t)]
    BY <1>1, <1>2, <1>3, Reversed
  <2> HIDE DEF a, b
  <2>2. SubSeq(a, 1, Len(s))[1] = a[1] /\ SubSeq(b, 1, Len(s))[1] = b[1]
    BY <1>1, <1>2, <1>3
  <2> QED BY <1>2, <2>1, <2>2
<1> QED BY <1>2, <1>3

\* The labels that are left when the '*' is taken out.
LEMMA Removed ==
    ASSUME NEW n \in DnsNames, NEW star \in DOMAIN n, NEW L, L = Len(n)
    PROVE  /\ RemoveAt(n, star) \in DnsNames /\ Len(RemoveAt(n, star)) = L - 1
           /\ \A i \in 1..(L - 1) :
                 RemoveAt(n, star)[i] = IF i < star THEN n[i] ELSE n[i + 1]
<1> DEFINE r == RemoveAt(n, star)
           left == SubSeq(n, 1, star - 1)
           right == SubSeq(n, star + 1, L)
<1>1. /\ L \in Nat /\ star \in 1..L /\ n \in Seq(DOMAIN Stars)
      /\ \A i \in 1..L : n[i] \in DOMAIN Stars
  BY DEF DnsNames
<1>2. /\ left \in Seq(DOMAIN Stars) /\ Len(left) = star - 1
      /\ \A i \in 1..(star - 1) : left[i] = n[i]
  <2>1. /\ left \in Seq(DOMAIN Stars)
        /\ Len(left) = IF 1 <= star - 1 THEN (star - 1) - 1 + 1 ELSE 0
        /\ \A i \in 1..((star - 1) - 1 + 1) : left[i] = n[1 + i - 1]
    <3>1. star - 1 \in Int /\ \A i \in 1..(star - 1) : n[i] \in DOMAIN Stars
      BY <1>1
    <3> QED BY <3>1, SubSeqProperties
  <2> QED BY <1>1, <2>1
<1>3. /\ right \in Seq(DOMAIN Stars) /\ Len(right) = L - star
      /\ \A i \in 1..(L - star) : right[i] = n[star + i]
  <2>1. /\ right \in Seq(DOMAIN Stars)
        /\ Len(right) = IF star + 1 <= L THEN L - (star + 1) + 1 ELSE 0
        /\ \A i \in 1..(L - (star + 1) + 1) : right[i] = n[(star + 1) + i - 1]
    <3>1. star + 1 \in Int /\ L \in Int /\ \A i \in (star + 1)..L : n[i] \in DOMAIN Stars
      BY <1>1
    <3> QED BY <3>1, SubSeqProperties
  <2> QED BY <1>1, <2>1
<1>4. /\ r \in Seq(DOMAIN Stars) /\ Len(r) = L - 1
      /\ \A i \in 1..(L - 1) : r[i] = IF i < star THEN n[i] ELSE n[i + 1]
  <2>1. r = left \o right
    BY DEF RemoveAt
  <2> HIDE DEF left, right, r
  <2>2. /\ left \o right \in Seq(DOMAIN Stars)
        /\ Len(left \o right) = Len(left) + Len(right)
        /\ \A i \in 1..(Len(left) + Len(right)) :
              (left \o right)[i] = IF i <= Len(left) THEN left[i] ELSE right[i - Len(left)]
    BY <1>2, <1>3, ConcatProperties
  <2>3. Len(r) = L - 1 /\ Len(left) + Len(right) = L - 1
    BY <1>1, <1>2, <1>3, <2>1, <2>2
  <2>4. ASSUME NEW i \in 1..(L - 1) PROVE r[i] = IF i < star THEN n[i] ELSE n[i + 1]
    <3>1. r[i] = IF i <= star - 1 THEN left[i] ELSE right[i - (star - 1)]
      BY <1>2, <2>1, <2>2, <2>3
    <3>2. CASE i < star
      BY <1>1, <1>2, <3>1, <3>2
    <3>3. CASE i >= star
      <4>1. i - (star - 1) \in 1..(L - star) /\ star + (i - (star - 1)) = i + 1
        BY <1>1, <3>3
      <4> QED BY <1>1, <1>3, <3>1, <3>3, <4>1
    <3> QED BY <1>1, <3>2, <3>3
  <2> QED BY <2>1, <2>2, <2>3, <2>4
<1> QED BY <1>4 DEF DnsNames

\* Taking out a label that is not empty shortens what is left of the name after its
\* trailing dots are stripped, even if the label stood behind some of them.
LEMMA RemovingShortens ==
    ASSUME NEW n \in DnsNames, NEW star \in DOMAIN n, n[star] # EmptyLabel,
           StripDots(RemoveAt(n, star)) # EmptyName
    PROVE  Len(StripDots(n)) > Len(StripDots(RemoveAt(n, star)))
<1> DEFINE L == Len(n)
           r == RemoveAt(n, star)
<1>1. L \in Nat /\ star \in 1..L
  BY DEF DnsNames
<1>2. /\ r \in DnsNames /\ Len(r) = L - 1
      /\ \A i \in 1..(L - 1) : r[i] = IF i < star THEN n[i] ELSE n[i + 1]
  BY Removed
<1>3. PICK k \in 1..Len(r) : Len(StripDots(r)) = k /\ r[k] # EmptyLabel
  BY <1>2, Stripped
<1> HIDE DEF r
<1>4. PICK m \in 1..L :
        Len(StripDots(n)) = m /\ \A i \in 1..L : n[i] # EmptyLabel => i <= m
  BY <1>1, Stripped
<1>5. k < star \/ k + 1 <= m
  BY <1>1, <1>2, <1>3, <1>4
<1>6. star <= m
  BY <1>1, <1>4
<1>7. m > k
  BY <1>1, <1>2, <1>3, <1>5, <1>6
<1> QED BY <1>3, <1>4, <1>7 DEF r

(***************************************************************************)
(* match_rules and name_matches.                                           *)
(***************************************************************************)
\* What a verdict "grant" says about a rule with a pattern.
LEMMA GrantMeans ==
    ASSUME NEW r \in ScopeRule, NEW q \in Queries,
           Evaluate(r, q) = "grant", r.name_pattern # None
    PROVE  /\ q.name \in DnsNames /\ Encodable(q.name)
           /\ r.name_pattern \in DnsNames /\ Encodable(r.name_pattern)
           /\ NameMatches(r.name_pattern, r.name_match, NormalizeFqdn(q.name))
<1>1. MatchRules({r}, q.zone, q.name, q.type, q.rid, q.need)
  BY DEF Evaluate
<1>2. RuleGrants(r, q.zone, q.name, q.type, q.rid, q.need)
  BY <1>1 DEF MatchRules
<1>3. /\ q.name \notin {None, EmptyName}
      /\ NameMatches(r.name_pattern, r.name_match, NormalizeFqdn(q.name))
  BY <1>2 DEF RuleGrants, NameInScope
<1>4. Encodable(q.name) /\ Encodable(r.name_pattern)
  BY <1>2, <1>3 DEF Evaluate, RuleGrants
<1>5. q.name \in DnsNames /\ r.name_pattern \in DnsNames
  BY <1>3, ScopeRulesAssumption DEF ScopeRule
<1> QED BY <1>3, <1>4, <1>5

\* An exact rule grants the name that has its canonical form.
LEMMA ExactGrant ==
    ASSUME NEW r \in ScopeRule, NEW q \in Queries,
           Evaluate(r, q) = "grant", r.name_pattern # None, r.name_match = "exact"
    PROVE  NormalizeFqdn(r.name_pattern) = NormalizeFqdn(q.name)
<1>1. NormalizeFqdn(r.name_pattern) = NormalizeFqdn(NormalizeFqdn(q.name))
  BY GrantMeans DEF NameMatches
<1> QED BY <1>1, GrantMeans, Normalized

OneLabelApart(p, t) ==
    \E i \in DOMAIN p \cap DOMAIN t : p[i] = "*" /\ t = [p EXCEPT ![i] = t[i]]

\* A wildcard grants names of its own length that differ from it in one '*' label.
LEMMA WildcardGrant ==
    ASSUME NEW r \in ScopeRule, NEW q \in Queries,
           Evaluate(r, q) = "grant", r.name_pattern # None, r.name_match = "wildcard",
           NEW p, p = NormalizeFqdn(r.name_pattern),
           NEW t, t = NormalizeFqdn(q.name)
    PROVE  /\ p \in DnsNames /\ t \in DnsNames /\ Len(p) = Len(t)
           /\ OneLabelApart(p, t)
<1> DEFINE stars == {i \in DOMAIN p : p[i] = "*"}
<1>1. p \in DnsNames /\ t \in DnsNames /\ NormalizeFqdn(t) = t
  BY GrantMeans, Normalized
<1>2. stars # {} /\ Len(p) = Len(t) /\ \A i \in DOMAIN p \ {Min(stars)} : p[i] = t[i]
  <2>1. NameMatches(r.name_pattern, "wildcard", t)
    BY GrantMeans
  <2> QED BY <1>1, <2>1, Zenon DEF NameMatches
<1>3. /\ Len(p) \in Nat
      /\ p \in [1..Len(p) -> DOMAIN Stars] /\ t \in [1..Len(p) -> DOMAIN Stars]
      /\ DOMAIN p = 1..Len(p) /\ DOMAIN t = 1..Len(p)
  BY <1>1, <1>2, LenProperties DEF DnsNames
<1>4. stars \in SUBSET Nat
  BY <1>3
<1>5. Min(stars) \in stars
  <2> HIDE DEF stars
  <2> QED BY <1>2, <1>4, MinIsLeast
<1>6. PICK i \in DOMAIN p : p[i] = "*" /\ \A j \in DOMAIN p \ {i} : p[j] = t[j]
  BY <1>2, <1>5
<1>7. t = [p EXCEPT ![i] = t[i]]
  BY <1>3, <1>6
<1> QED BY <1>1, <1>2, <1>3, <1>6, <1>7 DEF OneLabelApart

\* A wildcard that validate_name_pattern accepts is longer than its zone, wherever its '*'
\* stands: without it the zone is still a suffix of the rest.
LEMMA ValidWildcardIsLonger ==
    ASSUME NEW n \in DnsNames, NEW zid \in DOMAIN ZoneNames, Encodable(n),
           ValidWildcard(n, ZoneNames[zid])
    PROVE  Len(NormalizeFqdn(n)) > Len(NormalizeFqdn(ZoneNames[zid]))
<1> DEFINE z == ZoneNames[zid]
<1>1. /\ z \in DnsNames /\ Encodable(z) /\ StripDots(z) # EmptyName
      /\ NormalizeFqdn(z) \in DnsNames
  BY ZoneNamesAssumption, Normalized
<1>2. PICK star \in DOMAIN n : n[star] = "*" /\ EndsInZone(RemoveAt(n, star), z)
  BY DEF ValidWildcard
<1> DEFINE rest == RemoveAt(n, star)
<1>3. n[star] # EmptyLabel
  BY <1>2 DEF EmptyLabel
<1>4. rest \in DnsNames
  BY Removed
<1>5. Encodable(rest) /\ IsSuffix(NormalizeFqdn(z), NormalizeFqdn(rest))
  BY <1>2 DEF EndsInZone
<1>6. Len(NormalizeFqdn(z)) <= Len(StripDots(rest))
  BY <1>1, <1>4, <1>5, Normalized, SuffixEndsAlike
<1>7. CASE StripDots(rest) # EmptyName
  <2>1. Len(StripDots(n)) > Len(StripDots(rest))
    BY <1>3, <1>7, RemovingShortens
  <2>2. Len(NormalizeFqdn(n)) > Len(StripDots(rest))
    BY <2>1, Normalized
  <2> QED BY <1>1, <1>6, <2>2
<1>8. CASE StripDots(rest) = EmptyName
  <2>1. NormalizeFqdn(rest) = EmptyName
    BY <1>8 DEF NormalizeFqdn
  <2>2. Len(NormalizeFqdn(z)) > 0 /\ NormalizeFqdn(z)[Len(NormalizeFqdn(z))] # EmptyLabel
    BY <1>1, Normalized
  <2>3. NormalizeFqdn(z)[Len(NormalizeFqdn(z))] = EmptyName[Len(EmptyName)]
    BY <1>1, <1>5, <2>1, <2>2, EmptyNameIsAName, SuffixEndsAlike
  <2> QED BY <2>2, <2>3, EmptyNameIsAName
<1> QED BY <1>7, <1>8

(***************************************************************************)
(* The inductive invariant: a rule that is stored was accepted, and the    *)
(* verdict is what match_rules makes of it.                                *)
(***************************************************************************)
Inv ==
    /\ TypeOK
    /\ phase = "stored" => RuleAccepted(rule)
    /\ verdict # None => /\ phase = "stored" /\ query \in Queries
                         /\ verdict = Evaluate(rule, query)

\* Init establishes the invariant.
LEMMA InitInv == Init => Inv
BY ScopeRulesAssumption DEF Init, Inv, TypeOK

\* Minting and matching preserve it.
LEMMA InvStep == Inv /\ [Next]_vars => Inv'
<1> SUFFICES ASSUME Inv, [Next]_vars PROVE Inv'
  OBVIOUS
<1>1. CASE Mint
  BY <1>1 DEF Mint, Inv, TypeOK, RuleAccepted, Absent
<1>2. ASSUME NEW q \in Queries, Match(q) PROVE Inv'
  <2>1. Evaluate(rule, q) \in {"grant", "deny", "raise"}
    BY DEF Evaluate
  <2> QED BY <1>2, <2>1, ScopeRulesAssumption DEF Match, Inv, TypeOK, RuleAccepted, Absent
<1>3. CASE UNCHANGED vars
  BY <1>3 DEF vars, Inv, TypeOK, RuleAccepted, Absent
<1> QED BY <1>1, <1>2, <1>3 DEF Next

\* A granted request was evaluated with the rule that was accepted.
LEMMA GrantedIsEvaluated ==
    ASSUME NEW match, Inv, Granted(match)
    PROVE  /\ rule \in ScopeRule /\ query \in Queries /\ Evaluate(rule, query) = "grant"
           /\ rule.name_pattern # None /\ rule.name_match = match /\ RuleAccepted(rule)
BY ScopeRulesAssumption DEF Inv, TypeOK, Granted

\* The rule, the request and the verdict on it have their types: match_rules returns or
\* raises for every request.
THEOREM TypeCorrect == Spec => []TypeOK
<1>1. Inv => TypeOK
  BY DEF Inv
<1> QED BY <1>1, InitInv, InvStep, PTL DEF Spec

\* The '*' of a wildcard stands for exactly one label of what is granted (name_matches),
\* for every pattern and name.
THEOREM WildcardsAreOneLabel == Spec => []WildcardIsOneLabel
<1>1. Inv => WildcardIsOneLabel
  <2> SUFFICES ASSUME Inv, Granted("wildcard") PROVE WildcardIsOneLabel
    BY DEF WildcardIsOneLabel
  <2>1. OneLabelApart(NormalizeFqdn(rule.name_pattern), NormalizeFqdn(query.name))
    BY GrantedIsEvaluated, WildcardGrant
  <2> QED BY <2>1, Zenon DEF WildcardIsOneLabel, OneLabelApart
<1> QED BY <1>1, InitInv, InvStep, PTL DEF Spec

\* No accepted wildcard grants the apex of its zone: validate_name_pattern and
\* name_matches agree on this for every pattern.
THEOREM WildcardsExcludeApex == Spec => []WildcardExcludesApex
<1>1. Inv => WildcardExcludesApex
  <2> SUFFICES ASSUME Inv, Granted("wildcard"),
                      NormalizeFqdn(query.name) = NormalizeFqdn(ZoneNames[rule.zone_id])
               PROVE  FALSE
    BY DEF WildcardExcludesApex
  <2>1. /\ rule \in ScopeRule /\ query \in Queries /\ Evaluate(rule, query) = "grant"
        /\ rule.name_pattern # None /\ rule.name_match = "wildcard" /\ RuleAccepted(rule)
    BY GrantedIsEvaluated
  <2> DEFINE p == NormalizeFqdn(rule.name_pattern)
             t == NormalizeFqdn(query.name)
  <2>2. /\ p \in DnsNames /\ t \in DnsNames /\ Len(p) = Len(t)
        /\ \E i \in DOMAIN p : p[i] = "*"
    BY <2>1, WildcardGrant DEF OneLabelApart
  <2>3. rule.name_pattern # EmptyName
    <3>1. SUFFICES ASSUME rule.name_pattern = EmptyName PROVE FALSE
      OBVIOUS
    <3>2. p = EmptyName
      BY <3>1, EmptyNameIsNormal
    <3>3. \A i \in DOMAIN EmptyName : EmptyName[i] = EmptyLabel
      BY EmptyNameIsAName DEF DnsNames
    <3>4. EmptyLabel # "*"
      BY DEF EmptyLabel
    <3> QED BY <2>2, <3>2, <3>3, <3>4, Zenon
  <2>4. /\ rule.zone_id \in DOMAIN ZoneNames
        /\ ValidWildcard(rule.name_pattern, ZoneNames[rule.zone_id])
    BY <2>1, <2>3 DEF RuleAccepted, Absent, ValidateNamePattern
  <2>5. Len(p) > Len(t)
    BY <2>1, <2>4, GrantMeans, ValidWildcardIsLonger
  <2> QED BY <2>2, <2>5 DEF DnsNames
<1> QED BY <1>1, InitInv, InvStep, PTL DEF Spec

\* An accepted exact rule grants names of its zone, or "@" (validate_name_pattern and
\* name_matches).
THEOREM ExactRulesStayInZone == Spec => []ExactStaysInZone
<1>1. Inv => ExactStaysInZone
  <2> SUFFICES ASSUME Inv, Granted("exact"), ~Absent(rule.name_pattern)
               PROVE  \/ EndsInZone(query.name, ZoneNames[rule.zone_id])
                      \/ NormalizeFqdn(query.name) = NormalizeFqdn(<<"@">>)
    BY DEF ExactStaysInZone
  <2>1. /\ rule \in ScopeRule /\ query \in Queries /\ Evaluate(rule, query) = "grant"
        /\ rule.name_pattern # None /\ rule.name_match = "exact" /\ RuleAccepted(rule)
    BY GrantedIsEvaluated
  <2>2. /\ NormalizeFqdn(rule.name_pattern) = NormalizeFqdn(query.name)
        /\ Encodable(query.name)
    BY <2>1, ExactGrant, GrantMeans
  <2>3. ValidExact(rule.name_pattern, ZoneNames[rule.zone_id])
    BY <2>1 DEF RuleAccepted, ValidateNamePattern
  <2>4. \/ rule.name_pattern = <<"@">>
        \/ EndsInZone(rule.name_pattern, ZoneNames[rule.zone_id])
    BY <2>3 DEF ValidExact
  <2> QED BY <2>2, <2>4, Zenon DEF EndsInZone
<1> QED BY <1>1, InitInv, InvStep, PTL DEF Spec

\* A request is_lock_exempt lets past the lock is never denied by match_rules, whatever
\* name and type the record has.
THEOREM ExemptionIsEscapeProof == Spec => []ExemptIsEscapeProof
<1>1. Inv => ExemptIsEscapeProof
  <2> SUFFICES ASSUME Inv, verdict = "deny",
                      IsLockExempt({rule}, query.zone, query.rid, query.need)
               PROVE  FALSE
    BY DEF ExemptIsEscapeProof
  <2>1. Evaluate(rule, query) = "deny"
    BY ScopeRulesAssumption DEF Inv
  <2>2. ~MatchRules({rule}, query.zone, query.name, query.type, query.rid, query.need)
    BY <2>1 DEF Evaluate
  <2> QED BY <2>2 DEF MatchRules, RuleGrants, NameInScope, IsLockExempt
<1> QED BY <1>1, InitInv, InvStep, PTL DEF Spec
=============================================================================
