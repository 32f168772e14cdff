------------------------------- MODULE Scope -------------------------------
(***************************************************************************)
(* The authorisation predicates of authz/scope.py.                         *)
(*                                                                         *)
(* A DNS name is the sequence of labels that name.split(".") returns: the  *)
(* empty name is <<"">> and a trailing dot is a trailing empty label.      *)
(* Names carry no surrounding blanks (name.strip() has nothing to do).     *)
(*                                                                         *)
(* A scope rule is a record                                                *)
(*   [zone_id, name_pattern, name_match, record_types, record_ids, allow]  *)
(* where name_pattern is None or a name, record_ids is {} for the code's   *)
(* None and [], and allow holds the operations whose allow_* flag is set.  *)
(***************************************************************************)
EXTENDS Naturals, SequencesExt

CONSTANTS
    None,     \* Python's None
    ToASCII,  \* label -> its lower-case, IDNA-encoded form; the domain is the
              \* set of labels that str.encode("idna") accepts
    Stars     \* label -> the number of '*' characters in it

Needs == {"read", "create", "write", "delete"}

EmptyLabel == ""
EmptyName == <<EmptyLabel>>
DnsNames == Seq(DOMAIN Stars)

\* What lower() and encode("idna") make of a label: it is never empty ("label empty or
\* too long" raises) and encoding it again changes nothing.  Labels that hold one of the
\* other dots IDNA splits at are left out.
ASSUME ToASCIIAssumption ==
    /\ EmptyLabel \in DOMAIN Stars
    /\ DOMAIN ToASCII \subseteq DOMAIN Stars \ {EmptyLabel}
    /\ \A l \in DOMAIN ToASCII :
          ToASCII[l] \in DOMAIN ToASCII /\ ToASCII[ToASCII[l]] = ToASCII[l]

(***************************************************************************)
(* normalize_fqdn.  Encodable(n) is FALSE when encode("idna") raises       *)
(* UnicodeError: an empty label inside the name, or one that is too long.  *)
(***************************************************************************)
StripDots(n) ==
    LET kept == {i \in DOMAIN n : n[i] # EmptyLabel}
    IN  IF kept = {} THEN EmptyName ELSE SubSeq(n, 1, Max(kept))

Encodable(n) ==
    LET stripped == StripDots(n)
    IN  stripped = EmptyName \/ \A i \in DOMAIN stripped : stripped[i] \in DOMAIN ToASCII

NormalizeFqdn(n) ==
    LET stripped == StripDots(n)
    IN  IF stripped = EmptyName
        THEN stripped
        ELSE [i \in DOMAIN stripped |-> ToASCII[stripped[i]]]

(***************************************************************************)
(* validate_name_pattern: TRUE when it returns, FALSE when it raises       *)
(* ValueError (UnicodeError is one).  The zone test on the canonical       *)
(* strings, "equal to the zone or ending in '.' + zone", is the suffix     *)
(* relation on their labels.                                               *)
(***************************************************************************)
EndsInZone(n, zoneName) ==
    Encodable(n) /\ IsSuffix(NormalizeFqdn(zoneName), NormalizeFqdn(n))

\* Mutant of ValidExact: the zone test is forgotten.
ValidExactAnywhere(pattern, zoneName) ==
    \A i \in DOMAIN pattern : Stars[pattern[i]] = 0

ValidExact(pattern, zoneName) ==
    /\ \A i \in DOMAIN pattern : Stars[pattern[i]] = 0
    /\ pattern = <<"@">> \/ EndsInZone(pattern, zoneName)

ValidWildcard(pattern, zoneName) ==
    \E star \in DOMAIN pattern :
        /\ Stars[pattern[star]] = 1
        /\ \A i \in DOMAIN pattern \ {star} : Stars[pattern[i]] = 0
        /\ pattern[star] = "*"
        /\ EndsInZone(RemoveAt(pattern, star), zoneName)

ValidateNamePattern(pattern, nameMatch, zoneName) ==
    \/ nameMatch = "exact" /\ ValidExact(pattern, zoneName)
    \/ nameMatch = "wildcard" /\ ValidWildcard(pattern, zoneName)

(***************************************************************************)
(* name_matches on names that normalise without raising.                   *)
(***************************************************************************)
\* Mutant of NameMatches: only the labels right of the '*' are compared.
NameMatchesSuffix(pattern, nameMatch, target) ==
    LET p == NormalizeFqdn(pattern)
        t == NormalizeFqdn(target)
        stars == {i \in DOMAIN p : p[i] = "*"}
    IN  \/ nameMatch = "exact" /\ p = t
        \/ /\ nameMatch = "wildcard"
           /\ stars # {}
           /\ IsSuffix(SubSeq(p, Min(stars) + 1, Len(p)), t)

\* Mutant of NameMatches: the '*' may also stand for no label at all.
NameMatchesOptional(pattern, nameMatch, target) ==
    LET p == NormalizeFqdn(pattern)
        t == NormalizeFqdn(target)
        stars == {i \in DOMAIN p : p[i] = "*"}
    IN  \/ nameMatch = "exact" /\ p = t
        \/ /\ nameMatch = "wildcard"
           /\ stars # {}
           /\ \/ t = RemoveAt(p, Min(stars))
              \/ /\ Len(p) = Len(t)
                 /\ \A i \in DOMAIN p \ {Min(stars)} : p[i] = t[i]

NameMatches(pattern, nameMatch, target) ==
    LET p == NormalizeFqdn(pattern)
        t == NormalizeFqdn(target)
        stars == {i \in DOMAIN p : p[i] = "*"}
    IN  \/ nameMatch = "exact" /\ p = t
        \/ /\ nameMatch = "wildcard"
           /\ stars # {}
           /\ Len(p) = Len(t)
           /\ \A i \in DOMAIN p \ {Min(stars)} : p[i] = t[i]

(***************************************************************************)
(* match_rules: some rule grants `need' on the record.  A missing name and *)
(* an empty one are the same ("if name else None").                        *)
(***************************************************************************)
NameInScope(rule, name) ==
    \/ rule.name_pattern = None
    \/ /\ name \notin {None, EmptyName}
       /\ NameMatches(rule.name_pattern, rule.name_match, NormalizeFqdn(name))

RuleGrants(rule, zoneId, name, rtype, recordId, need) ==
    /\ rule.zone_id = zoneId
    /\ "*" \in rule.record_types \/ rtype \in rule.record_types
    /\ rule.record_ids = {} \/ recordId \in rule.record_ids
    /\ NameInScope(rule, name)
    /\ need \in rule.allow

MatchRules(rules, zoneId, name, rtype, recordId, need) ==
    \E rule \in rules : RuleGrants(rule, zoneId, name, rtype, recordId, need)

(***************************************************************************)
(* is_lock_exempt: a rule granting op pins the record id, allows any type  *)
(* and names no pattern.                                                   *)
(***************************************************************************)
\* Mutant of IsLockExempt: a rule with a name pattern can be exempt too.
IsLockExemptNamed(rules, zoneId, recordId, op) ==
    \E rule \in rules :
        /\ rule.zone_id = zoneId
        /\ rule.record_types = {"*"}
        /\ recordId \in rule.record_ids
        /\ op \in rule.allow

\* Mutant of IsLockExempt: a rule limited to some types can be exempt too.
IsLockExemptTyped(rules, zoneId, recordId, op) ==
    \E rule \in rules :
        /\ rule.zone_id = zoneId
        /\ rule.name_pattern = None
        /\ recordId \in rule.record_ids
        /\ op \in rule.allow

IsLockExempt(rules, zoneId, recordId, op) ==
    \E rule \in rules :
        /\ rule.zone_id = zoneId
        /\ rule.name_pattern = None
        /\ rule.record_types = {"*"}
        /\ recordId \in rule.record_ids
        /\ op \in rule.allow

(***************************************************************************)
(* merge_patch_image.  A body is [name, type] with None for an absent key. *)
(* A key whose value is JSON null is left out: the code takes the null for *)
(* the new value, and match_rules then grants it only by a rule without a  *)
(* name pattern (a null name) or for all types (a null type), so it grants *)
(* nothing that it would not grant with the key absent.                    *)
(***************************************************************************)
MergePatchImage(pre, body) ==
    [name |-> IF body.name = None THEN pre.name ELSE body.name,
     type |-> IF body.type = None THEN pre.type ELSE body.type]
=============================================================================
