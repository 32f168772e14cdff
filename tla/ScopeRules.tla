----------------------------- MODULE ScopeRules -----------------------------
(***************************************************************************)
(* The life of a scope rule: submitted with POST /tokens, validated        *)
(* against the zone's name (services/token_service.py), stored, and from   *)
(* then on evaluated for every proxied request.  The two ends live in      *)
(* different layers and treat patterns differently (the validator works on *)
(* the raw pattern, the matcher on the canonical one); the properties      *)
(* below relate what was accepted to what is granted.                      *)
(*                                                                         *)
(* A submission holds one rule: _validate_scope_rules accepts a list when  *)
(* it accepts each element, and MatchRules is a disjunction over rules.    *)
(***************************************************************************)
EXTENDS Scope

CONSTANTS
    ZoneNames,       \* zone id -> zone name, for the zones that exist upstream
    CandidateRules,  \* the rules a user may submit
    Queries          \* the requests: [zone, name, type, rid, need]

ScopeRule == [zone_id : STRING, name_pattern : DnsNames \cup {None},
              name_match : {"exact", "wildcard"}, record_types : SUBSET STRING,
              record_ids : SUBSET STRING, allow : SUBSET Needs]

ASSUME ScopeRulesAssumption ==
    /\ None \notin DnsNames /\ None \notin Queries
    /\ None \notin {"grant", "deny", "raise"}
    /\ CandidateRules \subseteq ScopeRule
    /\ \A q \in Queries : q.name \in DnsNames \cup {None}

\* Zones that exist have a name with at least one label, which IDNA accepts.
ASSUME ZoneNamesAssumption ==
    \A zid \in DOMAIN ZoneNames :
        /\ ZoneNames[zid] \in DnsNames /\ Encodable(ZoneNames[zid])
        /\ StripDots(ZoneNames[zid]) # EmptyName

VARIABLES
    phase,    \* "new", "stored" or "rejected"
    rule,     \* the submitted rule
    query,    \* the request evaluated last
    verdict   \* its outcome: None, "grant", "deny" or "raise"

vars == <<phase, rule, query, verdict>>

Absent(pattern) == pattern \in {None, EmptyName}   \* not rule.get("name_pattern")

(***************************************************************************)
(* _validate_scope_rules for one rule, with _resolve_zone_name.  A rule    *)
(* without a pattern needs record ids and its zone is not looked up.       *)
(***************************************************************************)
RuleAccepted(r) ==
    IF Absent(r.name_pattern)
    THEN r.record_ids # {}
    ELSE /\ r.zone_id \in DOMAIN ZoneNames
         /\ ValidateNamePattern(r.name_pattern, r.name_match, ZoneNames[r.zone_id])

(***************************************************************************)
(* What match_rules does with one rule.  The request's name is normalised  *)
(* before the loop; the pattern only once zone, type and id have matched.  *)
(***************************************************************************)
\* Mutant of Evaluate: the final "return False" is missing.
EvaluateFallsThrough(r, q) ==
    IF MatchRules({r}, q.zone, q.name, q.type, q.rid, q.need) THEN "grant" ELSE None

Evaluate(r, q) ==
    LET reached == /\ r.zone_id = q.zone
                   /\ "*" \in r.record_types \/ q.type \in r.record_types
                   /\ r.record_ids = {} \/ q.rid \in r.record_ids
                   /\ r.name_pattern # None /\ q.name \notin {None, EmptyName}
    IN  IF (q.name # None /\ ~Encodable(q.name)) \/ (reached /\ ~Encodable(r.name_pattern)) THEN "raise"
        ELSE IF MatchRules({r}, q.zone, q.name, q.type, q.rid, q.need) THEN "grant"
        ELSE "deny"

Init ==
    /\ phase = "new"
    /\ rule \in CandidateRules
    /\ query = None
    /\ verdict = None

\* mint_scoped_token: the rule is persisted only when validation returns.
Mint ==
    /\ phase = "new"
    /\ phase' = IF RuleAccepted(rule) THEN "stored" ELSE "rejected"
    /\ UNCHANGED <<rule, query, verdict>>

\* A proxied request of the minted token reaches match_rules.
Match(q) ==
    /\ phase = "stored"
    /\ query' = q
    /\ verdict' = Evaluate(rule, q)
    /\ UNCHANGED <<phase, rule>>

Next == Mint \/ \E q \in Queries : Match(q)

Spec == Init /\ [][Next]_vars

(***************************************************************************)
(* Properties.                                                             *)
(***************************************************************************)
TypeOK ==
    /\ phase \in {"new", "stored", "rejected"}
    /\ rule \in ScopeRule
    /\ query \in Queries \cup {None}
    /\ verdict \in IF query = None THEN {None} ELSE {"grant", "deny", "raise"}

Granted(match) ==
    verdict = "grant" /\ rule.name_pattern # None /\ rule.name_match = match

\* A granted wildcard stands for exactly one label: the canonical target is the
\* canonical pattern with one of its '*' labels replaced, every other label being
\* the same (name_matches: "never crosses a '.' boundary").
WildcardIsOneLabel ==
    Granted("wildcard") =>
        LET p == NormalizeFqdn(rule.name_pattern)
            t == NormalizeFqdn(query.name)
        IN  \E i \in DOMAIN p \cap DOMAIN t :
                p[i] = "*" /\ t = [p EXCEPT ![i] = t[i]]

\* No wildcard that passed validation ever grants the apex of its zone, however
\* the pattern or the apex is spelled.
WildcardExcludesApex ==
    Granted("wildcard") =>
        NormalizeFqdn(query.name) # NormalizeFqdn(ZoneNames[rule.zone_id])

\* An exact pattern that passed validation grants names of its zone only; "@"
\* grants only "@" itself, which Cloudflare reads as the apex.
ExactStaysInZone ==
    Granted("exact") /\ ~Absent(rule.name_pattern) =>
        \/ EndsInZone(query.name, ZoneNames[rule.zone_id])
        \/ NormalizeFqdn(query.name) = NormalizeFqdn(<<"@">>)

\* A request that skips the mutation lock can never be turned down for the name or
\* type the record then turns out to have: is_lock_exempt claims its rules are
\* "escape-proof", and match_rules must agree for every name and type.
ExemptIsEscapeProof ==
    verdict = "deny" => ~IsLockExempt({rule}, query.zone, query.rid, query.need)
=============================================================================
