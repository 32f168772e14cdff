------------------------------ MODULE MCScope ------------------------------
(***************************************************************************)
(* ScopeRules over every pattern of up to three labels, and those of four  *)
(* that a smaller alphabet gives.  The labels are an upper- and a lower-   *)
(* case spelling, the labels of the zone, the '*', a label holding a '*',  *)
(* the full-width asterisk (which IDNA maps to '*'), the apex marker and   *)
(* the empty label.                                                        *)
(***************************************************************************)
EXTENDS ScopeRules

MCToASCII == [l \in {"a", "A", "z", "c", "*", "a*", "wide*", "@"} |->
                CASE l = "A" -> "a" [] l = "wide*" -> "*" [] OTHER -> l]

MCStars == [l \in {"a", "A", "z", "c", "*", "a*", "wide*", "@", ""} |->
                IF l \in {"*", "a*"} THEN 1 ELSE 0]

MCZoneNames == [zid \in {"z1"} |-> <<"z", "c">>]

Patterns ==
    UNION {[1..n -> DOMAIN MCStars] : n \in 1..3}
      \cup {<<l>> \o p : l \in {"a", "wide*", "*"}, p \in [1..3 -> {"a", "z", "c", "*", ""}]}
      \cup {p \o <<l>> : l \in {"", "*"}, p \in [1..3 -> {"a", "z", "c", "*", ""}]}

Rule(zone, pattern, match, types, ids, allow) ==
    [zone_id |-> zone, name_pattern |-> pattern, name_match |-> match,
     record_types |-> types, record_ids |-> ids, allow |-> allow]

\* Rules by name, and rules that pin a record; one of a zone that does not exist.
MCRules ==
    {Rule("z1", p, m, {"*"}, {}, {"write"}) : p \in Patterns, m \in {"exact", "wildcard"}}
      \cup {Rule(z, p, "exact", ts, ids, {"write"}) :
              z \in {"z1", "z2"}, p \in {None, <<"">>, <<"a", "z", "c">>},
              ts \in {{"*"}, {"A"}, {"A", "*"}}, ids \in {{}, {"r1"}}}

Targets ==
    {None, <<"z", "c">>, <<"z", "c", "">>, <<"a">>, <<"@">>, <<"@", "">>, <<"z", "", "c">>}
      \cup {<<l>> \o <<"z", "c">> : l \in {"a", "A", "z", "*", "@"}}
      \cup {<<"z", "c">> \o <<l>> : l \in {"a", "c"}}
      \cup {<<l, m, "z", "c">> : l \in {"a", "*"}, m \in {"a", "*"}}

MCQueries ==
    [zone : {"z1"}, name : Targets, type : {"A", "TXT"}, rid : {"r1", "r2"}, need : {"write"}]
      \cup [zone : {"z2"}, name : {<<"a", "z", "c">>}, type : {"A"}, rid : {"r1"},
            need : {"write", "delete"}]
=============================================================================
