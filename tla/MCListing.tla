------------------------------ MODULE MCListing ------------------------------
(***************************************************************************)
(* Listing over lists of up to five items and upstream pages of two, for   *)
(* tokens that see all, some, one or none of them, and over an audit log.  *)
(***************************************************************************)
EXTENDS Listing

MCToASCII == [l \in {"a", "b", "z", "*"} |-> l]
MCStars == [l \in {"a", "b", "z", "*", ""} |-> IF l = "*" THEN 1 ELSE 0]

Record(id, label, type) == [id |-> id, name |-> <<label, "z">>, type |-> type]

MCRecords == <<Record("r1", "a", "A"), Record("r2", "b", "A"), Record("r3", "a", "TXT"),
               Record("r4", "b", "TXT"), Record("r5", "a", "A")>>
MCZones == <<[id |-> "z1"], [id |-> "z2"], [id |-> "z3"]>>

Entry(id, ts, user) == [id |-> id, ts |-> ts, user |-> user]

\* Two entries of one second, and one of another user.
MCAudit == <<Entry("a1", 1, "me"), Entry("a2", 2, "me"), Entry("a3", 2, "other"),
             Entry("a4", 3, "me"), Entry("a5", 3, "me")>>

MCItems == [records |-> ToSet(MCRecords), zones |-> ToSet(MCZones), audit |-> ToSet(MCAudit)]

Starts(s) == {SubSeq(s, 1, n) : n \in 0..Len(s)}

MCInitialLists == [records |-> Starts(MCRecords), zones |-> Starts(MCZones),
                   audit |-> Starts(MCAudit)]

Rule(zone, pattern, match, types, ids, allow) ==
    [zone_id |-> zone, name_pattern |-> pattern, name_match |-> match,
     record_types |-> types, record_ids |-> ids, allow |-> allow]

MCRuleSets ==
    {{Rule("z1", <<"*", "z">>, "wildcard", {"*"}, {}, {"read"})},
     {Rule("z1", <<"a", "z">>, "exact", {"*"}, {}, {"read", "write"}),
      Rule("z3", <<"a", "z">>, "exact", {"A"}, {}, {"read"})},
     {Rule("z1", <<"*", "z">>, "wildcard", {"*"}, {}, {"write"}),
      Rule("z1", None, "exact", {"TXT"}, {"r4"}, {"read"})},
     {Rule("z2", <<"a", "z">>, "exact", {"*"}, {}, {"read"})}}

MCPages == {-1, 0, 1, 2}
MCPerPages == {-1, 0, 1, 2, 3}
=============================================================================
