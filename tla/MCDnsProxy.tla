----------------------------- MODULE MCDnsProxy -----------------------------
(***************************************************************************)
(* Small instances of DnsProxy: one record that exists, one id to create,  *)
(* two names, two types, and tokens whose scopes overlap on them.          *)
(***************************************************************************)
EXTENDS DnsProxy

CONSTANTS q1, q2, r1, r2, z1, z2

a == <<"a", "z">>
b == <<"b", "z">>

MCToASCII == [l \in {"a", "b", "z", "*"} |-> l]
MCStars == [l \in {"a", "b", "z", "*", ""} |-> IF l = "*" THEN 1 ELSE 0]
MCNames == {a, b}
MCTypes == {"A", "TXT"}

Rule(pattern, match, types, ids, allow) ==
    [zone_id |-> z1, name_pattern |-> pattern, name_match |-> match,
     record_types |-> types, record_ids |-> ids, allow |-> allow]

\* exact:  one name and one type;  wide: every name of the zone;
\* reader: a name, read only, and the deletion of TXT records;
\* pinned: the lock-exempt rule on r1;  typed: r1, as long as it is an A record.
MCRules ==
    [exact  |-> {Rule(a, "exact", {"A"}, {}, Needs)},
     wide   |-> {Rule(<<"*", "z">>, "wildcard", {"*"}, {}, Needs)},
     reader |-> {Rule(a, "exact", {"*"}, {}, {"read"}),
                 Rule(<<"*", "z">>, "wildcard", {"TXT"}, {}, {"delete"})},
     pinned |-> {Rule(None, "exact", {"*"}, {r1}, {"read", "write"})},
     typed  |-> {Rule(None, "exact", {"A"}, {r1}, {"write"})}]

Body(name, type) == [name |-> name, type |-> type]
NoBody == Body(None, None)

Call(t, m, z, r, bd) == [token |-> t, method |-> m, zone |-> z, rid |-> r, body |-> bd]

\* Every method, bodies that rename, retype, do both or neither, and a call under
\* a zone the record does not belong to.
CallsOf(t) ==
    {Call(t, m, z1, r1, NoBody) : m \in {"GET", "DELETE", "PATCH"}}
      \cup {Call(t, "PATCH", z1, r1, bd) : bd \in {Body(b, None), Body(None, "TXT")}}
      \cup {Call(t, "PUT", z1, r1, bd) : bd \in {Body(a, "A"), Body(b, "TXT"), Body(a, None)}}
      \cup {Call(t, "POST", z1, None, Body(a, "A")), Call(t, "PATCH", z2, r1, NoBody),
            Call(t, "POST", z1, None, Body(b, "A"))}

MCCalls == UNION {CallsOf(t) : t \in {"exact", "wide", "reader"}}

\* The mutations of the failure runs, where a lock-exempt token takes part.
FaultCalls ==
    {Call("exact", m, z1, r1, NoBody) : m \in {"PATCH", "DELETE"}}
      \cup {Call("exact", "PUT", z1, r1, Body(n, "A")) : n \in {a, b}}
      \cup {Call("exact", "GET", z1, r1, NoBody),
            Call("pinned", "PATCH", z1, r1, Body(b, None)),
            Call("typed", "PATCH", z1, r1, Body(b, None)),
            Call("wide", "PATCH", z1, r1, Body(None, "TXT")),
            Call("wide", "POST", z1, None, Body(b, "A"))}

MCInitialRecords ==
    {[r \in RecordIds |->
        IF r = r1 THEN [zone |-> z1, name |-> n, type |-> "A", content |-> None] ELSE Free] :
       n \in MCNames}
=============================================================================
