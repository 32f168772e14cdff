----------------------------- MODULE Authorizer -----------------------------
(***************************************************************************)
(* The decision layer of authz/authorizer.py, over the records of the      *)
(* upstream DNS service and the calls clients make.                        *)
(*                                                                         *)
(* A call is [token, method, zone, rid, body]: the scoped token it was     *)
(* authenticated with, the path parameters and the parsed JSON body, of    *)
(* which only the keys "name" and "type" matter (None when absent).        *)
(***************************************************************************)
EXTENDS Scope

CONSTANTS
    Requests,   \* identities of the client requests
    RecordIds,  \* record ids; Cloudflare never uses one twice
    Zones,      \* zone ids
    Names,      \* record names
    Types,      \* record types
    Tokens,     \* scoped tokens
    Rules,      \* token -> its set of scope rules
    Calls,      \* the calls clients make
    Free,       \* a record id not assigned yet
    Gone        \* the id of a deleted record

Methods == {"GET", "POST", "PATCH", "PUT", "DELETE"}

Bodies == [name : Names \cup {None}, type : Types \cup {None}]

\* A record as Cloudflare returns it.  Its content is the request that wrote it
\* last: two images with the same content are the same version of the record.
Images == [zone : Zones, name : Names, type : Types, content : Requests \cup {None}]

ASSUME ConstantsAssumption ==
    /\ None \notin Requests \cup RecordIds \cup Calls
    /\ None \notin Images /\ Free \notin Images /\ Gone \notin Images /\ Free # Gone
    /\ None \notin Names \cup Types
    /\ Calls \subseteq [token : Tokens, method : Methods, zone : Zones,
                        rid : RecordIds \cup {None}, body : Bodies]
    /\ \A c \in Calls : c.rid = None <=> c.method = "POST"

\* The permission a method needs (GET, _MUTATION_OPS and POST).
Op(method) ==
    CASE method = "GET"    -> "read"
      [] method = "POST"   -> "create"
      [] method = "DELETE" -> "delete"
      [] OTHER             -> "write"

ByIdMutation(c) == c.method \in {"PATCH", "PUT", "DELETE"}

Grants(c, name, type, rid) ==
    MatchRules(Rules[c.token], c.zone, name, type, rid, Op(c.method))

\* Mutant of NeedsLock: PUT, which sends the whole record, goes without the lock.
NeedsLockUnlessPut(c) ==
    /\ c.method \in {"PATCH", "DELETE"}
    /\ ~IsLockExempt(Rules[c.token], c.zone, c.rid, Op(c.method))

NeedsLock(c) ==
    ByIdMutation(c) /\ ~IsLockExempt(Rules[c.token], c.zone, c.rid, Op(c.method))

\* PATCH and PUT: the new name and type must be granted too when they differ.
PostImageGranted(c, pre) ==
    LET post == MergePatchImage(pre, c.body)
    IN  \/ <<post.name, post.type>> = <<pre.name, pre.type>>
        \/ Grants(c, post.name, post.type, c.rid)

\* Mutant of Authorize: the image after the update is not looked at.
AuthorizeOldOnly(c, pre) ==
    CASE c.method = "POST" ->
            IF Grants(c, c.body.name, c.body.type, None) THEN "allow" ELSE "forbidden"
      [] c.method # "POST" /\ (pre = None \/ pre.zone # c.zone) -> "notfound"
      [] OTHER ->
            IF Grants(c, pre.name, pre.type, c.rid) THEN "allow" ELSE "notfound"

(***************************************************************************)
(* authorize_dns_request, given the image fetched for a by-id call (None   *)
(* when Cloudflare answered 404).                                          *)
(***************************************************************************)
Authorize(c, pre) ==
    CASE c.method = "POST" ->
            IF Grants(c, c.body.name, c.body.type, None) THEN "allow" ELSE "forbidden"
      [] c.method # "POST" /\ (pre = None \/ pre.zone # c.zone) -> "notfound"
      [] OTHER ->
            CASE ~Grants(c, pre.name, pre.type, c.rid) -> "notfound"
              [] /\ Grants(c, pre.name, pre.type, c.rid)
                 /\ c.method \in {"PATCH", "PUT"} /\ ~PostImageGranted(c, pre) -> "forbidden"
              [] OTHER -> "allow"

(***************************************************************************)
(* The upstream service, as src/ relies on it: it carries out a forwarded  *)
(* mutation as a whole and against the record as it is at that moment.     *)
(***************************************************************************)
Exists(image) == image \in Images

\* The image a PATCH or PUT of request q turns `image' into.
Updated(image, c, q) ==
    [zone    |-> image.zone,
     name    |-> MergePatchImage(image, c.body).name,
     type    |-> MergePatchImage(image, c.body).type,
     content |-> q]

\* The image a POST of request q creates.
Created(c, q) ==
    [zone |-> c.zone, name |-> c.body.name, type |-> c.body.type, content |-> q]

FullBody(c) == c.body.name # None /\ c.body.type # None

\* recs becomes recs2 when Cloudflare carries out call c of request q.
Effect(c, q, recs, recs2) ==
    \/ /\ c.method = "POST" /\ FullBody(c)
       /\ \E r \in RecordIds : /\ recs[r] = Free
                               /\ recs2 = [recs EXCEPT ![r] = Created(c, q)]
    \/ /\ ByIdMutation(c) /\ Exists(recs[c.rid]) /\ recs[c.rid].zone = c.zone
       /\ c.method = "PUT" => FullBody(c)
       /\ recs2 = [recs EXCEPT ![c.rid] =
                     IF c.method = "DELETE" THEN Gone ELSE Updated(recs[c.rid], c, q)]

(***************************************************************************)
(* What the scope of a token means: its holder may turn the records recs   *)
(* into what call c asks for.  A by-id mutation needs its permission for   *)
(* the record as it is and for the record as it becomes.                   *)
(***************************************************************************)
Permitted(c, recs) ==
    \/ /\ c.method = "POST"
       /\ MatchRules(Rules[c.token], c.zone, c.body.name, c.body.type, None, "create")
    \/ /\ ByIdMutation(c)
       /\ Exists(recs[c.rid]) /\ recs[c.rid].zone = c.zone
       /\ MatchRules(Rules[c.token], c.zone, recs[c.rid].name, recs[c.rid].type, c.rid,
                     IF c.method = "DELETE" THEN "delete" ELSE "write")
       /\ c.method # "DELETE" =>
             LET post == MergePatchImage(recs[c.rid], c.body)
             IN  MatchRules(Rules[c.token], c.zone, post.name, post.type, c.rid, "write")
=============================================================================
