------------------------------ MODULE Listing ------------------------------
(***************************************************************************)
(* The list endpoints of routers/proxy_dns.py.  A client walks through the *)
(* pages of a list; for each of them the proxy fetches every page of the   *)
(* upstream list, one await after the other, keeps what the token may see  *)
(* and cuts the client's page out of it (filtering/list_filter.py).  The   *)
(* upstream list may change between any two of these steps.                *)
(*                                                                         *)
(* kind is "records" (list_dns_records of one zone), "zones" (list_zones)  *)
(* or "audit": the user's audit log (services/audit_service.py,            *)
(* routers/audit.py), which is not upstream but in the database, and only  *)
(* grows.  An item is a record [id, name, type], a zone [id] or an entry   *)
(* [id, ts, user]; ts is in seconds (a DATETIME column).                   *)
(***************************************************************************)
EXTENDS Scope, Integers

CONSTANTS
    Failed,          \* the answer of a request that failed
    Kinds,           \* subset of {"records", "zones", "audit"}
    Items,           \* kind -> the items the upstream list may hold
    InitialLists,    \* kind -> the lists there may be at the start
    RuleSets,        \* the rule sets a token may have
    Zone,            \* the zone whose records are listed
    Me,              \* the user whose audit log is listed
    UpstreamPerPage, \* per_page of the upstream requests (100 records, 50 zones)
    Pages, PerPages, \* what clients ask for; the first page starts a walk
    MaxPerPage,      \* the largest per_page of the audit log (200)
    MaxChanges       \* bound on the changes of the upstream list

ASSUME ListingAssumption ==
    /\ Kinds \subseteq {"records", "zones", "audit"}
    /\ UpstreamPerPage \in Nat \ {0} /\ MaxChanges \in Nat /\ MaxPerPage \in Nat
    /\ Pages \subseteq Int /\ PerPages \subseteq Int

\* No two items of a list have the same id; timestamps are numbers.
ASSUME ListsAssumption ==
    /\ \A k \in Kinds : \A list \in InitialLists[k] :
          /\ list \in Seq(Items[k])
          /\ \A i, j \in DOMAIN list : list[i].id = list[j].id => i = j
    /\ "audit" \in Kinds => \A entry \in Items["audit"] : entry.ts \in Int

\* What a client asks for, what has been fetched for it, and what it is told.
Requests == [page : Int \cup {None}, per_page : Int \cup {None}]
Fetches(k) == [page : Nat, items : Seq(Items[k])]
Answers(k) == [items : Seq(Items[k]), total_count : Nat, total_pages : Nat]

ASSUME NoneAssumption ==
    /\ None # Failed /\ None \notin Requests
    /\ \A k \in Kinds :
          None \notin Fetches(k) /\ None \notin Answers(k) /\ Failed \notin Answers(k)

VARIABLES
    kind,
    tokenRules, \* the rules of the client's token
    upstream,  \* the list upstream, a sequence of items
    changes,   \* how often it has changed
    ask,       \* the client's request [page, per_page], None when it has none
    fetched,   \* the upstream pages the proxy has: [page, items]
    answer,    \* the last answer [items, total_count, total_pages], None, or Failed
    got,       \* the items of the walk so far
    base,      \* the list when the walk began; None when there is no walk
    quiet,     \* nothing has changed, and no page failed, since the walk began
    over       \* the client has what it asked for

vars == <<kind, tokenRules, upstream, changes, ask, fetched, answer, got, base, quiet, over>>

Init ==
    /\ kind \in Kinds
    /\ tokenRules \in IF kind = "audit" THEN {{}} ELSE RuleSets
    /\ upstream \in InitialLists[kind]
    /\ changes = 0 /\ ask = None /\ fetched = None /\ answer = None
    /\ got = <<>> /\ base = None /\ quiet = TRUE /\ over = FALSE

(***************************************************************************)
(* Filtering and slicing.                                                  *)
(***************************************************************************)
\* The records a rule set lets its holder read: the test of filter_records.  That it
\* raises on a name it cannot encode ends the request as a failed page does, FetchFails.
Readable ==
    [rs \in RuleSets |->
        {item \in Items["records"] :
            MatchRules(rs, Zone, item.name, item.type, item.id, "read")}]

\* That test, the zone filter of list_zones, and the WHERE clause of list_audit_logs.
Visible(k, rs, item) ==
    CASE k = "records" -> item \in Readable[rs]
      [] k = "zones"   -> \E rule \in rs : rule.zone_id = item.id
      [] k = "audit"   -> item.user = Me

InScope(item) == Visible(kind, tokenRules, item)

\* The positions of the items the token may see, and the items at such positions, in
\* their order: the n-th position of kept has n of them up to it.
Seen(items) == {i \in DOMAIN items : InScope(items[i])}

At(items, kept) ==
    [n \in 1..Cardinality(kept) |->
        items[CHOOSE i \in kept : Cardinality(kept \cap (1..i)) = n]]

Filtered(items) == At(items, Seen(items))

\* Python's items[start:end], where a negative index counts from the end.
Slice(items, start, end) ==
    LET at(i) == IF i < 0 THEN Max({0, i + Len(items)}) ELSE Min({i, Len(items)})
    IN  SubSeq(items, at(start) + 1, at(end))

CeilDiv(n, d) == (n + d - 1) \div d

\* Mutant of Paginate: pages are numbered from zero.
PaginateFromZero(items, page, perPage) ==
    [items       |-> Slice(items, page * perPage, (page + 1) * perPage),
     total_count |-> Len(items),
     total_pages |-> IF perPage > 0 THEN CeilDiv(Len(items), perPage) ELSE 0]

\* Mutant of Paginate: only zero is kept from the division.
PaginateUnguarded(items, page, perPage) ==
    [items       |-> Slice(items, (page - 1) * perPage, (page - 1) * perPage + perPage),
     total_count |-> Len(items),
     total_pages |-> IF perPage # 0 THEN CeilDiv(Len(items), perPage) ELSE 0]

\* paginate_and_result_info
Paginate(items, page, perPage) ==
    [items       |-> Slice(items, (page - 1) * perPage, (page - 1) * perPage + perPage),
     total_count |-> Len(items),
     total_pages |-> IF perPage > 0 THEN CeilDiv(Len(items), perPage) ELSE 0]

\* Mutant of Page: the client's page is cut out before the filter is applied.
PageThenFilter(items, a) ==
    LET cut == Paginate(items, a.page, a.per_page)
    IN  [cut EXCEPT !.items = Filtered(cut.items)]

\* Mutant of Page: the filter is forgotten.
PageUnfiltered(items, a) == Paginate(items, a.page, a.per_page)

Page(items, a) == Paginate(Filtered(items), a.page, a.per_page)

(***************************************************************************)
(* The client.                                                             *)
(***************************************************************************)
\* get_audit_logs has its query parameters checked by FastAPI.
Rejected(page, perPage) == kind = "audit" /\ (page < 1 \/ perPage \notin 1..MaxPerPage)

\* A request comes in.  Without any rule for the zone Cloudflare is not asked.
Receive(page, perPage) ==
    /\ ask' = [page |-> page, per_page |-> perPage]
    /\ IF Rejected(page, perPage) THEN answer' = Failed /\ fetched' = None
       ELSE IF kind = "records" /\ ~ \E rule \in tokenRules : rule.zone_id = Zone
       THEN answer' = Page(<<>>, ask') /\ fetched' = None
       ELSE answer' = None /\ fetched' = [page |-> 1, items |-> <<>>]

Ask(page, perPage) ==
    /\ ask = None
    /\ Receive(page, perPage)
    /\ base' = IF page = 1 THEN upstream ELSE None
    /\ quiet' = TRUE
    /\ UNCHANGED <<kind, tokenRules, upstream, changes, got, over>>

\* A page number that int() does not take: the handler, or FastAPI, raises.
AskMalformed ==
    /\ ask = None
    /\ ask' = [page |-> None, per_page |-> None]
    /\ answer' = Failed
    /\ UNCHANGED <<kind, tokenRules, upstream, changes, fetched, got, base, quiet, over>>

\* An answer arrives; the client asks for the next page of its walk, if there is one.
NextPage ==
    /\ answer # None /\ ~over
    /\ IF answer # Failed /\ base # None /\ ask.page < answer.total_pages
       THEN Receive(ask.page + 1, ask.per_page) /\ UNCHANGED over
       ELSE over' = TRUE /\ UNCHANGED <<ask, fetched, answer>>
    /\ got' = IF answer = Failed THEN got ELSE got \o answer.items
    /\ UNCHANGED <<kind, tokenRules, upstream, changes, base, quiet>>

(***************************************************************************)
(* The proxy.                                                              *)
(***************************************************************************)
UpstreamPages == CeilDiv(Len(upstream), UpstreamPerPage)

UpstreamPage(p) == Slice(upstream, (p - 1) * UpstreamPerPage, p * UpstreamPerPage)

\* Mutant of FetchPage: the page number is not advanced.
FetchPageForever ==
    /\ fetched # None /\ kind # "audit"
    /\ \E items \in {fetched.items \o UpstreamPage(fetched.page)} :
          IF fetched.page >= UpstreamPages
          THEN answer' = Page(items, ask) /\ fetched' = None
          ELSE fetched' = fetched /\ UNCHANGED answer
    /\ UNCHANGED <<kind, tokenRules, upstream, changes, ask, got, base, quiet, over>>

\* One turn of the loop of list_all_records, _fetch_all_zones: a page arrives; after
\* the last one, as its result_info tells, the answer goes out.
FetchPage ==
    /\ fetched # None /\ kind # "audit"
    /\ \E items \in {fetched.items \o UpstreamPage(fetched.page)} :
          IF fetched.page >= UpstreamPages
          THEN answer' = Page(items, ask) /\ fetched' = None
          ELSE fetched' = [page |-> fetched.page + 1, items |-> items] /\ UNCHANGED answer
    /\ UNCHANGED <<kind, tokenRules, upstream, changes, ask, got, base, quiet, over>>

\* Mutant of Orders: the SELECT has no ORDER BY.
OrdersAny(rows) == SetToSeqs(rows)

\* The orders in which ORDER BY ts DESC may give rows; it has no tie-breaker.
Orders(rows) ==
    {s \in SetToSeqs(rows) : \A i, j \in DOMAIN s : i < j => s[i].ts >= s[j].ts}

\* list_audit_logs: the count and the page are read in one transaction, from one snapshot
\* (MySQL's REPEATABLE READ; on SQLite an entry may come between the two).  result_info
\* has no total_pages: the client works it out.
AuditPage ==
    /\ fetched # None /\ kind = "audit"
    /\ \E s \in Orders({e \in ToSet(upstream) : InScope(e)}) :
          answer' = Paginate(s, ask.page, ask.per_page)
    /\ fetched' = None
    /\ UNCHANGED <<kind, tokenRules, upstream, changes, ask, got, base, quiet, over>>

\* A page fails: the handler raises, except that _fetch_all_zones takes an error
\* answer of Cloudflare for the end of the list.
FetchFails ==
    /\ fetched # None
    /\ \/ answer' = Failed
       \/ kind = "zones" /\ answer' = Page(fetched.items, ask)
    /\ fetched' = None
    /\ quiet' = FALSE
    /\ UNCHANGED <<kind, tokenRules, upstream, changes, ask, got, base, over>>

(***************************************************************************)
(* Cloudflare: an item disappears, or one appears, anywhere in the list.   *)
(* Audit entries are only added; one may be committed after a later one.   *)
(***************************************************************************)
Change ==
    /\ changes < MaxChanges
    /\ changes' = changes + 1
    /\ quiet' = FALSE
    /\ \/ kind # "audit" /\ \E i \in DOMAIN upstream : upstream' = RemoveAt(upstream, i)
       \/ \E i \in 1..(IF kind = "audit" THEN 1 ELSE Len(upstream) + 1), item \in Items[kind] :
             /\ \A j \in DOMAIN upstream : upstream[j].id # item.id
             /\ upstream' = InsertAt(upstream, i, item)
    /\ UNCHANGED <<kind, tokenRules, ask, fetched, answer, got, base, over>>

Next ==
    \/ \E page \in Pages, perPage \in PerPages : Ask(page, perPage)
    \/ AskMalformed
    \/ NextPage \/ FetchPage \/ AuditPage \/ FetchFails \/ Change

\* The handler goes on, and the client follows the pages it is told of; the list
\* changes a bounded number of times.
Fairness == WF_vars(FetchPage \/ AuditPage) /\ WF_vars(NextPage)

Spec == Init /\ [][Next]_vars /\ Fairness

(***************************************************************************)
(* Properties.                                                             *)
(***************************************************************************)
Answered == answer # None /\ answer # Failed

TypeOK ==
    /\ kind \in Kinds /\ tokenRules \in RuleSets \cup {{}}
    /\ \A i \in DOMAIN upstream : upstream[i] \in Items[kind]
    /\ changes \in 0..MaxChanges
    /\ ask = None \/ answer = Failed \/ (ask.per_page \in PerPages /\ ask.page \in Int)
    /\ fetched = None \/ (fetched.page \in Nat /\ ask # None)
    /\ Answered => answer.total_count \in Nat /\ answer.total_pages \in Nat
    /\ quiet \in BOOLEAN /\ over \in BOOLEAN

\* Whatever page is asked for (zero, negative and past the end included) and however
\* the list changes meanwhile, an answer holds only what the token may see, and no
\* more of it than a page holds.
AnswerIsSound ==
    Answered =>
        /\ \A i \in DOMAIN answer.items : InScope(answer.items[i])
        /\ ask.per_page >= 0 => Len(answer.items) <= ask.per_page

\* A walk over a list that stays the same shows every item the token may see once,
\* in order, and nothing else: filtering leaves no gaps, repetitions or extra pages
\* (list_filter.py: "the authorized subset is what the client actually paginates
\* over, rather than the raw upstream page boundaries").
QuietWalkIsComplete ==
    over /\ base # None /\ quiet /\ ask.per_page > 0 /\ kind # "audit" =>
        /\ got = Filtered(base)
        /\ answer.total_count = Len(got)

\* What an answer says of the list, the item and page counts, depends only on what
\* the token may see: items outside its scope do not show in it.
CountsHideTheRest ==
    Answered /\ quiet /\ base # None =>
        LET count == Cardinality({i \in DOMAIN base : InScope(base[i])})
        IN  /\ answer.total_count = count
            /\ answer.total_pages =
                  IF ask.per_page > 0 THEN CeilDiv(count, ask.per_page) ELSE 0

\* A walk through the audit log, while entries are being written, shows every entry
\* there was when it began, perhaps twice, unless it shares its second with another
\* one of the user: those may be given in another order for every page, and be missed.
AuditWalkSkipsNothing ==
    LET mine == {e \in ToSet(upstream) : InScope(e)}
    IN  over /\ base # None /\ kind = "audit" /\ answer # Failed =>
            \A e \in mine \cap ToSet(base) :
                (\A d \in mine : d.ts = e.ts => d = e) => e \in ToSet(got)

\* Every request for a list ends, and so does the walk of a client that follows
\* total_pages, once the list has stopped changing.
WalkEnds == (ask # None) ~> over
=============================================================================
