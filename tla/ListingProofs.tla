---------------------------- MODULE ListingProofs ----------------------------
(***************************************************************************)
(* What a list endpoint shows, for every list, rule set, page and page     *)
(* size, upstream page size and number of changes.                         *)
(***************************************************************************)
EXTENDS Listing, SequenceTheorems, FiniteSetTheorems, TLAPS

(***************************************************************************)
(* Minimum and maximum of two numbers, and rounding up.                    *)
(***************************************************************************)
\* What Slice takes from its bounds.
LEMMA MaxOfTwo == \A a, b \in Int : Max({a, b}) = IF a >= b THEN a ELSE b
BY DEF Max

LEMMA MinOfTwo == \A a, b \in Int : Min({a, b}) = IF a <= b THEN a ELSE b
BY DEF Min

\* The quotient's place between two multiples of the divisor.
LEMMA DivBounds ==
    ASSUME NEW n \in Nat, NEW d \in Nat \ {0}
    PROVE  n \div d \in Nat /\ d * (n \div d) <= n /\ n < d * (n \div d) + d
BY Z3

LEMMA ProductMonotonic ==
    ASSUME NEW a \in Int, NEW b \in Int, NEW d \in Nat, a <= b
    PROVE  a * d <= b * d
BY Z3

\* Page p is not the last one exactly if the pages up to it do not hold all n items.
LEMMA CeilDivBounds ==
    ASSUME NEW n \in Nat, NEW d \in Nat \ {0}, NEW p \in Nat
    PROVE  CeilDiv(n, d) \in Nat /\ (p < CeilDiv(n, d) <=> p * d < n)
<1> DEFINE m == n + d - 1
           q == m \div d
<1>1. m \in Nat
  OBVIOUS
<1> HIDE DEF m
<1>2. q \in Nat /\ d * q <= m /\ m < d * q + d
  BY <1>1, DivBounds
<1> HIDE DEF q
<1>3. CeilDiv(n, d) = q
  BY DEF CeilDiv, q, m
<1>4. ASSUME p < q PROVE p * d < n
  <2>1. (p + 1) * d <= q * d
    BY <1>2, <1>4, ProductMonotonic
  <2>2. (p + 1) * d = p * d + d
    BY Z3
  <2> QED BY <1>2, <2>1, <2>2, Z3 DEF m
<1>5. ASSUME q <= p PROVE n <= p * d
  <2>1. q * d <= p * d
    BY <1>2, <1>5, ProductMonotonic
  <2> QED BY <1>2, <2>1, Z3 DEF m
<1> QED BY <1>2, <1>3, <1>4, <1>5, Z3

(***************************************************************************)
(* The filter.                                                             *)
(***************************************************************************)
\* The positions of a list are finitely many.
LEMMA PositionsFinite ==
    ASSUME NEW S, NEW items \in Seq(S), NEW kept \in SUBSET DOMAIN items
    PROVE  IsFiniteSet(kept) /\ Cardinality(kept) \in Nat
<1>1. DOMAIN items = 1..Len(items) /\ Len(items) \in Nat
  BY LenProperties
<1>2. IsFiniteSet(1..Len(items))
  BY <1>1, FS_Interval
<1>3. IsFiniteSet(kept)
  BY <1>1, <1>2, FS_Subset
<1> QED BY <1>3, FS_CardinalityType

\* Every number up to the size of a set of positions is the rank of one of them: ranks
\* differ, and there are as many as positions.
LEMMA RankIsOnto ==
    ASSUME NEW S, NEW items \in Seq(S), NEW kept \in SUBSET DOMAIN items,
           NEW n \in 1..Cardinality(kept)
    PROVE  \E i \in kept : Cardinality(kept \cap (1..i)) = n
<1> DEFINE C == Cardinality(kept)
           rank == [i \in kept |-> Cardinality(kept \cap (1..i))]
<1>1. IsFiniteSet(kept) /\ C \in Nat
  BY PositionsFinite
<1>2. DOMAIN items = 1..Len(items) /\ Len(items) \in Nat
  BY LenProperties
<1>3. \A i \in kept :
         /\ IsFiniteSet(kept \cap (1..i))
         /\ Cardinality(kept \cap (1..i)) \in Nat
         /\ Cardinality(kept \cap (1..i)) <= C
  <2> TAKE i \in kept
  <2>1. kept \cap (1..i) \in SUBSET kept
    OBVIOUS
  <2>2. IsFiniteSet(kept \cap (1..i)) /\ Cardinality(kept \cap (1..i)) <= C
    BY <1>1, <2>1, FS_Subset
  <2> QED BY <2>2, FS_CardinalityType
<1>4. \A i \in kept : Cardinality(kept \cap (1..i)) # 0
  <2> TAKE i \in kept
  <2>1. i \in kept \cap (1..i)
    BY <1>2
  <2>2. kept \cap (1..i) # {}
    BY <2>1
  <2> QED BY <1>3, <2>2, FS_EmptySet
<1>5. ASSUME NEW i \in kept, NEW j \in kept, i < j
      PROVE  Cardinality(kept \cap (1..i)) # Cardinality(kept \cap (1..j))
  <2>1. kept \cap (1..i) \in SUBSET (kept \cap (1..j))
    BY <1>2, <1>5
  <2>2. j \in kept \cap (1..j) /\ j \notin kept \cap (1..i)
    BY <1>2, <1>5
  <2>3. kept \cap (1..i) # kept \cap (1..j)
    BY <2>2
  <2> QED BY <1>3, <2>1, <2>3, FS_Subset
<1>6. rank \in [kept -> 1..C]
  <2>1. \A i \in kept : Cardinality(kept \cap (1..i)) \in 1..C
    <3> TAKE i \in kept
    <3> DEFINE c == Cardinality(kept \cap (1..i))
    <3>1. c \in Nat /\ c <= C /\ c # 0
      BY <1>3, <1>4
    <3> HIDE DEF c, C
    <3>2. c \in 1..C
      BY <1>1, <3>1
    <3> QED BY <3>2 DEF c
  <2> QED BY <2>1
<1>7. \A i, j \in kept : rank[i] = rank[j] => i = j
  BY <1>2, <1>5
<1>8. rank \in Injection(kept, 1..C)
  BY <1>6, <1>7 DEF Injection, IsInjective
<1>9. IsFiniteSet(1..C) /\ Cardinality(1..C) = C
  BY <1>1, FS_Interval
<1>10. rank \in Surjection(kept, 1..C)
  <2> HIDE DEF rank, C
  <2>1. C = Cardinality(kept)
    BY DEF C
  <2> QED BY <1>8, <1>9, <2>1, FS_Injection
<1>11. \E i \in kept : rank[i] = n
  BY <1>10 DEF Surjection
<1> QED BY <1>11

\* At is a list of the items at the positions it is given.
LEMMA AtProperties ==
    ASSUME NEW S, NEW items \in Seq(S), NEW kept \in SUBSET DOMAIN items
    PROVE  /\ At(items, kept) \in Seq(S)
           /\ Len(At(items, kept)) = Cardinality(kept)
           /\ \A n \in 1..Cardinality(kept) : \E i \in kept : At(items, kept)[n] = items[i]
<1>1. Cardinality(kept) \in Nat
  BY PositionsFinite
<1>2. ASSUME NEW n \in 1..Cardinality(kept)
      PROVE  (CHOOSE i \in kept : Cardinality(kept \cap (1..i)) = n) \in kept
  <2>1. \E i \in kept : Cardinality(kept \cap (1..i)) = n
    BY RankIsOnto
  <2> QED BY <2>1
<1> DEFINE nth(n) == CHOOSE i \in kept : Cardinality(kept \cap (1..i)) = n
<1>3. At(items, kept) = [n \in 1..Cardinality(kept) |-> items[nth(n)]]
  BY DEF At
<1>4. \A n \in 1..Cardinality(kept) : nth(n) \in kept
  BY <1>2
<1> HIDE DEF nth
<1>5. DOMAIN items = 1..Len(items) /\ \A i \in DOMAIN items : items[i] \in S
  BY LenProperties, ElementOfSeq
<1>6. \A n \in 1..Cardinality(kept) : items[nth(n)] \in S
  BY <1>4, <1>5
<1>7. At(items, kept) \in Seq(S) /\ Len(At(items, kept)) = Cardinality(kept)
  BY <1>1, <1>3, <1>6
<1> QED BY <1>3, <1>4, <1>7

(***************************************************************************)
(* Python's slices, and the client's pages.                                *)
(***************************************************************************)
\* Where an index of a slice falls in a list of n items.
Clip(i, n) ==
    IF i < 0 THEN (IF i + n <= 0 THEN 0 ELSE i + n) ELSE (IF i <= n THEN i ELSE n)

LEMMA SliceIsSubSeq ==
    ASSUME NEW S, NEW items \in Seq(S), NEW start \in Int, NEW end \in Int
    PROVE  Slice(items, start, end) =
              SubSeq(items, Clip(start, Len(items)) + 1, Clip(end, Len(items)))
<1>1. Len(items) \in Nat
  BY LenProperties
<1> DEFINE at(i) == IF i < 0 THEN Max({0, i + Len(items)}) ELSE Min({i, Len(items)})
<1>2. \A i \in Int : at(i) = Clip(i, Len(items))
  <2> TAKE i \in Int
  <2>1. Max({0, i + Len(items)}) = IF 0 >= i + Len(items) THEN 0 ELSE i + Len(items)
    BY <1>1, MaxOfTwo
  <2>2. Min({i, Len(items)}) = IF i <= Len(items) THEN i ELSE Len(items)
    BY <1>1, MinOfTwo
  <2> QED BY <1>1, <2>1, <2>2 DEF Clip
<1>3. Slice(items, start, end) = SubSeq(items, at(start) + 1, at(end))
  BY DEF Slice
<1> HIDE DEF at
<1> QED BY <1>2, <1>3

\* A slice holds items of the list, and no more than there are between its bounds.
LEMMA SliceProperties ==
    ASSUME NEW S, NEW items \in Seq(S), NEW start \in Int, NEW end \in Int
    PROVE  /\ Slice(items, start, end) \in Seq(S)
           /\ \A i \in DOMAIN Slice(items, start, end) :
                 \E j \in DOMAIN items : Slice(items, start, end)[i] = items[j]
           /\ start <= end => Len(Slice(items, start, end)) <= end - start
<1> DEFINE n == Len(items)
           a == Clip(start, n)
           b == Clip(end, n)
           cut == SubSeq(items, a + 1, b)
<1>1. n \in Nat /\ DOMAIN items = 1..n /\ \A j \in 1..n : items[j] \in S
  BY LenProperties, ElementOfSeq
<1>2. Slice(items, start, end) = cut
  BY SliceIsSubSeq
<1>3. a \in 0..n /\ b \in 0..n /\ (start <= end => b - a <= end - start)
  <2> HIDE DEF n
  <2> QED BY <1>1 DEF Clip
<1> HIDE DEF n, a, b
<1>4. \A j \in (a + 1)..b : items[j] \in S
  BY <1>1, <1>3
<1>5. /\ cut \in Seq(S)
      /\ Len(cut) = IF a + 1 <= b THEN b - (a + 1) + 1 ELSE 0
      /\ \A i \in 1..(b - (a + 1) + 1) : cut[i] = items[a + 1 + i - 1]
  BY <1>3, <1>4, SubSeqProperties
<1> HIDE DEF cut
<1>6. DOMAIN cut = 1..Len(cut) /\ Len(cut) \in Nat
  BY <1>5, LenProperties
<1>7. \A i \in DOMAIN cut : \E j \in DOMAIN items : cut[i] = items[j]
  <2> TAKE i \in DOMAIN cut
  <2>1. i \in Nat /\ i >= 1 /\ i <= Len(cut)
    BY <1>6
  <2>2. i \in 1..(b - (a + 1) + 1) /\ a + 1 + i - 1 \in 1..n
    BY <1>1, <1>3, <1>5, <2>1
  <2> QED BY <1>1, <1>5, <2>2
<1>8. start <= end => Len(cut) <= end - start
  BY <1>3, <1>5
<1> QED BY <1>2, <1>5, <1>7, <1>8

\* paginate_and_result_info, whatever page is asked for.
LEMMA PaginateProperties ==
    ASSUME NEW S, NEW items \in Seq(S), NEW page \in Int, NEW perPage \in Int
    PROVE  LET answered == Paginate(items, page, perPage)
           IN  /\ answered \in [items : Seq(S), total_count : Nat, total_pages : Nat]
               /\ answered.total_count = Len(items)
               /\ perPage > 0 => answered.total_pages = CeilDiv(Len(items), perPage)
               /\ perPage <= 0 => answered.total_pages = 0
               /\ \A i \in DOMAIN answered.items :
                     \E j \in DOMAIN items : answered.items[i] = items[j]
               /\ perPage >= 0 => Len(answered.items) <= perPage
<1> DEFINE start == (page - 1) * perPage
           cut == Slice(items, start, start + perPage)
           pages == IF perPage > 0 THEN CeilDiv(Len(items), perPage) ELSE 0
<1>1. Len(items) \in Nat
  BY LenProperties
<1>2. start \in Int
  OBVIOUS
<1>3. Paginate(items, page, perPage) =
         [items |-> cut, total_count |-> Len(items), total_pages |-> pages]
  BY DEF Paginate
<1> HIDE DEF start
<1>4. /\ cut \in Seq(S)
      /\ \A i \in DOMAIN cut : \E j \in DOMAIN items : cut[i] = items[j]
      /\ start <= start + perPage => Len(cut) <= start + perPage - start
  BY <1>2, SliceProperties
<1> HIDE DEF cut
<1>5. pages \in Nat
  BY <1>1, CeilDivBounds
<1>6. perPage >= 0 => Len(cut) <= perPage
  BY <1>2, <1>4
<1> QED BY <1>1, <1>3, <1>4, <1>5, <1>6

(***************************************************************************)
(* The inductive invariant.                                                *)
(***************************************************************************)
\* What the holder of rs sees of a list of kind k, and its page of it.
SeenBy(k, rs, items) == {i \in DOMAIN items : Visible(k, rs, items[i])}
KeptBy(k, rs, items) == At(items, SeenBy(k, rs, items))
PageOf(k, rs, items, a) == Paginate(KeptBy(k, rs, items), a.page, a.per_page)

Listed(k, list) ==
    /\ list \in Seq(Items[k])
    /\ \A i, j \in DOMAIN list : list[i].id = list[j].id => i = j

\* The user's entries, in a list of which an entry has a rank; whether it is alone in its
\* second there.
OfMe(list) == {e \in ToSet(list) : e.user = Me}
Rank(list, e) == Cardinality({d \in OfMe(list) : d.ts >= e.ts})
Alone(list, e) == \A d \in OfMe(list) : d.ts = e.ts => d = e

ShownOrAhead(e) ==
    \/ e \in ToSet(got)
    \/ ~over /\ answer = None /\ Rank(upstream, e) > (ask.page - 1) * ask.per_page
    \/ ~over /\ answer # None /\ e \in ToSet(answer.items)
    \/ /\ ~over /\ answer # None
       /\ Rank(upstream, e) > ask.page * ask.per_page
       /\ ask.page * ask.per_page < answer.total_count

TypeInv ==
    /\ kind \in Kinds
    /\ (kind = "audit" /\ tokenRules = {}) \/ (kind # "audit" /\ tokenRules \in RuleSets)
    /\ Listed(kind, upstream)
    /\ changes \in 0..MaxChanges
    /\ ask \in Requests \cup {None}
    /\ fetched \in Fetches(kind) \cup {None}
    /\ answer \in Answers(kind) \cup {None, Failed}
    /\ got \in Seq(Items[kind])
    /\ base \in Seq(Items[kind]) \cup {None}
    /\ quiet \in BOOLEAN /\ over \in BOOLEAN

\* The life of a request: nothing is left of an earlier one, an answer ends it, and one
\* that is not refused has numbers in it.
ControlInv ==
    /\ ask = None => fetched = None /\ answer = None /\ got = <<>> /\ base = None /\ ~over
    /\ ask # None /\ answer # Failed => ask.page \in Int /\ ask.per_page \in PerPages
    /\ fetched # None => ask # None /\ answer = None /\ fetched.page >= 1
    /\ over => answer # None
    /\ base # None => ask # None /\ ask.page \in Int /\ ask.page >= 1 /\ ask.per_page \in PerPages
    /\ kind = "audit" /\ ask # None /\ answer # Failed => ask.per_page >= 1

\* What has been fetched is the beginning of the list, up to the next upstream page; the
\* walk has shown what comes before the page asked for, or everything when it is over.
FetchedUpTo(list, f) ==
    LET at == (f.page - 1) * UpstreamPerPage
    IN  at <= Len(list) /\ f.items = SubSeq(list, 1, at)

Walked(kept, r, shown, done) ==
    LET at == (r.page - 1) * r.per_page
    IN  \/ done /\ shown = kept
        \/ ~done /\ at <= Len(kept) /\ shown = SubSeq(kept, 1, at)

\* While nothing has changed, the walk goes through what the token may see of the list it
\* began with, and an answer is a page of that.
QuietInv ==
    base # None /\ quiet =>
        /\ base = upstream
        /\ kind # "audit" =>
              /\ answer # Failed
              /\ fetched # None => FetchedUpTo(base, fetched)
              /\ Answered => answer = PageOf(kind, tokenRules, base, ask)
              /\ ask.per_page > 0 => Walked(KeptBy(kind, tokenRules, base), ask, got, over)
        /\ kind = "audit" /\ Answered => answer.total_count = Cardinality(OfMe(upstream))

\* An entry that was there when the walk began, and is alone in its second, has been shown
\* or is still ahead: new entries only push it further down.
AuditInv ==
    kind = "audit" /\ base # None =>
        /\ ToSet(base) \subseteq ToSet(upstream)
        /\ Answered => answer.total_pages = CeilDiv(answer.total_count, ask.per_page)
        /\ answer # Failed =>
              \A e \in OfMe(upstream) \cap ToSet(base) : Alone(upstream, e) => ShownOrAhead(e)

\* TypedInv is inductive by itself; QuietInv and AuditInv each are so together with it.
TypedInv == TypeInv /\ ControlInv /\ AnswerIsSound

(***************************************************************************)
(* Lists upstream that grow and shrink.                                    *)
(***************************************************************************)
\* longer is list with item at position i.
Inserted(longer, list, i, item) ==
    /\ Len(longer) = Len(list) + 1
    /\ \A j \in 1..(Len(list) + 1) :
          longer[j] = IF j < i THEN list[j] ELSE IF j = i THEN item ELSE list[j - 1]

LEMMA InsertProperties ==
    ASSUME NEW S, NEW list \in Seq(S), NEW i \in 1..(Len(list) + 1), NEW item \in S
    PROVE  /\ InsertAt(list, i, item) \in Seq(S)
           /\ Inserted(InsertAt(list, i, item), list, i, item)
<1> DEFINE n == Len(list)
           front == SubSeq(list, 1, i - 1)
           back == SubSeq(list, i, n)
<1>1. n \in Nat /\ i \in Nat /\ \A j \in 1..n : list[j] \in S
  BY LenProperties, ElementOfSeq
<1>2. front \in Seq(S) /\ Len(front) = i - 1 /\ \A j \in 1..(i - 1) : front[j] = list[j]
  <2> HIDE DEF n
  <2>1. \A j \in 1..(i - 1) : list[j] \in S
    BY <1>1 DEF n
  <2>2. /\ front \in Seq(S)
        /\ Len(front) = IF 1 <= i - 1 THEN i - 1 - 1 + 1 ELSE 0
        /\ \A j \in 1..(i - 1 - 1 + 1) : front[j] = list[1 + j - 1]
    BY <1>1, <2>1, SubSeqProperties
  <2> QED BY <1>1, <2>2
<1>3. back \in Seq(S) /\ Len(back) = n - i + 1 /\ \A j \in 1..(n - i + 1) : back[j] = list[i + j - 1]
  <2> HIDE DEF n
  <2>1. \A j \in i..n : list[j] \in S
    BY <1>1
  <2>2. /\ back \in Seq(S)
        /\ Len(back) = IF i <= n THEN n - i + 1 ELSE 0
        /\ \A j \in 1..(n - i + 1) : back[j] = list[i + j - 1]
    BY <1>1, <2>1, SubSeqProperties
  <2> QED BY <1>1, <2>2 DEF n
<1>4. InsertAt(list, i, item) = (front \o <<item>>) \o back
  BY DEF InsertAt
<1> HIDE DEF front, back
<1>5. /\ front \o <<item>> \in Seq(S)
      /\ Len(front \o <<item>>) = i
      /\ \A j \in 1..i : (front \o <<item>>)[j] = IF j <= i - 1 THEN front[j] ELSE item
  BY <1>1, <1>2
<1> DEFINE start == front \o <<item>>
<1> HIDE DEF start, n
<1>6. /\ start \o back \in Seq(S)
      /\ Len(start \o back) = n + 1
      /\ \A j \in 1..(n + 1) : (start \o back)[j] = IF j <= i THEN start[j] ELSE back[j - i]
  <2>1. start \in Seq(S) /\ Len(start) = i
    BY <1>5 DEF start
  <2>2. /\ start \o back \in Seq(S)
        /\ Len(start \o back) = Len(start) + Len(back)
        /\ \A j \in 1..(Len(start) + Len(back)) :
              (start \o back)[j] = IF j <= Len(start) THEN start[j] ELSE back[j - Len(start)]
    BY <1>3, <2>1, ConcatProperties
  <2>3. Len(start) + Len(back) = n + 1
    BY <1>1, <1>3, <2>1
  <2> QED BY <2>1, <2>2, <2>3
<1>7. \A j \in 1..(n + 1) :
         (start \o back)[j] = IF j < i THEN list[j] ELSE IF j = i THEN item ELSE list[j - 1]
  <2> TAKE j \in 1..(n + 1)
  <2>1. CASE j < i
    BY <1>1, <1>2, <1>5, <1>6, <2>1 DEF start
  <2>2. CASE j = i
    BY <1>1, <1>5, <1>6, <2>2 DEF start
  <2>3. CASE j > i
    <3>1. j - i \in 1..(n - i + 1)
      BY <1>1, <2>3
    <3>2. i + (j - i) - 1 = j - 1
      BY <1>1, <2>3
    <3> QED BY <1>1, <1>3, <1>6, <2>3, <3>1, <3>2
  <2>4. j \in Int /\ i \in Int
    BY <1>1
  <2>5. j < i \/ j = i \/ j > i
    BY <2>4
  <2> QED BY <2>1, <2>2, <2>3, <2>5
<1> QED BY <1>4, <1>6, <1>7 DEF start, n, Inserted

LEMMA RemoveProperties ==
    ASSUME NEW S, NEW list \in Seq(S), NEW i \in 1..Len(list)
    PROVE  /\ RemoveAt(list, i) \in Seq(S)
           /\ Len(RemoveAt(list, i)) = Len(list) - 1
           /\ \A j \in 1..(Len(list) - 1) :
                 RemoveAt(list, i)[j] = IF j < i THEN list[j] ELSE list[j + 1]
<1> DEFINE n == Len(list)
           front == SubSeq(list, 1, i - 1)
           back == SubSeq(list, i + 1, n)
<1>1. n \in Nat /\ i \in Nat /\ \A j \in 1..n : list[j] \in S
  BY LenProperties, ElementOfSeq
<1>2. front \in Seq(S) /\ Len(front) = i - 1 /\ \A j \in 1..(i - 1) : front[j] = list[j]
  <2> HIDE DEF n
  <2>1. \A j \in 1..(i - 1) : list[j] \in S
    BY <1>1 DEF n
  <2>2. /\ front \in Seq(S)
        /\ Len(front) = IF 1 <= i - 1 THEN i - 1 - 1 + 1 ELSE 0
        /\ \A j \in 1..(i - 1 - 1 + 1) : front[j] = list[1 + j - 1]
    BY <1>1, <2>1, SubSeqProperties
  <2> QED BY <1>1, <2>2
<1>3. back \in Seq(S) /\ Len(back) = n - i /\ \A j \in 1..(n - i) : back[j] = list[i + j]
  <2> HIDE DEF n
  <2>1. \A j \in (i + 1)..n : list[j] \in S
    BY <1>1
  <2>2. /\ back \in Seq(S)
        /\ Len(back) = IF i + 1 <= n THEN n - (i + 1) + 1 ELSE 0
        /\ \A j \in 1..(n - (i + 1) + 1) : back[j] = list[i + 1 + j - 1]
    BY <1>1, <2>1, SubSeqProperties
  <2>3. i <= n
    BY DEF n
  <2> QED BY <1>1, <2>2, <2>3
<1>4. RemoveAt(list, i) = front \o back
  BY DEF RemoveAt
<1> HIDE DEF front, back
<1>5. i <= n
  OBVIOUS
<1> HIDE DEF n
<1>6. /\ front \o back \in Seq(S)
      /\ Len(front \o back) = n - 1
      /\ \A j \in 1..(n - 1) : (front \o back)[j] = IF j <= i - 1 THEN front[j] ELSE back[j - (i - 1)]
  <2>1. /\ front \o back \in Seq(S)
        /\ Len(front \o back) = Len(front) + Len(back)
        /\ \A j \in 1..(Len(front) + Len(back)) :
              (front \o back)[j] = IF j <= Len(front) THEN front[j] ELSE back[j - Len(front)]
    BY <1>2, <1>3, ConcatProperties
  <2>2. Len(front) + Len(back) = n - 1
    BY <1>1, <1>2, <1>3
  <2> QED BY <1>2, <2>1, <2>2
<1>7. \A j \in 1..(n - 1) : (front \o back)[j] = IF j < i THEN list[j] ELSE list[j + 1]
  <2> TAKE j \in 1..(n - 1)
  <2>1. CASE j < i
    BY <1>1, <1>2, <1>6, <2>1
  <2>2. CASE j >= i
    <3>1. j - (i - 1) \in 1..(n - i) /\ i + (j - (i - 1)) = j + 1
      BY <1>1, <2>2
    <3> QED BY <1>1, <1>3, <1>6, <2>2, <3>1
  <2>3. j < i \/ j >= i
    BY <1>1
  <2> QED BY <2>1, <2>2, <2>3
<1> QED BY <1>4, <1>6, <1>7 DEF n

\* Another item leaves the ids of a list different, and what it holds in it.
LEMMA InsertListed ==
    ASSUME NEW k, NEW list, Listed(k, list), NEW i \in 1..(Len(list) + 1), NEW item \in Items[k],
           \A j \in DOMAIN list : list[j].id # item.id
    PROVE  /\ Listed(k, InsertAt(list, i, item))
           /\ ToSet(list) \subseteq ToSet(InsertAt(list, i, item))
<1> DEFINE n == Len(list)
           longer == InsertAt(list, i, item)
<1>1. list \in Seq(Items[k]) /\ n \in Nat /\ DOMAIN list = 1..n
  BY LenProperties DEF Listed
<1>2. /\ longer \in Seq(Items[k])
      /\ Len(longer) = n + 1
      /\ \A j \in 1..(n + 1) :
            longer[j] = IF j < i THEN list[j] ELSE IF j = i THEN item ELSE list[j - 1]
  <2>1. longer \in Seq(Items[k]) /\ Inserted(longer, list, i, item)
    BY <1>1, InsertProperties
  <2> QED BY <2>1 DEF Inserted
<1>3. DOMAIN longer = 1..(n + 1)
  BY <1>2, LenProperties
<1>4. \A a, b \in 1..n : list[a].id = list[b].id => a = b
  BY <1>1 DEF Listed
<1> DEFINE old(j) == IF j < i THEN j ELSE j - 1
<1>5. \A j \in 1..(n + 1) : j # i => old(j) \in 1..n /\ longer[j] = list[old(j)]
  <2> HIDE DEF n, longer
  <2> QED BY <1>1, <1>2 DEF n
<1>6. longer[i] = item
  BY <1>1, <1>2
<1>7. ASSUME NEW a \in 1..(n + 1), NEW b \in 1..(n + 1), longer[a].id = longer[b].id
      PROVE  a = b
  <2>1. CASE a = i
    BY <1>1, <1>5, <1>6, <1>7, <2>1
  <2>2. CASE b = i
    BY <1>1, <1>5, <1>6, <1>7, <2>2
  <2>3. CASE a # i /\ b # i
    <3>1. old(a) = old(b)
      BY <1>4, <1>5, <1>7, <2>3
    <3> QED BY <1>1, <2>3, <3>1
  <2> QED BY <2>1, <2>2, <2>3
<1>8. \A j \in 1..n : \E l \in 1..(n + 1) : longer[l] = list[j]
  <2> TAKE j \in 1..n
  <2>1. CASE j < i
    BY <1>1, <1>2, <2>1
  <2>2. CASE j >= i
    <3>1. j + 1 \in 1..(n + 1) /\ ~(j + 1 < i) /\ j + 1 # i /\ (j + 1) - 1 = j
      BY <1>1, <2>2
    <3> QED BY <1>2, <3>1
  <2> QED BY <1>1, <2>1, <2>2
<1>9. ToSet(list) \subseteq ToSet(longer)
  BY <1>1, <1>3, <1>8 DEF ToSet
<1> QED BY <1>2, <1>3, <1>7, <1>9 DEF Listed

\* So does removing one.
LEMMA RemoveListed ==
    ASSUME NEW k, NEW list, Listed(k, list), NEW i \in DOMAIN list
    PROVE  Listed(k, RemoveAt(list, i))
<1> DEFINE n == Len(list)
           shorter == RemoveAt(list, i)
<1>1. list \in Seq(Items[k]) /\ n \in Nat /\ DOMAIN list = 1..n
  BY LenProperties DEF Listed
<1>2. /\ shorter \in Seq(Items[k])
      /\ Len(shorter) = n - 1
      /\ \A j \in 1..(n - 1) : shorter[j] = IF j < i THEN list[j] ELSE list[j + 1]
  BY <1>1, RemoveProperties
<1>3. DOMAIN shorter = 1..(n - 1)
  BY <1>2, LenProperties
<1>4. \A a, b \in 1..n : list[a].id = list[b].id => a = b
  BY <1>1 DEF Listed
<1> DEFINE old(j) == IF j < i THEN j ELSE j + 1
<1>5. \A j \in 1..(n - 1) : old(j) \in 1..n /\ shorter[j] = list[old(j)]
  <2> HIDE DEF n, shorter
  <2> QED BY <1>1, <1>2
<1>6. ASSUME NEW a \in 1..(n - 1), NEW b \in 1..(n - 1), shorter[a].id = shorter[b].id
      PROVE  a = b
  <2>1. old(a) = old(b)
    BY <1>4, <1>5, <1>6
  <2> QED BY <1>1, <2>1
<1> QED BY <1>2, <1>3, <1>6 DEF Listed

(***************************************************************************)
(* What an answer holds.                                                   *)
(***************************************************************************)
\* The operators of Listing are those of the invariant.
LEMMA SameFilter ==
    \A items, a : Filtered(items) = KeptBy(kind, tokenRules, items)
                  /\ Page(items, a) = PageOf(kind, tokenRules, items, a)
BY DEF Filtered, Seen, InScope, KeptBy, SeenBy, Page, PageOf

LEMMA KeptProperties ==
    ASSUME NEW k, NEW rs, NEW S, NEW items \in Seq(S)
    PROVE  /\ KeptBy(k, rs, items) \in Seq(S)
           /\ Len(KeptBy(k, rs, items)) = Cardinality(SeenBy(k, rs, items))
           /\ \A n \in DOMAIN KeptBy(k, rs, items) : Visible(k, rs, KeptBy(k, rs, items)[n])
<1> DEFINE seen == SeenBy(k, rs, items)
           kept == KeptBy(k, rs, items)
<1>1. seen \in SUBSET DOMAIN items /\ \A i \in seen : Visible(k, rs, items[i])
  BY DEF SeenBy
<1>2. kept = At(items, seen)
  BY DEF KeptBy
<1> HIDE DEF seen, kept
<1>3. /\ kept \in Seq(S)
      /\ Len(kept) = Cardinality(seen)
      /\ \A n \in 1..Cardinality(seen) : \E i \in seen : kept[n] = items[i]
  BY <1>1, <1>2, AtProperties
<1>4. DOMAIN kept = 1..Cardinality(seen)
  BY <1>3, LenProperties
<1>5. \A n \in DOMAIN kept : Visible(k, rs, kept[n])
  BY <1>1, <1>3, <1>4
<1> QED BY <1>3, <1>5 DEF seen, kept

\* An answer a to the request r shows only what may be seen, and not too much of it.
Sound(k, rs, r, a) ==
    /\ \A i \in DOMAIN a.items : Visible(k, rs, a.items[i])
    /\ r.per_page >= 0 => Len(a.items) <= r.per_page

\* A page of a list of items that may be seen is sound.
LEMMA VisibleListSound ==
    ASSUME NEW k, NEW rs, NEW list \in Seq(Items[k]), \A i \in DOMAIN list : Visible(k, rs, list[i]),
           NEW r, r.page \in Int, r.per_page \in Int
    PROVE  /\ Paginate(list, r.page, r.per_page) \in Answers(k)
           /\ Sound(k, rs, r, Paginate(list, r.page, r.per_page))
<1> DEFINE a == Paginate(list, r.page, r.per_page)
<1>1. /\ a \in [items : Seq(Items[k]), total_count : Nat, total_pages : Nat]
      /\ \A i \in DOMAIN a.items : \E j \in DOMAIN list : a.items[i] = list[j]
      /\ r.per_page >= 0 => Len(a.items) <= r.per_page
  BY PaginateProperties
<1> HIDE DEF a
<1>2. \A i \in DOMAIN a.items : Visible(k, rs, a.items[i])
  BY <1>1
<1>3. a \in Answers(k) /\ Sound(k, rs, r, a)
  BY <1>1, <1>2 DEF Answers, Sound
<1> QED BY <1>3 DEF a

LEMMA PageProperties ==
    ASSUME NEW k, NEW rs, NEW items \in Seq(Items[k]), NEW r, r.page \in Int, r.per_page \in Int
    PROVE  /\ PageOf(k, rs, items, r) \in Answers(k)
           /\ Sound(k, rs, r, PageOf(k, rs, items, r))
           /\ PageOf(k, rs, items, r).total_count = Cardinality(SeenBy(k, rs, items))
           /\ PageOf(k, rs, items, r).total_pages =
                 IF r.per_page > 0 THEN CeilDiv(Cardinality(SeenBy(k, rs, items)), r.per_page)
                 ELSE 0
<1> DEFINE kept == KeptBy(k, rs, items)
<1>1. /\ kept \in Seq(Items[k])
      /\ Len(kept) = Cardinality(SeenBy(k, rs, items))
      /\ \A n \in DOMAIN kept : Visible(k, rs, kept[n])
  BY KeptProperties
<1>2. PageOf(k, rs, items, r) = Paginate(kept, r.page, r.per_page)
  BY DEF PageOf
<1> HIDE DEF kept
<1>3. /\ Paginate(kept, r.page, r.per_page) \in Answers(k)
      /\ Sound(k, rs, r, Paginate(kept, r.page, r.per_page))
  BY <1>1, VisibleListSound
<1>4. /\ Paginate(kept, r.page, r.per_page).total_count = Len(kept)
      /\ Paginate(kept, r.page, r.per_page).total_pages =
            IF r.per_page > 0 THEN CeilDiv(Len(kept), r.per_page) ELSE 0
  BY DEF Paginate
<1> QED BY <1>1, <1>2, <1>3, <1>4

\* A list holds finitely many items.
LEMMA ItemsFinite ==
    ASSUME NEW S, NEW list \in Seq(S)
    PROVE  IsFiniteSet(ToSet(list)) /\ ToSet(list) \subseteq S
<1> DEFINE n == Len(list)
<1>1. n \in Nat /\ DOMAIN list = 1..n /\ list \in [1..n -> S] /\ \A i \in 1..n : list[i] \in S
  BY LenProperties, ElementOfSeq
<1>2. list \in [1..n -> ToSet(list)]
  BY <1>1 DEF ToSet
<1>3. list \in Surjection(1..n, ToSet(list))
  BY <1>1, <1>2 DEF Surjection, ToSet
<1>4. IsFiniteSet(1..n)
  BY <1>1, FS_Interval
<1>5. IsFiniteSet(ToSet(list))
  BY <1>3, <1>4, FS_Surjection
<1> QED BY <1>1, <1>5 DEF ToSet

\* The user's audit entries are finitely many entries of the log.
LEMMA RowsFinite ==
    ASSUME NEW S, NEW list \in Seq(S)
    PROVE  /\ IsFiniteSet(OfMe(list)) /\ OfMe(list) \subseteq S
           /\ \A T \in SUBSET OfMe(list) : IsFiniteSet(T) /\ Cardinality(T) \in Nat
<1>1. IsFiniteSet(ToSet(list)) /\ ToSet(list) \subseteq S
  BY ItemsFinite
<1>2. OfMe(list) \in SUBSET ToSet(list)
  BY DEF OfMe
<1>3. IsFiniteSet(OfMe(list))
  BY <1>1, <1>2, FS_Subset
<1>4. ASSUME NEW T \in SUBSET OfMe(list) PROVE IsFiniteSet(T) /\ Cardinality(T) \in Nat
  <2>1. IsFiniteSet(T)
    BY <1>3, FS_Subset
  <2> QED BY <2>1, FS_CardinalityType
<1> QED BY <1>1, <1>2, <1>3, <1>4

\* An order of finitely many rows shows each of them once.
LEMMA OrderProperties ==
    ASSUME NEW rows, IsFiniteSet(rows), NEW s \in Orders(rows)
    PROVE  /\ Cardinality(rows) \in Nat
           /\ s \in Seq(rows) /\ Len(s) = Cardinality(rows)
           /\ s \in Bijection(1..Cardinality(rows), rows)
           /\ \A i, j \in 1..Cardinality(rows) : i < j => s[i].ts >= s[j].ts
<1> DEFINE n == Cardinality(rows)
<1>1. n \in Nat
  BY FS_CardinalityType
<1>2. s \in [1..n -> rows] /\ \A i, j \in 1..n : i # j => s[i] # s[j]
  BY DEF Orders, SetToSeqs
<1>3. \A i, j \in DOMAIN s : i < j => s[i].ts >= s[j].ts
  BY DEF Orders
<1>4. s \in Injection(1..n, rows)
  BY <1>2 DEF Injection, IsInjective
<1>5. IsFiniteSet(1..n) /\ Cardinality(1..n) = n
  BY <1>1, FS_Interval
<1>6. s \in Surjection(1..n, rows)
  <2> HIDE DEF n
  <2>1. n = Cardinality(rows)
    BY DEF n
  <2> QED BY <1>4, <1>5, <2>1, FS_Injection
<1>7. s \in Seq(rows) /\ Len(s) = n
  BY <1>1, <1>2
<1> QED BY <1>1, <1>2, <1>3, <1>4, <1>6, <1>7 DEF Bijection

\* In an order, an entry that is alone in its second has its rank for position: before it
\* come the later entries, and after it only earlier ones.
LEMMA AloneHasItsRank ==
    ASSUME NEW list, NEW S, list \in Seq(S), \A e \in S : e.ts \in Int,
           NEW s \in Orders(OfMe(list)), NEW e \in OfMe(list), Alone(list, e)
    PROVE  Rank(list, e) \in 1..Len(s) /\ s[Rank(list, e)] = e
<1> DEFINE rows == OfMe(list)
           n == Cardinality(rows)
<1>1. IsFiniteSet(rows) /\ rows \subseteq S
  BY RowsFinite
<1>2. /\ n \in Nat /\ s \in Seq(rows) /\ Len(s) = n
      /\ s \in Bijection(1..n, rows)
      /\ \A i, j \in 1..n : i < j => s[i].ts >= s[j].ts
  BY <1>1, OrderProperties
<1> HIDE DEF rows, n
<1>3. /\ s \in [1..n -> rows]
      /\ \A i, j \in 1..n : s[i] = s[j] => i = j
      /\ \A d \in rows : \E i \in 1..n : s[i] = d
  BY <1>2 DEF Bijection, Injection, Surjection, IsInjective
<1>4. e \in rows
  BY DEF rows
<1>5. PICK k \in 1..n : s[k] = e
  BY <1>3, <1>4
<1> DEFINE above == {d \in rows : d.ts >= e.ts}
           start == [i \in 1..k |-> s[i]]
<1>6. k \in Nat /\ k >= 1 /\ k <= n /\ n \in Nat
  BY <1>2
<1>7. \A i \in 1..n : s[i] \in rows /\ s[i].ts \in Int
  BY <1>1, <1>3
<1>8. e.ts \in Int
  BY <1>1, <1>4
<1>9. \A i \in 1..k : i \in 1..n /\ s[i] \in above
  <2> TAKE i \in 1..k
  <2>1. i \in 1..n /\ (i < k \/ i = k)
    BY <1>6
  <2>2. s[i].ts >= e.ts
    BY <1>2, <1>5, <1>8, <2>1
  <2> QED BY <1>7, <2>1, <2>2
<1>10. \A d \in above : \E i \in 1..k : s[i] = d
  <2> TAKE d \in above
  <2>1. d \in rows /\ d.ts >= e.ts
    OBVIOUS
  <2>2. PICK i \in 1..n : s[i] = d
    BY <1>3, <2>1
  <2>3. ASSUME i > k PROVE FALSE
    <3>1. e.ts >= d.ts
      BY <1>2, <1>5, <2>2, <2>3
    <3>2. d.ts = e.ts
      BY <1>7, <1>8, <2>1, <2>2, <3>1
    <3>3. d = e
      BY <2>1, <3>2 DEF Alone, rows
    <3>4. i = k
      BY <1>3, <1>5, <2>2, <3>3
    <3> QED BY <1>6, <2>3, <3>4
  <2>4. i \in 1..k
    BY <1>6, <2>3
  <2> QED BY <2>2, <2>4
<1>11. start \in [1..k -> above]
  BY <1>9
<1>12. \A i, j \in 1..k : start[i] = start[j] => i = j
  BY <1>3, <1>9
<1>13. \A d \in above : \E i \in 1..k : start[i] = d
  BY <1>10
<1>14. start \in Bijection(1..k, above)
  <2> HIDE DEF start, above
  <2> QED BY <1>11, <1>12, <1>13 DEF Bijection, Injection, Surjection, IsInjective
<1>15. Cardinality(above) = k
  <2> HIDE DEF start, above
  <2>1. ExistsBijection(1..k, above)
    BY <1>14 DEF ExistsBijection
  <2> QED BY <1>6, <2>1, FS_CountingElements
<1>16. Rank(list, e) = k
  BY <1>15 DEF Rank, rows
<1> QED BY <1>2, <1>5, <1>16

(***************************************************************************)
(* Types, the life of a request, and sound answers.                        *)
(***************************************************************************)
\* None and Failed are told from what they stand beside.
LEMMA Sentinels ==
    ASSUME kind \in Kinds
    PROVE  /\ None # Failed
           /\ \A r \in Requests : r # None
           /\ \A f \in Fetches(kind) : f # None
           /\ \A a \in Answers(kind) : a # None /\ a # Failed
BY NoneAssumption

\* An answer is sound, in the terms of Listing.
LEMMA SoundIsSound ==
    AnswerIsSound <=> (answer # None /\ answer # Failed => Sound(kind, tokenRules, ask, answer))
BY DEF AnswerIsSound, Answered, Sound, InScope

LEMMA SoundIsSoundNext ==
    AnswerIsSound' <=>
        (answer' # None /\ answer' # Failed => Sound(kind', tokenRules', ask', answer'))
BY DEF AnswerIsSound, Answered, Sound, InScope

\* How a request starts: it is refused, it has no rule for the zone, or pages are fetched.
Opened(page, perPage) ==
    /\ ask' \in Requests /\ ask'.page = page /\ ask'.per_page = perPage
    /\ fetched' \in Fetches(kind) \cup {None}
    /\ answer' \in Answers(kind) \cup {None, Failed}
    /\ fetched' # None => answer' = None /\ fetched'.page = 1 /\ fetched'.items = <<>>
    /\ answer' = Failed => kind = "audit"
    /\ kind = "audit" /\ answer' # Failed => perPage >= 1 /\ answer' = None
    /\ answer' # None /\ answer' # Failed =>
          /\ kind = "records" /\ ~ \E rule \in tokenRules : rule.zone_id = Zone
          /\ answer' = PageOf(kind, tokenRules, <<>>, ask')
          /\ Sound(kind, tokenRules, ask', answer')

LEMMA ReceiveOpens ==
    ASSUME kind \in Kinds, NEW page \in Int, NEW perPage \in PerPages, Receive(page, perPage)
    PROVE  Opened(page, perPage)
<1>1. perPage \in Int
  BY ListingAssumption
<1>2. ask' = [page |-> page, per_page |-> perPage]
  BY DEF Receive
<1>3. ask' \in Requests /\ ask'.page = page /\ ask'.per_page = perPage
  BY <1>1, <1>2 DEF Requests
<1>4. CASE Rejected(page, perPage)
  <2>1. answer' = Failed /\ fetched' = None /\ kind = "audit"
    BY <1>4 DEF Receive, Rejected
  <2> QED BY <1>3, <2>1, Sentinels DEF Opened
<1>5. CASE ~Rejected(page, perPage) /\ kind = "records" /\ ~ \E rule \in tokenRules : rule.zone_id = Zone
  <2>1. answer' = Page(<<>>, ask') /\ fetched' = None
    BY <1>5 DEF Receive
  <2>2. answer' = PageOf(kind, tokenRules, <<>>, ask')
    BY <2>1, SameFilter
  <2>3. <<>> \in Seq(Items[kind])
    BY EmptySeq
  <2>4. answer' \in Answers(kind) /\ Sound(kind, tokenRules, ask', answer')
    BY <1>1, <1>3, <2>2, <2>3, PageProperties
  <2>5. answer' # None /\ answer' # Failed /\ kind # "audit"
    BY <1>5, <2>4, Sentinels
  <2> QED BY <1>3, <1>5, <2>1, <2>2, <2>4, <2>5 DEF Opened
<1>6. CASE ~Rejected(page, perPage) /\ ~(kind = "records" /\ ~ \E rule \in tokenRules : rule.zone_id = Zone)
  <2>1. answer' = None /\ fetched' = [page |-> 1, items |-> <<>>]
    BY <1>6 DEF Receive
  <2>2. kind = "audit" => perPage >= 1
    BY <1>1, <1>6, ListingAssumption DEF Rejected
  <2>3. <<>> \in Seq(Items[kind])
    BY EmptySeq
  <2>4. fetched' \in Fetches(kind) /\ fetched'.page = 1 /\ fetched'.items = <<>>
    BY <2>1, <2>3 DEF Fetches
  <2> QED BY <1>3, <2>1, <2>2, <2>4, Sentinels DEF Opened
<1> QED BY <1>4, <1>5, <1>6

\* The numbers of a request whose pages are being fetched.
LEMMA FetchingAsks ==
    ASSUME TypedInv, fetched # None
    PROVE  /\ kind \in Kinds /\ ask \in Requests /\ ask # None /\ answer = None /\ ~over
           /\ ask.page \in Int /\ ask.per_page \in Int /\ ask.per_page \in PerPages
           /\ fetched \in Fetches(kind) /\ fetched.page \in Nat /\ fetched.page >= 1
           /\ fetched.items \in Seq(Items[kind])
<1>1. kind \in Kinds /\ fetched \in Fetches(kind) /\ ask \in Requests \cup {None}
  BY DEF TypedInv, TypeInv
<1>2. ask # None /\ answer = None /\ fetched.page >= 1 /\ ~over /\ answer # Failed
  BY <1>1, Sentinels DEF TypedInv, ControlInv
<1>3. ask.page \in Int /\ ask.per_page \in PerPages
  BY <1>2 DEF TypedInv, ControlInv
<1> QED BY <1>1, <1>2, <1>3, ListingAssumption DEF Fetches

\* The end of the fetching: an answer, or a failure.
LEMMA AnswerArrives ==
    ASSUME TypedInv, fetched # None, fetched' = None,
           answer' \in Answers(kind) \cup {Failed},
           answer' # Failed => Sound(kind, tokenRules, ask, answer'),
           UNCHANGED <<kind, tokenRules, upstream, changes, ask, got, base, over>>, quiet' \in BOOLEAN
    PROVE  TypedInv'
<1>1. /\ kind \in Kinds /\ ask # None /\ answer = None /\ ~over
      /\ ask.page \in Int /\ ask.per_page \in PerPages
  BY FetchingAsks
<1>2. answer' # None
  BY <1>1, Sentinels
<1>3. TypeInv'
  BY DEF TypedInv, TypeInv
<1>4. ControlInv'
  <2>1. kind = "audit" => ask.per_page >= 1
    BY <1>1, Sentinels DEF TypedInv, ControlInv
  <2>2. base # None => ask.page >= 1
    BY DEF TypedInv, ControlInv
  <2> QED BY <1>1, <1>2, <2>1, <2>2 DEF ControlInv
<1>5. AnswerIsSound'
  BY SoundIsSoundNext
<1> QED BY <1>3, <1>4, <1>5 DEF TypedInv

LEMMA TypedAsk ==
    ASSUME TypedInv, NEW page \in Pages, NEW perPage \in PerPages, Ask(page, perPage)
    PROVE  TypedInv'
<1>1. /\ kind \in Kinds /\ page \in Int
      /\ UNCHANGED <<kind, tokenRules, upstream, changes, got, over>>
      /\ base' = (IF page = 1 THEN upstream ELSE None) /\ quiet' = TRUE
      /\ ask = None /\ Receive(page, perPage)
  BY ListingAssumption DEF TypedInv, TypeInv, Ask
<1>2. Opened(page, perPage)
  BY <1>1, ReceiveOpens
<1>3. ask' # None /\ ~over /\ got = <<>>
  BY <1>1, <1>2, Sentinels DEF Opened, TypedInv, ControlInv
<1>4. TypeInv'
  BY <1>1, <1>2 DEF TypedInv, TypeInv, Opened, Listed
<1>5. ControlInv'
  <2>1. base' # None => ask'.page \in Int /\ ask'.page >= 1 /\ ask'.per_page \in PerPages
    BY <1>1, <1>2 DEF Opened
  <2>2. fetched' # None => answer' = None /\ fetched'.page >= 1
    BY <1>2 DEF Opened
  <2> QED BY <1>1, <1>2, <1>3, <2>1, <2>2 DEF ControlInv, Opened
<1>6. AnswerIsSound'
  BY <1>1, <1>2, SoundIsSoundNext DEF Opened
<1> QED BY <1>4, <1>5, <1>6 DEF TypedInv

LEMMA TypedAskMalformed == TypedInv /\ AskMalformed => TypedInv'
<1> SUFFICES ASSUME TypedInv, AskMalformed PROVE TypedInv'
  OBVIOUS
<1>1. /\ kind \in Kinds /\ ask = None /\ fetched = None /\ base = None /\ ~over
      /\ UNCHANGED <<kind, tokenRules, upstream, changes, fetched, got, base, quiet, over>>
      /\ ask' = [page |-> None, per_page |-> None] /\ answer' = Failed
  BY DEF TypedInv, TypeInv, ControlInv, AskMalformed
<1>2. ask' \in Requests
  BY <1>1 DEF Requests
<1>3. ask' # None /\ answer' # None
  BY <1>1, <1>2, Sentinels
<1>4. TypeInv'
  BY <1>1, <1>2 DEF TypedInv, TypeInv
<1>5. ControlInv'
  BY <1>1, <1>3 DEF ControlInv
<1>6. AnswerIsSound'
  BY <1>1, SoundIsSoundNext
<1> QED BY <1>4, <1>5, <1>6 DEF TypedInv

LEMMA TypedNextPage == TypedInv /\ NextPage => TypedInv'
<1> SUFFICES ASSUME TypedInv, NextPage PROVE TypedInv'
  OBVIOUS
<1>1. /\ kind \in Kinds /\ answer # None /\ ~over
      /\ UNCHANGED <<kind, tokenRules, upstream, changes, base, quiet>>
      /\ got' = (IF answer = Failed THEN got ELSE got \o answer.items)
      /\ answer \in Answers(kind) \cup {Failed}
      /\ got \in Seq(Items[kind])
  BY DEF TypedInv, TypeInv, NextPage
<1>2. ask # None /\ fetched = None
  BY <1>1 DEF TypedInv, ControlInv
<1>3. got' \in Seq(Items[kind])
  <2>1. CASE answer = Failed
    BY <1>1, <2>1
  <2>2. CASE answer # Failed
    <3>1. answer.items \in Seq(Items[kind])
      BY <1>1, <2>2 DEF Answers
    <3>2. got \o answer.items \in Seq(Items[kind])
      BY <1>1, <3>1, ConcatProperties
    <3> QED BY <1>1, <2>2, <3>2
  <2> QED BY <2>1, <2>2
<1>4. ASSUME answer # Failed, base # None, Receive(ask.page + 1, ask.per_page), over' = over
      PROVE  TypedInv'
  <2>1. ask.page \in Int /\ ask.page >= 1 /\ ask.per_page \in PerPages
    BY <1>4 DEF TypedInv, ControlInv
  <2>2. ask.page + 1 \in Int /\ ask.page + 1 >= 1
    BY <2>1
  <2>3. Opened(ask.page + 1, ask.per_page)
    BY <1>1, <1>4, <2>1, <2>2, ReceiveOpens
  <2>4. ask' # None
    BY <1>1, <2>3, Sentinels DEF Opened
  <2>5. TypeInv'
    BY <1>1, <1>3, <1>4, <2>3 DEF TypedInv, TypeInv, Opened
  <2>6. ControlInv'
    <3>1. ask'.page \in Int /\ ask'.page >= 1 /\ ask'.per_page \in PerPages
      BY <2>1, <2>2, <2>3 DEF Opened
    <3>2. fetched' # None => answer' = None /\ fetched'.page >= 1
      BY <2>3 DEF Opened
    <3>3. kind = "audit" /\ answer' # Failed => ask'.per_page >= 1
      BY <2>3 DEF Opened
    <3> QED BY <1>1, <1>4, <2>4, <3>1, <3>2, <3>3 DEF ControlInv
  <2>7. AnswerIsSound'
    BY <1>1, <2>3, SoundIsSoundNext DEF Opened
  <2> QED BY <2>5, <2>6, <2>7 DEF TypedInv
<1>5. ASSUME over' = TRUE, UNCHANGED <<ask, fetched, answer>> PROVE TypedInv'
  <2>1. TypeInv'
    BY <1>1, <1>3, <1>5 DEF TypedInv, TypeInv
  <2>2. ControlInv'
    BY <1>1, <1>2, <1>5 DEF TypedInv, ControlInv
  <2>3. AnswerIsSound'
    BY <1>1, <1>5, SoundIsSound, SoundIsSoundNext DEF TypedInv
  <2> QED BY <2>1, <2>2, <2>3 DEF TypedInv
<1> QED BY <1>4, <1>5 DEF NextPage

LEMMA TypedFetchPage == TypedInv /\ FetchPage => TypedInv'
<1> SUFFICES ASSUME TypedInv, FetchPage PROVE TypedInv'
  OBVIOUS
<1>1. PICK items \in {fetched.items \o UpstreamPage(fetched.page)} :
         IF fetched.page >= UpstreamPages
         THEN answer' = Page(items, ask) /\ fetched' = None
         ELSE fetched' = [page |-> fetched.page + 1, items |-> items] /\ UNCHANGED answer
  BY DEF FetchPage
<1>2. /\ fetched # None
      /\ UNCHANGED <<kind, tokenRules, upstream, changes, ask, got, base, quiet, over>>
  BY DEF FetchPage
<1>3. /\ kind \in Kinds /\ ask # None /\ answer = None /\ ~over
      /\ ask.page \in Int /\ ask.per_page \in Int
      /\ fetched.page \in Nat /\ fetched.page >= 1 /\ fetched.items \in Seq(Items[kind])
  BY <1>2, FetchingAsks
<1>4. items \in Seq(Items[kind])
  <2>1. upstream \in Seq(Items[kind]) /\ UpstreamPerPage \in Nat
    BY ListingAssumption DEF TypedInv, TypeInv, Listed
  <2>2. (fetched.page - 1) * UpstreamPerPage \in Int /\ fetched.page * UpstreamPerPage \in Int
    BY <1>3, <2>1
  <2>3. UpstreamPage(fetched.page) \in Seq(Items[kind])
    BY <2>1, <2>2, SliceProperties DEF UpstreamPage
  <2>4. fetched.items \o UpstreamPage(fetched.page) \in Seq(Items[kind])
    BY <1>3, <2>3, ConcatProperties
  <2> QED BY <1>1, <2>4
<1>5. quiet \in BOOLEAN
  BY DEF TypedInv, TypeInv
<1>6. CASE fetched.page >= UpstreamPages
  <2>1. answer' = PageOf(kind, tokenRules, items, ask) /\ fetched' = None
    BY <1>1, <1>6, SameFilter
  <2>2. answer' \in Answers(kind) /\ Sound(kind, tokenRules, ask, answer')
    BY <1>3, <1>4, <2>1, PageProperties
  <2> QED BY <1>2, <1>5, <2>1, <2>2, AnswerArrives
<1>7. CASE ~(fetched.page >= UpstreamPages)
  <2>1. fetched' = [page |-> fetched.page + 1, items |-> items] /\ answer' = answer
    BY <1>1, <1>7
  <2>2. fetched' \in Fetches(kind) /\ fetched'.page >= 1
    BY <1>3, <1>4, <2>1 DEF Fetches
  <2>3. TypeInv'
    BY <1>2, <2>1, <2>2 DEF TypedInv, TypeInv
  <2>4. ControlInv'
    BY <1>2, <1>3, <2>1, <2>2 DEF TypedInv, ControlInv
  <2>5. AnswerIsSound'
    BY <1>3, <2>1, SoundIsSoundNext
  <2> QED BY <2>3, <2>4, <2>5 DEF TypedInv
<1> QED BY <1>6, <1>7

\* What the query of the audit log selects.
LEMMA AuditRows ==
    ASSUME kind = "audit"
    PROVE  /\ {e \in ToSet(upstream) : InScope(e)} = OfMe(upstream)
           /\ \A e : Visible(kind, tokenRules, e) <=> e.user = Me
BY DEF InScope, Visible, OfMe

LEMMA TypedAuditPage == TypedInv /\ AuditPage => TypedInv'
<1> SUFFICES ASSUME TypedInv, AuditPage PROVE TypedInv'
  OBVIOUS
<1>1. /\ fetched # None /\ kind = "audit" /\ fetched' = None
      /\ UNCHANGED <<kind, tokenRules, upstream, changes, ask, got, base, quiet, over>>
  BY DEF AuditPage
<1>2. PICK s \in Orders(OfMe(upstream)) : answer' = Paginate(s, ask.page, ask.per_page)
  BY <1>1, AuditRows DEF AuditPage
<1>3. ask.page \in Int /\ ask.per_page \in Int
  BY <1>1, FetchingAsks
<1>4. IsFiniteSet(OfMe(upstream)) /\ OfMe(upstream) \subseteq Items[kind]
  BY RowsFinite DEF TypedInv, TypeInv, Listed
<1>5. s \in Seq(OfMe(upstream)) /\ Len(s) \in Nat /\ DOMAIN s = 1..Len(s)
  BY <1>2, <1>4, OrderProperties, LenProperties
<1>6. \A i \in DOMAIN s : s[i] \in OfMe(upstream)
  BY <1>5, ElementOfSeq
<1>7. s \in Seq(Items[kind])
  BY <1>4, <1>5, SeqMonotonic
<1>8. \A i \in DOMAIN s : Visible(kind, tokenRules, s[i])
  BY <1>1, <1>6, AuditRows DEF OfMe
<1>9. answer' \in Answers(kind) /\ Sound(kind, tokenRules, ask, answer')
  BY <1>2, <1>3, <1>7, <1>8, VisibleListSound
<1>10. quiet \in BOOLEAN
  BY DEF TypedInv, TypeInv
<1> QED BY <1>1, <1>9, <1>10, AnswerArrives

LEMMA TypedFetchFails == TypedInv /\ FetchFails => TypedInv'
<1> SUFFICES ASSUME TypedInv, FetchFails PROVE TypedInv'
  OBVIOUS
<1>1. /\ fetched # None /\ fetched' = None /\ quiet' = FALSE
      /\ UNCHANGED <<kind, tokenRules, upstream, changes, ask, got, base, over>>
  BY DEF FetchFails
<1>2. ASSUME answer' = Failed PROVE TypedInv'
  BY <1>1, <1>2, AnswerArrives
<1>3. ASSUME answer' = Page(fetched.items, ask) PROVE TypedInv'
  <2>1. ask.page \in Int /\ ask.per_page \in Int /\ fetched.items \in Seq(Items[kind])
    BY <1>1, FetchingAsks
  <2>2. answer' = PageOf(kind, tokenRules, fetched.items, ask)
    BY <1>3, SameFilter
  <2>3. answer' \in Answers(kind) /\ Sound(kind, tokenRules, ask, answer')
    BY <2>1, <2>2, PageProperties
  <2> QED BY <1>1, <2>3, AnswerArrives
<1> QED BY <1>2, <1>3 DEF FetchFails

LEMMA TypedChange == TypedInv /\ Change => TypedInv'
<1> SUFFICES ASSUME TypedInv, Change PROVE TypedInv'
  OBVIOUS
<1>1. /\ changes' = changes + 1 /\ changes < MaxChanges /\ quiet' = FALSE
      /\ UNCHANGED <<kind, tokenRules, ask, fetched, answer, got, base, over>>
  BY DEF Change
<1>2. Listed(kind, upstream) /\ upstream \in Seq(Items[kind]) /\ changes \in 0..MaxChanges
  BY DEF TypedInv, TypeInv, Listed
<1>3. Len(upstream) \in Nat /\ DOMAIN upstream = 1..Len(upstream)
  BY <1>2, LenProperties
<1>4. Listed(kind, upstream')
  <2>1. ASSUME NEW i \in DOMAIN upstream, upstream' = RemoveAt(upstream, i)
        PROVE  Listed(kind, upstream')
    BY <1>2, <2>1, RemoveListed
  <2>2. ASSUME NEW i \in 1..(IF kind = "audit" THEN 1 ELSE Len(upstream) + 1),
               NEW item \in Items[kind],
               \A j \in DOMAIN upstream : upstream[j].id # item.id,
               upstream' = InsertAt(upstream, i, item)
        PROVE  Listed(kind, upstream')
    <3>1. i \in 1..(Len(upstream) + 1)
      BY <1>3
    <3> QED BY <1>2, <2>2, <3>1, InsertListed
  <2> QED BY <2>1, <2>2 DEF Change
<1>5. changes' \in 0..MaxChanges
  BY <1>1, <1>2, ListingAssumption
<1>6. TypeInv'
  BY <1>1, <1>4, <1>5 DEF TypedInv, TypeInv
<1>7. ControlInv'
  BY <1>1 DEF TypedInv, ControlInv
<1>8. AnswerIsSound'
  BY <1>1, SoundIsSound, SoundIsSoundNext DEF TypedInv
<1> QED BY <1>6, <1>7, <1>8 DEF TypedInv

LEMMA TypedInit == Init => TypedInv
<1> SUFFICES ASSUME Init PROVE TypedInv
  OBVIOUS
<1>1. /\ kind \in Kinds /\ upstream \in InitialLists[kind]
      /\ changes = 0 /\ ask = None /\ fetched = None /\ answer = None
      /\ got = <<>> /\ base = None /\ quiet = TRUE /\ over = FALSE
  BY DEF Init
<1>2. (kind = "audit" /\ tokenRules = {}) \/ (kind # "audit" /\ tokenRules \in RuleSets)
  BY DEF Init
<1>3. Listed(kind, upstream)
  BY <1>1, ListsAssumption DEF Listed
<1>4. <<>> \in Seq(Items[kind])
  BY EmptySeq
<1>5. TypeInv
  <2>1. changes \in 0..MaxChanges
    <3>1. 0 \in 0..MaxChanges
      BY ListingAssumption
    <3> QED BY <1>1, <3>1
  <2>2. got \in Seq(Items[kind])
    BY <1>1, <1>4
  <2>3. quiet \in BOOLEAN /\ over \in BOOLEAN
    BY <1>1
  <2> QED BY <1>1, <1>2, <1>3, <2>1, <2>2, <2>3 DEF TypeInv
<1>6. ControlInv
  BY <1>1, Sentinels DEF ControlInv
<1>7. AnswerIsSound
  BY <1>1, SoundIsSound
<1> QED BY <1>5, <1>6, <1>7 DEF TypedInv

LEMMA TypedStep == TypedInv /\ [Next]_vars => TypedInv'
<1> SUFFICES ASSUME TypedInv, [Next]_vars PROVE TypedInv'
  OBVIOUS
<1>1. CASE UNCHANGED vars
  <2>1. TypeInv' /\ ControlInv'
    BY <1>1 DEF vars, TypedInv, TypeInv, ControlInv
  <2>2. AnswerIsSound'
    BY <1>1, SoundIsSound, SoundIsSoundNext DEF vars, TypedInv
  <2> QED BY <2>1, <2>2 DEF TypedInv
<1>2. CASE Next
  BY <1>2, TypedAsk, TypedAskMalformed, TypedNextPage, TypedFetchPage, TypedAuditPage,
     TypedFetchFails, TypedChange DEF Next
<1> QED BY <1>1, <1>2

LEMMA TypedInvariant == Spec => []TypedInv
<1>1. Init => TypedInv
  BY TypedInit
<1>2. TypedInv /\ [Next]_vars => TypedInv'
  BY TypedStep
<1> QED BY <1>1, <1>2, PTL DEF Spec

\* Every list, request, fetch and answer has the type its use relies on, whatever is asked
\* for and however the list changes.
THEOREM TypeCorrect == Spec => []TypeOK
<1>1. TypedInv => TypeOK
  <2> SUFFICES ASSUME TypedInv PROVE TypeOK
    OBVIOUS
  <2>1. kind \in Kinds /\ tokenRules \in RuleSets \cup {{}} /\ changes \in 0..MaxChanges
    BY DEF TypedInv, TypeInv
  <2>2. \A i \in DOMAIN upstream : upstream[i] \in Items[kind]
    <3>1. upstream \in Seq(Items[kind])
      BY DEF TypedInv, TypeInv, Listed
    <3> QED BY <3>1, LenProperties, ElementOfSeq
  <2>3. ask = None \/ answer = Failed \/ (ask.per_page \in PerPages /\ ask.page \in Int)
    BY DEF TypedInv, ControlInv
  <2>4. fetched = None \/ (fetched.page \in Nat /\ ask # None)
    BY FetchingAsks
  <2>5. Answered => answer.total_count \in Nat /\ answer.total_pages \in Nat
    BY DEF Answered, TypedInv, TypeInv, Answers
  <2>6. quiet \in BOOLEAN /\ over \in BOOLEAN
    BY DEF TypedInv, TypeInv
  <2> QED BY <2>1, <2>2, <2>3, <2>4, <2>5, <2>6 DEF TypeOK
<1> QED BY <1>1, TypedInvariant, PTL

\* No answer of a list endpoint holds an item outside the token's rules, or more items than
\* a page, for any page number and page size.
THEOREM OnlyVisibleItems == Spec => []AnswerIsSound
<1>1. TypedInv => AnswerIsSound
  BY DEF TypedInv
<1> QED BY <1>1, TypedInvariant, PTL

(***************************************************************************)
(* A walk through a list that stays the same.                              *)
(***************************************************************************)
\* The next slice of a list continues what has been taken from it.
LEMMA NextSlice ==
    ASSUME NEW S, NEW items \in Seq(S), NEW start \in Nat, start <= Len(items), NEW width \in Nat
    PROVE  /\ start + width >= Len(items) =>
                 SubSeq(items, 1, start) \o Slice(items, start, start + width) = items
           /\ start + width < Len(items) =>
                 SubSeq(items, 1, start) \o Slice(items, start, start + width)
                    = SubSeq(items, 1, start + width)
<1> DEFINE n == Len(items)
           end == Clip(start + width, n)
<1>1. n \in Nat
  BY LenProperties
<1>2. /\ Clip(start, n) = start
      /\ end \in start..n
      /\ (start + width >= n => end = n)
      /\ (start + width < n => end = start + width)
  <2> HIDE DEF n
  <2>1. start <= n
    BY DEF n
  <2> QED BY <1>1, <2>1 DEF Clip
<1>3. Slice(items, start, start + width) = SubSeq(items, start + 1, end)
  <2>1. start \in Int /\ start + width \in Int
    OBVIOUS
  <2>2. Slice(items, start, start + width) = SubSeq(items, Clip(start, n) + 1, Clip(start + width, n))
    BY <2>1, SliceIsSubSeq
  <2> QED BY <1>2, <2>2
<1> HIDE DEF end
<1>4. SubSeq(items, 1, start) \o SubSeq(items, start + 1, end) = SubSeq(items, 1, end)
  <2>1. 1 \in 1..(n + 1) /\ start \in (1 - 1)..n
    BY <1>1
  <2> QED BY <1>2, <2>1, ConcatAdjacentSubSeq
<1>5. SubSeq(items, 1, n) = items
  BY SubSeqFull
<1> QED BY <1>2, <1>3, <1>4, <1>5

\* Nothing has been taken before the first page.
LEMMA FirstSlice == \A s : SubSeq(s, 1, 0) = <<>>
BY SubSeqEmpty

\* Where the client's next page begins.
LEMMA NextStart ==
    ASSUME NEW p \in Int, NEW w \in Int
    PROVE  (p - 1) * w \in Int /\ (p - 1) * w + w = p * w /\ (p + 1 - 1) * w = p * w
BY Z3

LEMMA StartIsNat ==
    ASSUME NEW p \in Int, p >= 1, NEW w \in Nat
    PROVE  (p - 1) * w \in Nat /\ p * w \in Nat
<1>1. 0 * w <= (p - 1) * w /\ 0 * w <= p * w
  BY ProductMonotonic
<1>2. 0 * w = 0
  BY Z3
<1> QED BY <1>1, <1>2

\* A turn of the proxy's loop takes it to the next upstream page, or to the end of the list.
LEMMA FetchContinues ==
    ASSUME NEW S, NEW list \in Seq(S), NEW f, f.page \in Nat, f.page >= 1, FetchedUpTo(list, f)
    PROVE  LET p == f.page
               items == f.items \o Slice(list, (p - 1) * UpstreamPerPage, p * UpstreamPerPage)
           IN  /\ p >= CeilDiv(Len(list), UpstreamPerPage) => items = list
               /\ ~(p >= CeilDiv(Len(list), UpstreamPerPage)) =>
                     FetchedUpTo(list, [page |-> p + 1, items |-> items])
<1> DEFINE p == f.page
           w == UpstreamPerPage
           start == (p - 1) * w
           items == f.items \o Slice(list, (p - 1) * w, p * w)
<1>1. Len(list) \in Nat /\ p \in Nat /\ p >= 1 /\ w \in Nat \ {0}
  BY ListingAssumption, LenProperties
<1>2. start <= Len(list) /\ f.items = SubSeq(list, 1, start)
  BY DEF FetchedUpTo
<1> HIDE DEF p, w
<1>3. start \in Nat /\ p * w \in Nat
  BY <1>1, StartIsNat
<1>4. start + w = p * w /\ (p + 1 - 1) * w = p * w
  BY <1>1, NextStart
<1>5. CeilDiv(Len(list), w) \in Nat /\ (p < CeilDiv(Len(list), w) <=> p * w < Len(list))
  BY <1>1, CeilDivBounds
<1> HIDE DEF start
<1>6. items = SubSeq(list, 1, start) \o Slice(list, start, start + w)
  BY <1>2, <1>4 DEF start
<1>7. ASSUME p >= CeilDiv(Len(list), w) PROVE items = list
  <2>1. start + w >= Len(list)
    BY <1>1, <1>3, <1>4, <1>5, <1>7
  <2> QED BY <1>1, <1>2, <1>3, <1>6, <2>1, NextSlice
<1>8. ASSUME ~(p >= CeilDiv(Len(list), w))
      PROVE  FetchedUpTo(list, [page |-> p + 1, items |-> items])
  <2>1. start + w < Len(list)
    BY <1>1, <1>3, <1>4, <1>5, <1>8
  <2>2. items = SubSeq(list, 1, p * w)
    <3>1. SubSeq(list, 1, start) \o Slice(list, start, start + w) = SubSeq(list, 1, start + w)
      BY <1>1, <1>2, <1>3, <2>1, NextSlice
    <3> QED BY <1>4, <1>6, <3>1
  <2> HIDE DEF items
  <2>3. p * w <= Len(list)
    BY <1>1, <1>3, <1>4, <2>1
  <2> DEFINE f2 == [page |-> p + 1, items |-> items]
  <2>4. f2.page = p + 1 /\ f2.items = items
    OBVIOUS
  <2> HIDE DEF f2
  <2>5. (f2.page - 1) * w = p * w
    <3> DEFINE m == f2.page - 1
    <3>1. m = p
      BY <1>1, <2>4
    <3> HIDE DEF m
    <3>2. m * w = p * w
      BY <3>1
    <3> QED BY <3>2 DEF m
  <2>6. FetchedUpTo(list, f2)
    BY <2>2, <2>3, <2>4, <2>5 DEF FetchedUpTo, w
  <2> QED BY <2>6 DEF f2
<1> QED BY <1>7, <1>8 DEF p, w

\* An answer takes the client to its next page, or to the end of what it may see.
LEMMA WalkContinues ==
    ASSUME NEW S, NEW kept \in Seq(S), NEW r, r.page \in Int, r.page >= 1,
           r.per_page \in Int, r.per_page > 0, NEW shown, Walked(kept, r, shown, FALSE)
    PROVE  LET a == Paginate(kept, r.page, r.per_page)
           IN  /\ r.page < a.total_pages =>
                     \A next : next.page = r.page + 1 /\ next.per_page = r.per_page
                                  => Walked(kept, next, shown \o a.items, FALSE)
               /\ ~(r.page < a.total_pages) => shown \o a.items = kept
<1> DEFINE p == r.page
           w == r.per_page
           start == (p - 1) * w
           a == Paginate(kept, r.page, r.per_page)
<1>1. Len(kept) \in Nat /\ p \in Nat /\ p >= 1 /\ w \in Nat \ {0}
  BY LenProperties
<1>2. start <= Len(kept) /\ shown = SubSeq(kept, 1, start)
  BY DEF Walked
<1>3. a.items = Slice(kept, start, start + w) /\ a.total_pages = CeilDiv(Len(kept), w)
  BY DEF Paginate
<1> HIDE DEF p, w, a
<1>4. start \in Nat /\ p * w \in Nat
  BY <1>1, StartIsNat
<1>5. start + w = p * w /\ (p + 1 - 1) * w = p * w
  BY <1>1, NextStart
<1>6. CeilDiv(Len(kept), w) \in Nat /\ (p < CeilDiv(Len(kept), w) <=> p * w < Len(kept))
  BY <1>1, CeilDivBounds
<1> HIDE DEF start
<1>7. ASSUME p < a.total_pages,
             NEW next, next.page = p + 1, next.per_page = w
      PROVE  Walked(kept, next, shown \o a.items, FALSE)
  <2>1. start + w < Len(kept) /\ p * w <= Len(kept)
    BY <1>1, <1>3, <1>4, <1>5, <1>6, <1>7
  <2>2. shown \o a.items = SubSeq(kept, 1, p * w)
    <3>1. SubSeq(kept, 1, start) \o Slice(kept, start, start + w) = SubSeq(kept, 1, start + w)
      BY <1>1, <1>2, <1>4, <2>1, NextSlice
    <3> QED BY <1>2, <1>3, <1>5, <3>1
  <2>3. (next.page - 1) * next.per_page = p * w
    <3> DEFINE m == next.page - 1
    <3>1. m = p
      BY <1>1, <1>7
    <3> HIDE DEF m
    <3>2. m * next.per_page = p * w
      BY <1>7, <3>1
    <3> QED BY <3>2 DEF m
  <2> QED BY <2>1, <2>2, <2>3 DEF Walked
<1>8. ASSUME ~(p < a.total_pages) PROVE shown \o a.items = kept
  <2>1. start + w >= Len(kept)
    BY <1>1, <1>3, <1>4, <1>5, <1>6, <1>8
  <2>2. SubSeq(kept, 1, start) \o Slice(kept, start, start + w) = kept
    BY <1>1, <1>2, <1>4, <2>1, NextSlice
  <2> QED BY <1>2, <1>3, <2>2
<1> QED BY <1>7, <1>8 DEF p, w, a

\* A token without a rule for the zone sees none of its records.
LEMMA NoRuleSeesNothing ==
    ASSUME NEW rs \in RuleSets, ~ \E rule \in rs : rule.zone_id = Zone,
           NEW list \in Seq(Items["records"])
    PROVE  KeptBy("records", rs, list) = <<>>
<1>1. \A item : ~Visible("records", rs, item)
  BY DEF Visible, Readable, MatchRules, RuleGrants
<1>2. SeenBy("records", rs, list) = {}
  BY <1>1 DEF SeenBy
<1>3. Len(KeptBy("records", rs, list)) = 0 /\ KeptBy("records", rs, list) \in Seq(Items["records"])
  BY <1>2, KeptProperties, FS_EmptySet
<1> QED BY <1>3, EmptySeq

\* A new request of a walk has fetched nothing; if it is answered at once, for want of a
\* rule, fetching the list would have made no difference.
LEMMA OpenedQuiet ==
    ASSUME TypedInv, kind # "audit", NEW page, NEW perPage, Opened(page, perPage),
           NEW list \in Seq(Items[kind])
    PROVE  /\ answer' # Failed
           /\ fetched' # None => FetchedUpTo(list, fetched')
           /\ answer' # None => answer' = PageOf(kind, tokenRules, list, ask')
<1>1. answer' # Failed
  BY DEF Opened
<1>2. ASSUME fetched' # None PROVE FetchedUpTo(list, fetched')
  <2>1. fetched'.page = 1 /\ fetched'.items = <<>>
    BY <1>2 DEF Opened
  <2>2. (fetched'.page - 1) * UpstreamPerPage = 0
    BY <2>1, ListingAssumption
  <2>3. Len(list) \in Nat
    BY LenProperties
  <2> QED BY <2>1, <2>2, <2>3, FirstSlice DEF FetchedUpTo
<1>3. ASSUME answer' # None PROVE answer' = PageOf(kind, tokenRules, list, ask')
  <2>1. /\ kind = "records" /\ ~ \E rule \in tokenRules : rule.zone_id = Zone
        /\ answer' = PageOf(kind, tokenRules, <<>>, ask')
    BY <1>1, <1>3 DEF Opened
  <2>2. tokenRules \in RuleSets
    BY DEF TypedInv, TypeInv
  <2>3. <<>> \in Seq(Items[kind])
    BY EmptySeq
  <2>4. KeptBy(kind, tokenRules, list) = <<>> /\ KeptBy(kind, tokenRules, <<>>) = <<>>
    BY <2>1, <2>2, <2>3, NoRuleSeesNothing
  <2> QED BY <2>1, <2>4 DEF PageOf
<1> QED BY <1>1, <1>2, <1>3

LEMMA QuietAsk ==
    ASSUME TypedInv, NEW page \in Pages, NEW perPage \in PerPages, Ask(page, perPage)
    PROVE  QuietInv'
<1>1. /\ kind \in Kinds /\ page \in Int /\ perPage \in Int
      /\ UNCHANGED <<kind, tokenRules, upstream, changes, got, over>>
      /\ base' = (IF page = 1 THEN upstream ELSE None)
      /\ ask = None /\ Receive(page, perPage)
  BY ListingAssumption DEF TypedInv, TypeInv, Ask
<1>2. Opened(page, perPage)
  BY <1>1, ReceiveOpens
<1>3. ~over /\ got = <<>> /\ upstream \in Seq(Items[kind])
  BY <1>1 DEF TypedInv, ControlInv, TypeInv, Listed
<1>4. SUFFICES ASSUME base' # None PROVE QuietInv'
  BY DEF QuietInv
<1>5. page = 1 /\ base' = upstream
  BY <1>1, <1>4
<1>6. ASSUME kind = "audit" PROVE answer' = None \/ answer' = Failed
  BY <1>2, <1>6 DEF Opened
<1>7. ASSUME kind # "audit"
      PROVE  /\ answer' # Failed
             /\ fetched' # None => FetchedUpTo(upstream, fetched')
             /\ answer' # None => answer' = PageOf(kind, tokenRules, upstream, ask')
  BY <1>2, <1>3, <1>7, OpenedQuiet
<1>8. Walked(KeptBy(kind, tokenRules, upstream), ask', got, FALSE)
  <2>1. KeptBy(kind, tokenRules, upstream) \in Seq(Items[kind])
    BY <1>3, KeptProperties
  <2>2. Len(KeptBy(kind, tokenRules, upstream)) \in Nat
    BY <2>1, LenProperties
  <2>3. (ask'.page - 1) * ask'.per_page = 0
    BY <1>1, <1>2, <1>5 DEF Opened
  <2> QED BY <1>3, <2>2, <2>3, FirstSlice DEF Walked
<1>9. over' = FALSE
  BY <1>1, <1>3 DEF TypedInv, TypeInv
<1> QED BY <1>1, <1>5, <1>6, <1>7, <1>8, <1>9 DEF QuietInv, Answered

LEMMA QuietNextPage == TypedInv /\ QuietInv /\ NextPage => QuietInv'
<1> SUFFICES ASSUME TypedInv, QuietInv, NextPage PROVE QuietInv'
  OBVIOUS
<1>1. /\ kind \in Kinds /\ answer # None /\ over = FALSE
      /\ UNCHANGED <<kind, tokenRules, upstream, changes, base, quiet>>
      /\ got' = (IF answer = Failed THEN got ELSE got \o answer.items)
  BY DEF TypedInv, TypeInv, NextPage
<1>2. SUFFICES ASSUME base # None, quiet PROVE QuietInv'
  BY <1>1 DEF QuietInv
<1>3. base = upstream /\ upstream \in Seq(Items[kind])
  BY <1>2 DEF QuietInv, TypedInv, TypeInv, Listed
<1>4. /\ ask # None /\ ask.page \in Int /\ ask.page >= 1
      /\ ask.per_page \in Int /\ ask.per_page \in PerPages
  BY <1>2, ListingAssumption DEF TypedInv, ControlInv
<1>5. ASSUME kind = "audit" PROVE QuietInv'
  <2>1. ASSUME answer # Failed, Receive(ask.page + 1, ask.per_page) PROVE QuietInv'
    <3>1. Opened(ask.page + 1, ask.per_page)
      BY <1>1, <1>4, <2>1, ReceiveOpens
    <3>2. answer' = None \/ answer' = Failed
      BY <1>5, <3>1 DEF Opened
    <3> QED BY <1>1, <1>3, <1>5, <3>2 DEF QuietInv, Answered
  <2>2. ASSUME UNCHANGED <<ask, fetched, answer>> PROVE QuietInv'
    BY <1>1, <1>2, <1>5, <2>2 DEF QuietInv, Answered
  <2> QED BY <2>1, <2>2 DEF NextPage
<1>6. ASSUME kind # "audit" PROVE QuietInv'
  <2> DEFINE kept == KeptBy(kind, tokenRules, base)
             a == Paginate(kept, ask.page, ask.per_page)
  <2>1. answer # Failed /\ answer = a
    BY <1>1, <1>2, <1>6 DEF QuietInv, Answered, PageOf
  <2>2. kept \in Seq(Items[kind]) /\ Len(kept) \in Nat
    BY <1>3, KeptProperties, LenProperties
  <2>3. ask.per_page > 0 => Walked(kept, ask, got, FALSE)
    BY <1>1, <1>2, <1>6 DEF QuietInv
  <2>4. got' = got \o a.items
    BY <1>1, <2>1
  <2>5. ASSUME ask.page < a.total_pages, Receive(ask.page + 1, ask.per_page), over' = over
        PROVE  QuietInv'
    <3>1. Opened(ask.page + 1, ask.per_page)
      BY <1>1, <1>4, <2>5, ReceiveOpens
    <3>2. /\ answer' # Failed
          /\ fetched' # None => FetchedUpTo(base, fetched')
          /\ answer' # None => answer' = PageOf(kind, tokenRules, base, ask')
      BY <1>3, <1>6, <3>1, OpenedQuiet
    <3>3. ask'.page = ask.page + 1 /\ ask'.per_page = ask.per_page
      BY <3>1 DEF Opened
    <3>4. ASSUME ask.per_page > 0 PROVE Walked(kept, ask', got', FALSE)
      <4> HIDE DEF kept
      <4>1. \A next : next.page = ask.page + 1 /\ next.per_page = ask.per_page
                         => Walked(kept, next, got \o a.items, FALSE)
        BY <1>4, <2>2, <2>3, <2>5, <3>4, WalkContinues
      <4> HIDE DEF a
      <4> QED BY <2>4, <3>3, <4>1
    <3> HIDE DEF a
    <3> QED BY <1>1, <1>3, <1>6, <2>5, <3>2, <3>3, <3>4 DEF QuietInv, Answered
  <2>6. ASSUME ~(ask.page < a.total_pages), over' = TRUE, UNCHANGED <<ask, fetched, answer>>
        PROVE  QuietInv'
    <3>1. ASSUME ask.per_page > 0 PROVE Walked(kept, ask, got', TRUE)
      <4> HIDE DEF kept
      <4>1. got \o a.items = kept
        BY <1>4, <2>2, <2>3, <2>6, <3>1, WalkContinues
      <4> HIDE DEF a
      <4> QED BY <2>4, <4>1 DEF Walked
    <3> HIDE DEF a
    <3> QED BY <1>1, <1>2, <1>3, <1>6, <2>6, <3>1 DEF QuietInv, Answered
  <2> QED BY <1>2, <2>1, <2>5, <2>6 DEF NextPage
<1> QED BY <1>5, <1>6

LEMMA QuietFetchPage == TypedInv /\ QuietInv /\ FetchPage => QuietInv'
<1> SUFFICES ASSUME TypedInv, QuietInv, FetchPage PROVE QuietInv'
  OBVIOUS
<1> DEFINE p == fetched.page
           items == fetched.items
                      \o Slice(upstream, (p - 1) * UpstreamPerPage, p * UpstreamPerPage)
           last == p >= CeilDiv(Len(upstream), UpstreamPerPage)
<1>1. /\ fetched # None /\ kind # "audit"
      /\ UNCHANGED <<kind, tokenRules, upstream, changes, ask, got, base, quiet, over>>
      /\ last => answer' = Page(items, ask) /\ fetched' = None
      /\ ~last => fetched' = [page |-> p + 1, items |-> items] /\ answer' = answer
  BY DEF FetchPage, UpstreamPage, UpstreamPages
<1>2. SUFFICES ASSUME base # None, quiet PROVE QuietInv'
  BY <1>1 DEF QuietInv
<1>3. /\ base = upstream /\ answer # Failed /\ FetchedUpTo(upstream, fetched)
      /\ ask.per_page > 0 => Walked(KeptBy(kind, tokenRules, base), ask, got, over)
  BY <1>1, <1>2 DEF QuietInv
<1>4. /\ upstream \in Seq(Items[kind]) /\ p \in Nat /\ p >= 1 /\ answer = None
      /\ kind \in Kinds /\ ask.page \in Int /\ ask.per_page \in Int
  BY <1>1, FetchingAsks DEF TypedInv, TypeInv, Listed
<1>5. /\ last => items = upstream
      /\ ~last => FetchedUpTo(upstream, [page |-> p + 1, items |-> items])
  BY <1>3, <1>4, FetchContinues
<1> HIDE DEF items, last
<1>6. CASE last
  <2>1. answer' = PageOf(kind, tokenRules, upstream, ask) /\ fetched' = None
    BY <1>1, <1>5, <1>6, SameFilter
  <2>2. answer' # Failed
    BY <1>4, <2>1, PageProperties, Sentinels
  <2> QED BY <1>1, <1>3, <2>1, <2>2 DEF QuietInv, Answered
<1>7. CASE ~last
  BY <1>1, <1>3, <1>4, <1>5, <1>7 DEF QuietInv, Answered
<1> QED BY <1>6, <1>7

LEMMA QuietAuditPage == TypedInv /\ QuietInv /\ AuditPage => QuietInv'
<1> SUFFICES ASSUME TypedInv, QuietInv, AuditPage PROVE QuietInv'
  OBVIOUS
<1>1. /\ fetched # None /\ kind = "audit"
      /\ UNCHANGED <<kind, tokenRules, upstream, changes, ask, got, base, quiet, over>>
  BY DEF AuditPage
<1>2. PICK s \in Orders(OfMe(upstream)) : answer' = Paginate(s, ask.page, ask.per_page)
  BY <1>1, AuditRows DEF AuditPage
<1>3. IsFiniteSet(OfMe(upstream))
  BY RowsFinite DEF TypedInv, TypeInv, Listed
<1>4. Len(s) = Cardinality(OfMe(upstream))
  BY <1>2, <1>3, OrderProperties
<1>5. answer'.total_count = Cardinality(OfMe(upstream))
  BY <1>2, <1>4 DEF Paginate
<1> QED BY <1>1, <1>5 DEF QuietInv

LEMMA QuietStep == TypedInv /\ QuietInv /\ [Next]_vars => QuietInv'
<1> SUFFICES ASSUME TypedInv, QuietInv, [Next]_vars PROVE QuietInv'
  OBVIOUS
<1>1. CASE UNCHANGED vars
  BY <1>1 DEF vars, QuietInv, Answered
<1>2. CASE AskMalformed
  BY <1>2 DEF AskMalformed, TypedInv, ControlInv, QuietInv
<1>3. CASE FetchFails
  BY <1>3 DEF FetchFails, QuietInv
<1>4. CASE Change
  BY <1>4 DEF Change, QuietInv
<1> QED BY <1>1, <1>2, <1>3, <1>4, QuietAsk, QuietNextPage, QuietFetchPage, QuietAuditPage DEF Next

LEMMA QuietInvariant == Spec => []QuietInv
<1>1. Init => QuietInv
  BY DEF Init, QuietInv
<1>2. TypedInv /\ QuietInv /\ [Next]_vars => QuietInv'
  BY QuietStep
<1> QED BY <1>1, <1>2, TypedInvariant, PTL DEF Spec

\* A client that follows the pages of an unchanging list of records or zones gets all that
\* its token may see, once and in order, and nothing else.
THEOREM WalkIsComplete == Spec => []QuietWalkIsComplete
<1>1. TypedInv /\ QuietInv => QuietWalkIsComplete
  <2> SUFFICES ASSUME TypedInv, QuietInv, over, base # None, quiet, ask.per_page > 0, kind # "audit"
               PROVE  got = Filtered(base) /\ answer.total_count = Len(got)
    BY DEF QuietWalkIsComplete
  <2>1. answer # None /\ answer # Failed /\ base \in Seq(Items[kind])
    BY DEF TypedInv, ControlInv, QuietInv, TypeInv
  <2>2. got = KeptBy(kind, tokenRules, base) /\ answer = PageOf(kind, tokenRules, base, ask)
    BY <2>1 DEF QuietInv, Answered, Walked
  <2>3. answer.total_count = Len(KeptBy(kind, tokenRules, base))
    BY <2>2 DEF PageOf, Paginate
  <2> QED BY <2>2, <2>3, SameFilter
<1> QED BY <1>1, TypedInvariant, QuietInvariant, PTL

\* As many entries of a log are the user's as there are positions that hold one: no entry
\* is in it twice.
LEMMA CountOfMine ==
    ASSUME NEW list, Listed("audit", list)
    PROVE  Cardinality(OfMe(list)) = Cardinality({i \in DOMAIN list : list[i].user = Me})
<1> DEFINE mine == {i \in DOMAIN list : list[i].user = Me}
           entry == [i \in mine |-> list[i]]
<1>1. list \in Seq(Items["audit"]) /\ \A i, j \in DOMAIN list : list[i] = list[j] => i = j
  BY DEF Listed
<1>2. IsFiniteSet(mine)
  BY <1>1, PositionsFinite
<1>3. entry \in [mine -> OfMe(list)]
  BY DEF OfMe, ToSet
<1>4. \A i, j \in mine : entry[i] = entry[j] => i = j
  BY <1>1
<1>5. \A e \in OfMe(list) : \E i \in mine : entry[i] = e
  BY DEF OfMe, ToSet
<1>6. entry \in Bijection(mine, OfMe(list))
  <2> HIDE DEF entry, mine
  <2> QED BY <1>3, <1>4, <1>5 DEF Bijection, Injection, Surjection, IsInjective
<1>7. ExistsBijection(mine, OfMe(list))
  <2> HIDE DEF entry, mine
  <2> QED BY <1>6 DEF ExistsBijection
<1> HIDE DEF mine
<1>8. Cardinality(OfMe(list)) = Cardinality(mine)
  BY <1>2, <1>7, FS_Bijection
<1> QED BY <1>8 DEF mine

(***************************************************************************)
(* The walk through the audit log, which grows meanwhile.                  *)
(***************************************************************************)
\* New entries push an entry of the user down the log, and never up; one that is alone in
\* its second was so before.
LEMMA RankGrows ==
    ASSUME NEW S, NEW list \in Seq(S), NEW longer \in Seq(S), ToSet(list) \subseteq ToSet(longer),
           \A e \in S : e.ts \in Int, NEW e \in OfMe(list)
    PROVE  /\ Rank(list, e) \in Nat /\ Rank(list, e) >= 1
           /\ Rank(longer, e) \in Nat /\ Rank(list, e) <= Rank(longer, e)
           /\ Alone(longer, e) => Alone(list, e)
<1> DEFINE before == {d \in OfMe(list) : d.ts >= e.ts}
           after == {d \in OfMe(longer) : d.ts >= e.ts}
<1>1. OfMe(list) \subseteq OfMe(longer)
  BY DEF OfMe
<1>2. /\ OfMe(list) \subseteq S
      /\ \A T \in SUBSET OfMe(list) : IsFiniteSet(T) /\ Cardinality(T) \in Nat
      /\ \A T \in SUBSET OfMe(longer) : IsFiniteSet(T) /\ Cardinality(T) \in Nat
  BY RowsFinite
<1>3. before \subseteq after /\ before \in SUBSET OfMe(list) /\ after \in SUBSET OfMe(longer)
  BY <1>1
<1>4. e \in before
  BY <1>2
<1>5. Rank(list, e) = Cardinality(before) /\ Rank(longer, e) = Cardinality(after)
  BY DEF Rank
<1> HIDE DEF before, after
<1>6. IsFiniteSet(before) /\ IsFiniteSet(after) /\ Cardinality(before) \in Nat /\ Cardinality(after) \in Nat
  BY <1>2, <1>3
<1>7. Cardinality(before) <= Cardinality(after)
  BY <1>3, <1>6, FS_Subset
<1>8. Cardinality(before) # 0
  BY <1>4, <1>6, FS_EmptySet
<1>9. Alone(longer, e) => Alone(list, e)
  BY <1>1 DEF Alone
<1> QED BY <1>5, <1>6, <1>7, <1>8, <1>9

\* A slice holds the items at the positions between its bounds.
LEMMA SliceHolds ==
    ASSUME NEW S, NEW s \in Seq(S), NEW start \in Nat, NEW w \in Nat,
           NEW k \in 1..Len(s), start < k, k <= start + w
    PROVE  s[k] \in ToSet(Slice(s, start, start + w))
<1> DEFINE n == Len(s)
           b == Clip(start + w, n)
           cut == SubSeq(s, start + 1, b)
<1>1. n \in Nat /\ DOMAIN s = 1..n /\ \A j \in 1..n : s[j] \in S
  BY LenProperties, ElementOfSeq
<1> HIDE DEF n
<1>2. k \in Nat /\ k >= 1 /\ k <= n
  BY <1>1 DEF n
<1>3. Clip(start, n) = start /\ b \in 0..n /\ k <= b
  BY <1>1, <1>2 DEF Clip
<1>4. Slice(s, start, start + w) = SubSeq(s, Clip(start, n) + 1, b)
  BY SliceIsSubSeq DEF n
<1>5. Slice(s, start, start + w) = cut
  BY <1>3, <1>4
<1> HIDE DEF b
<1>6. b \in Nat /\ \A j \in (start + 1)..b : s[j] \in S
  BY <1>1, <1>3
<1>7. /\ cut \in Seq(S)
      /\ Len(cut) = IF start + 1 <= b THEN b - (start + 1) + 1 ELSE 0
      /\ \A i \in 1..(b - (start + 1) + 1) : cut[i] = s[start + 1 + i - 1]
  BY <1>6, SubSeqProperties
<1> HIDE DEF cut
<1>8. DOMAIN cut = 1..Len(cut) /\ Len(cut) \in Nat
  BY <1>7, LenProperties
<1> DEFINE i == k - start
<1>9. i \in 1..(b - (start + 1) + 1) /\ i \in 1..Len(cut) /\ start + 1 + i - 1 = k
  BY <1>2, <1>3, <1>6, <1>7
<1> HIDE DEF i
<1>10. cut[i] = s[k]
  BY <1>7, <1>9
<1> QED BY <1>5, <1>8, <1>9, <1>10 DEF ToSet

\* The entries of the log have numbers for timestamps.
LEMMA AuditTimes ==
    ASSUME kind \in Kinds, kind = "audit" PROVE \A e \in Items[kind] : e.ts \in Int
BY ListsAssumption

LEMMA AuditAsk ==
    ASSUME TypedInv, NEW page \in Pages, NEW perPage \in PerPages, Ask(page, perPage)
    PROVE  AuditInv'
<1>1. /\ kind \in Kinds /\ page \in Int /\ perPage \in Int
      /\ UNCHANGED <<kind, tokenRules, upstream, changes, got, over>>
      /\ base' = (IF page = 1 THEN upstream ELSE None)
      /\ ask = None /\ Receive(page, perPage)
  BY ListingAssumption DEF TypedInv, TypeInv, Ask
<1>2. Opened(page, perPage)
  BY <1>1, ReceiveOpens
<1>3. ~over /\ upstream \in Seq(Items[kind])
  BY <1>1 DEF TypedInv, ControlInv, TypeInv, Listed
<1>4. SUFFICES ASSUME kind = "audit", base' # None PROVE AuditInv'
  BY <1>1 DEF AuditInv
<1>5. base' = upstream /\ ask'.page = 1 /\ ask'.per_page = perPage
  BY <1>1, <1>2, <1>4 DEF Opened
<1>6. answer' = None \/ answer' = Failed
  BY <1>2, <1>4 DEF Opened
<1>7. ASSUME answer' # Failed, NEW e \in OfMe(upstream) PROVE ShownOrAhead(e)'
  <2>1. Rank(upstream, e) \in Nat /\ Rank(upstream, e) >= 1
    BY <1>1, <1>3, <1>4, AuditTimes, RankGrows
  <2>2. (ask'.page - 1) * ask'.per_page = 0
    BY <1>1, <1>5
  <2>3. Rank(upstream, e) > (ask'.page - 1) * ask'.per_page
    BY <2>1, <2>2
  <2> QED BY <1>1, <1>3, <1>6, <1>7, <2>3 DEF ShownOrAhead
<1>8. OfMe(upstream)' = OfMe(upstream)
  BY <1>1
<1> QED BY <1>1, <1>5, <1>6, <1>7, <1>8 DEF AuditInv, Answered

\* What was on the page just read has been shown; what was behind it is ahead of the next
\* page, and there is a next page as long as the count says so.
LEMMA AuditNextPage == TypedInv /\ AuditInv /\ NextPage => AuditInv'
<1> SUFFICES ASSUME TypedInv, AuditInv, NextPage PROVE AuditInv'
  OBVIOUS
<1>1. /\ kind \in Kinds /\ answer # None /\ over = FALSE
      /\ UNCHANGED <<kind, tokenRules, upstream, changes, base, quiet>>
      /\ got' = (IF answer = Failed THEN got ELSE got \o answer.items)
  BY DEF TypedInv, TypeInv, NextPage
<1>2. SUFFICES ASSUME kind = "audit", base # None PROVE AuditInv'
  BY <1>1 DEF AuditInv
<1>3. ToSet(base) \subseteq ToSet(upstream) /\ upstream \in Seq(Items[kind])
  BY <1>2 DEF AuditInv, TypedInv, TypeInv, Listed
<1>4. CASE answer = Failed
  <2>1. answer' = Failed
    BY <1>4 DEF NextPage
  <2> QED BY <1>1, <1>3, <2>1 DEF AuditInv, Answered
<1>5. CASE answer # Failed
  <2> DEFINE p == ask.page
             w == ask.per_page
             total == answer.total_count
             mine == OfMe(upstream) \cap ToSet(base)
  <2>1. /\ p \in Nat /\ p >= 1 /\ w \in Nat \ {0} /\ w \in PerPages /\ p \in Int
        /\ total \in Nat /\ answer.items \in Seq(Items[kind]) /\ got \in Seq(Items[kind])
    <3>1. p \in Int /\ p >= 1 /\ w \in PerPages /\ w >= 1
      BY <1>2, <1>5 DEF TypedInv, ControlInv
    <3>2. w \in Int
      BY <3>1, ListingAssumption
    <3>3. answer \in Answers(kind) /\ got \in Seq(Items[kind])
      BY <1>1, <1>5 DEF TypedInv, TypeInv
    <3> QED BY <3>1, <3>2, <3>3 DEF Answers
  <2>2. answer.total_pages = CeilDiv(total, w)
    BY <1>1, <1>2, <1>5 DEF AuditInv, Answered
  <2>3. CeilDiv(total, w) \in Nat /\ (p < CeilDiv(total, w) <=> p * w < total)
    BY <2>1, CeilDivBounds
  <2>4. ToSet(got') = ToSet(got) \cup ToSet(answer.items)
    <3>1. got' = got \o answer.items
      BY <1>1, <1>5
    <3>2. /\ Len(got) \in Nat /\ DOMAIN got = 1..Len(got)
          /\ Len(answer.items) \in Nat /\ DOMAIN answer.items = 1..Len(answer.items)
      BY <2>1, LenProperties
    <3>3. /\ got' \in Seq(Items[kind]) /\ Len(got') = Len(got) + Len(answer.items)
          /\ \A i \in 1..(Len(got) + Len(answer.items)) :
                got'[i] = IF i <= Len(got) THEN got[i] ELSE answer.items[i - Len(got)]
      BY <2>1, <3>1, ConcatProperties
    <3>4. DOMAIN got' = 1..(Len(got) + Len(answer.items))
      BY <3>3, LenProperties
    <3>5. \A i \in DOMAIN got : i \in DOMAIN got' /\ got'[i] = got[i]
      BY <3>2, <3>3, <3>4
    <3>6. \A i \in DOMAIN answer.items :
             Len(got) + i \in DOMAIN got' /\ got'[Len(got) + i] = answer.items[i]
      BY <3>2, <3>3, <3>4
    <3>7. \A i \in DOMAIN got' : got'[i] \in ToSet(got) \cup ToSet(answer.items)
      BY <3>2, <3>3, <3>4 DEF ToSet
    <3> QED BY <3>5, <3>6, <3>7 DEF ToSet
  <2>5. \A e \in mine : Alone(upstream, e) =>
           \/ e \in ToSet(got')
           \/ Rank(upstream, e) > p * w /\ p * w < total
    BY <1>1, <1>2, <1>5, <2>4 DEF AuditInv, ShownOrAhead
  <2>6. ASSUME p < answer.total_pages, Receive(p + 1, w), over' = over PROVE AuditInv'
    <3>1. Opened(p + 1, w)
      BY <1>1, <2>1, <2>6, ReceiveOpens
    <3>2. /\ answer' = None \/ answer' = Failed
          /\ ask'.page = p + 1 /\ ask'.per_page = w
      BY <1>2, <3>1 DEF Opened
    <3> DEFINE m == ask'.page - 1
    <3>3. m = p
      BY <2>1, <3>2
    <3> HIDE DEF m
    <3>4. m * ask'.per_page = p * w
      BY <3>2, <3>3
    <3>5. (ask'.page - 1) * ask'.per_page = p * w
      BY <3>4 DEF m
    <3> HIDE DEF p, w, total
    <3>6. ASSUME answer' # Failed, NEW e \in mine, Alone(upstream, e) PROVE ShownOrAhead(e)'
      BY <1>1, <2>5, <2>6, <3>2, <3>5, <3>6 DEF ShownOrAhead
    <3> QED BY <1>1, <1>3, <3>2, <3>6 DEF AuditInv, Answered
  <2>7. ASSUME ~(p < answer.total_pages), over' = TRUE, UNCHANGED <<ask, fetched, answer>>
        PROVE  AuditInv'
    <3>1. ~(p * w < total)
      BY <2>2, <2>3, <2>7
    <3>2. \A e \in mine : Alone(upstream, e) => ShownOrAhead(e)'
      BY <2>5, <3>1 DEF ShownOrAhead
    <3>3. Answered' => answer'.total_pages = CeilDiv(answer'.total_count, ask'.per_page)
      BY <2>2, <2>7
    <3> HIDE DEF p, w, total
    <3> QED BY <1>1, <1>3, <3>2, <3>3 DEF AuditInv
  <2> QED BY <1>2, <1>5, <2>6, <2>7 DEF NextPage
<1> QED BY <1>4, <1>5

\* The entry is at its rank in the order the database gives: on the page, or behind it.
LEMMA AuditAuditPage == TypedInv /\ AuditInv /\ AuditPage => AuditInv'
<1> SUFFICES ASSUME TypedInv, AuditInv, AuditPage PROVE AuditInv'
  OBVIOUS
<1>1. /\ fetched # None /\ kind = "audit"
      /\ UNCHANGED <<kind, tokenRules, upstream, changes, ask, got, base, quiet, over>>
  BY DEF AuditPage
<1>2. PICK s \in Orders(OfMe(upstream)) : answer' = Paginate(s, ask.page, ask.per_page)
  BY <1>1, AuditRows DEF AuditPage
<1>3. SUFFICES ASSUME base # None PROVE AuditInv'
  BY <1>1 DEF AuditInv
<1> DEFINE p == ask.page
           w == ask.per_page
           start == (p - 1) * w
           mine == OfMe(upstream) \cap ToSet(base)
<1>4. /\ kind \in Kinds /\ answer = None /\ answer # Failed /\ ~over
      /\ p \in Nat /\ p >= 1 /\ w \in Nat \ {0}
  <2>1. /\ kind \in Kinds /\ ask # None /\ answer = None /\ ~over
        /\ ask.page \in Int /\ ask.per_page \in Int
    BY <1>1, FetchingAsks
  <2>2. answer # Failed
    BY <2>1, Sentinels
  <2>3. ask.page >= 1 /\ ask.per_page >= 1
    BY <1>1, <1>3, <2>1, <2>2 DEF TypedInv, ControlInv
  <2> QED BY <2>1, <2>2, <2>3
<1>5. upstream \in Seq(Items[kind]) /\ \A e \in Items[kind] : e.ts \in Int
  BY <1>1, <1>4, AuditTimes DEF TypedInv, TypeInv, Listed
<1>6. IsFiniteSet(OfMe(upstream))
  BY <1>5, RowsFinite
<1>7. s \in Seq(OfMe(upstream)) /\ Len(s) \in Nat
  BY <1>2, <1>6, OrderProperties, LenProperties
<1>8. /\ answer'.items = Slice(s, start, start + w)
      /\ answer'.total_count = Len(s)
      /\ answer'.total_pages = CeilDiv(Len(s), w)
  BY <1>2, <1>4 DEF Paginate
<1>9. answer' # None
  <2>1. s \in Seq(Items[kind])
    BY <1>5, <1>7, RowsFinite, SeqMonotonic
  <2>2. answer' \in Answers(kind)
    BY <1>2, <1>4, <2>1, PaginateProperties DEF Answers
  <2> QED BY <1>4, <2>2, Sentinels
<1>10. start \in Nat /\ p * w \in Nat
  BY <1>4, StartIsNat
<1>11. start + w = p * w
  BY <1>4, NextStart
<1>12. ASSUME NEW e \in mine, Alone(upstream, e) PROVE ShownOrAhead(e)'
  <2> DEFINE r == Rank(upstream, e)
  <2>1. r \in 1..Len(s) /\ s[r] = e
    BY <1>2, <1>5, <1>12, AloneHasItsRank
  <2>2. e \in ToSet(got) \/ r > start
    BY <1>1, <1>3, <1>4, <1>12 DEF AuditInv, ShownOrAhead
  <2> HIDE DEF r, p, w, start
  <2>3. ASSUME r > start, r <= start + w PROVE e \in ToSet(answer'.items)
    BY <1>4, <1>7, <1>8, <1>10, <2>1, <2>3, SliceHolds
  <2>4. ASSUME r > start + w PROVE r > p * w /\ p * w < answer'.total_count
    BY <1>7, <1>8, <1>10, <1>11, <2>1, <2>4
  <2>5. r \in Nat /\ start + w \in Nat
    BY <1>4, <1>10, <2>1
  <2>6. \/ e \in ToSet(got) \/ e \in ToSet(answer'.items)
        \/ r > p * w /\ p * w < answer'.total_count
    BY <2>2, <2>3, <2>4, <2>5
  <2> QED BY <1>1, <1>4, <1>9, <2>6 DEF ShownOrAhead, r, p, w
<1> QED BY <1>1, <1>3, <1>8, <1>12 DEF AuditInv

LEMMA AuditChange == TypedInv /\ AuditInv /\ Change => AuditInv'
<1> SUFFICES ASSUME TypedInv, AuditInv, Change PROVE AuditInv'
  OBVIOUS
<1>1. UNCHANGED <<kind, tokenRules, ask, fetched, answer, got, base, over>>
  BY DEF Change
<1>2. SUFFICES ASSUME kind = "audit", base # None PROVE AuditInv'
  BY <1>1 DEF AuditInv
<1>3. kind \in Kinds /\ Listed(kind, upstream) /\ upstream \in Seq(Items[kind]) /\ Len(upstream) \in Nat
  BY LenProperties DEF TypedInv, TypeInv, Listed
<1>4. PICK item \in Items[kind] :
         /\ \A j \in DOMAIN upstream : upstream[j].id # item.id
         /\ upstream' = InsertAt(upstream, 1, item)
  BY <1>2 DEF Change
<1>5. upstream' \in Seq(Items[kind]) /\ ToSet(upstream) \subseteq ToSet(upstream')
  <2>1. 1 \in 1..(Len(upstream) + 1)
    BY <1>3
  <2> QED BY <1>3, <1>4, <2>1, InsertListed DEF Listed
<1>6. ToSet(base) \subseteq ToSet(upstream)
  BY <1>2 DEF AuditInv
<1>7. ASSUME answer # Failed, NEW e \in OfMe(upstream') \cap ToSet(base), Alone(upstream', e)
      PROVE  ShownOrAhead(e)'
  <2>1. e \in OfMe(upstream)
    BY <1>6 DEF OfMe
  <2>2. /\ Rank(upstream, e) \in Nat /\ Rank(upstream', e) \in Nat
        /\ Rank(upstream, e) <= Rank(upstream', e) /\ Alone(upstream, e)
    BY <1>2, <1>3, <1>5, <1>7, <2>1, AuditTimes, RankGrows
  <2>3. ShownOrAhead(e)
    BY <1>2, <1>7, <2>1, <2>2 DEF AuditInv
  <2>4. \A n \in Int : Rank(upstream, e) > n => Rank(upstream', e) > n
    BY <2>2
  <2>5. ask.page \in Int /\ ask.per_page \in Int
    BY <1>2, ListingAssumption DEF TypedInv, ControlInv
  <2>6. (ask.page - 1) * ask.per_page \in Int /\ ask.page * ask.per_page \in Int
    BY <2>5
  <2> QED BY <1>1, <2>3, <2>4, <2>6 DEF ShownOrAhead
<1> QED BY <1>1, <1>2, <1>5, <1>6, <1>7 DEF AuditInv, Answered

LEMMA AuditStep == TypedInv /\ AuditInv /\ [Next]_vars => AuditInv'
<1> SUFFICES ASSUME TypedInv, AuditInv, [Next]_vars PROVE AuditInv'
  OBVIOUS
<1>1. CASE UNCHANGED vars
  BY <1>1 DEF vars, AuditInv, Answered, ShownOrAhead
<1>2. CASE AskMalformed
  BY <1>2 DEF AskMalformed, TypedInv, ControlInv, AuditInv
<1>3. CASE FetchPage
  BY <1>3 DEF FetchPage, AuditInv
<1>4. CASE FetchFails
  <2>1. kind = "audit" => answer' = Failed
    BY <1>4 DEF FetchFails
  <2> QED BY <1>4, <2>1 DEF FetchFails, AuditInv, Answered
<1> QED BY <1>1, <1>2, <1>3, <1>4, AuditAsk, AuditNextPage, AuditAuditPage, AuditChange DEF Next

LEMMA AuditInvariant == Spec => []AuditInv
<1>1. Init => AuditInv
  BY DEF Init, AuditInv
<1>2. TypedInv /\ AuditInv /\ [Next]_vars => AuditInv'
  BY AuditStep
<1> QED BY <1>1, <1>2, TypedInvariant, PTL DEF Spec

\* A walk through the audit log that ends without a failure has shown every entry there was
\* when it began, whatever has been written to the log meanwhile and in whatever order the
\* database gave entries of the same second, unless the entry shares its second with another.
THEOREM AuditWalkIsComplete == Spec => []AuditWalkSkipsNothing
<1>1. TypedInv /\ AuditInv => AuditWalkSkipsNothing
  <2> SUFFICES ASSUME TypedInv, AuditInv, over, base # None, kind = "audit", answer # Failed,
                      NEW e \in OfMe(upstream) \cap ToSet(base),
                      \A d \in OfMe(upstream) : d.ts = e.ts => d = e
               PROVE  e \in ToSet(got)
    BY AuditRows DEF AuditWalkSkipsNothing
  <2>1. Alone(upstream, e)
    BY DEF Alone
  <2> QED BY <2>1 DEF AuditInv, ShownOrAhead
<1> QED BY <1>1, TypedInvariant, AuditInvariant, PTL

\* The item and page counts of an answer are those of what the token may see, of a list
\* that is otherwise arbitrary: nothing else about the list shows in them.
THEOREM CountsOnlyTheVisible == Spec => []CountsHideTheRest
<1>1. TypedInv /\ QuietInv /\ AuditInv => CountsHideTheRest
  <2> SUFFICES ASSUME TypedInv, QuietInv, AuditInv, Answered, quiet, base # None
               PROVE  /\ answer.total_count = Cardinality(SeenBy(kind, tokenRules, base))
                      /\ answer.total_pages =
                            IF ask.per_page > 0
                            THEN CeilDiv(Cardinality(SeenBy(kind, tokenRules, base)), ask.per_page)
                            ELSE 0
    BY DEF CountsHideTheRest, SeenBy, InScope
  <2>1. base = upstream /\ Listed(kind, upstream) /\ upstream \in Seq(Items[kind])
    BY DEF QuietInv, TypedInv, TypeInv, Listed
  <2>2. CASE kind = "audit"
    <3>1. answer.total_count = Cardinality(OfMe(base))
      BY <2>1, <2>2 DEF QuietInv
    <3>2. SeenBy(kind, tokenRules, base) = {i \in DOMAIN base : base[i].user = Me}
      BY <2>2, AuditRows DEF SeenBy
    <3>3. answer.total_count = Cardinality(SeenBy(kind, tokenRules, base))
      BY <2>1, <2>2, <3>1, <3>2, CountOfMine
    <3>4. ask.per_page \in Int /\ ask.per_page >= 1
      BY <2>2, ListingAssumption DEF TypedInv, ControlInv, Answered
    <3>5. answer.total_pages = CeilDiv(answer.total_count, ask.per_page)
      BY <2>2 DEF AuditInv
    <3> QED BY <3>3, <3>4, <3>5
  <2>3. CASE kind # "audit"
    <3>1. ask.page \in Int /\ ask.per_page \in Int
      BY ListingAssumption DEF TypedInv, ControlInv
    <3>2. answer = PageOf(kind, tokenRules, base, ask)
      BY <2>3 DEF QuietInv
    <3> QED BY <2>1, <3>1, <3>2, PageProperties
  <2> QED BY <2>2, <2>3
<1> QED BY <1>1, TypedInvariant, QuietInvariant, AuditInvariant, PTL
=============================================================================
