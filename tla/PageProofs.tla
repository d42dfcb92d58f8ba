----------------------------- MODULE PageProofs -----------------------------
(***************************************************************************)
(* Proofs about the pages of WebApp that list rows, for any tables, any    *)
(* order in which the answers arrive, and any bounds.  What the pages have *)
(* in common comes first: sorted rows, what a list answers, and requests   *)
(* in flight; then the invariant of such a page, the steps of each, and    *)
(* what the pages of accounts and of runs keep besides.                    *)
(***************************************************************************)
EXTENDS WebApp, FiniteSetTheorems, TLAPS

-----------------------------------------------------------------------------
(* Sorted rows.                                                            *)

\* Every row has its own place: as many others come before it as the place says.
LEMMA RowsHavePlaces ==
  ASSUME NEW rows, IsFiniteSet(rows), Ordered(rows), NEW i \in 1..Cardinality(rows)
  PROVE  \E r \in rows : Cardinality(Before(rows, r)) = i - 1
<1> DEFINE n == Cardinality(rows)
           rank == [r \in rows |-> Cardinality(Before(rows, r))]
<1>1. n \in Nat
  BY FS_CardinalityType
<1>2. ASSUME NEW r \in rows
      PROVE  IsFiniteSet(Before(rows, r)) /\ rank[r] = Cardinality(Before(rows, r)) /\ rank[r] \in 0..n - 1
  <2>1. IsFiniteSet(rows \ {r}) /\ Cardinality(rows \ {r}) = n - 1
    BY FS_RemoveElement
  <2>2. Before(rows, r) \in SUBSET (rows \ {r})
    BY DEF Before
  <2>3. IsFiniteSet(Before(rows, r)) /\ Cardinality(Before(rows, r)) <= n - 1
    BY <2>1, <2>2, FS_Subset
  <2> QED
    BY <1>1, <2>3, FS_CardinalityType
<1>3. ASSUME NEW r \in rows, NEW s \in rows, Later(r, s), r # s
      PROVE  rank[r] < rank[s]
  <2>1. Before(rows, r) \subseteq Before(rows, s) /\ r \in Before(rows, s) /\ r \notin Before(rows, r)
    BY <1>3 DEF Before, Ordered
  <2>2. Before(rows, r) \in SUBSET (Before(rows, s) \ {r})
    BY <2>1
  <2>3. /\ IsFiniteSet(Before(rows, s) \ {r})
        /\ Cardinality(Before(rows, s) \ {r}) = Cardinality(Before(rows, s)) - 1
    BY <1>2, <2>1, FS_RemoveElement
  <2>4. Cardinality(Before(rows, r)) <= Cardinality(Before(rows, s)) - 1
    BY <2>2, <2>3, FS_Subset
  <2>5. rank[r] \in Int /\ rank[s] \in Int
    BY <1>1, <1>2
  <2> QED
    BY <1>2, <2>4, <2>5
<1>4. rank \in Injection(rows, 0..n - 1)
  <2>1. rank \in [rows -> 0..n - 1]
    BY <1>2
  <2>2. ASSUME NEW r \in rows, NEW s \in rows, rank[r] = rank[s] PROVE r = s
    <3>1. rank[r] \in Int /\ rank[s] \in Int
      BY <1>1, <1>2
    <3> QED
      BY <1>3, <2>2, <3>1 DEF Ordered
  <2> HIDE DEF rank, n
  <2> QED
    BY <2>1, <2>2 DEF Injection, IsInjective
<1>5. IsFiniteSet(0..n - 1) /\ Cardinality(0..n - 1) = n
  <2> HIDE DEF n
  <2>1. 0 \in Int /\ n - 1 \in Int /\ (0 > n - 1 <=> n = 0)
    BY <1>1
  <2>2. /\ IsFiniteSet(0..n - 1)
        /\ Cardinality(0..n - 1) = IF 0 > n - 1 THEN 0 ELSE (n - 1) - 0 + 1
    BY <2>1, FS_Interval
  <2> QED
    BY <1>1, <2>1, <2>2
<1>6. rank \in Surjection(rows, 0..n - 1)
  <2> HIDE DEF rank
  <2> QED
    BY <1>4, <1>5, FS_Injection
<1>7. i - 1 \in 0..n - 1
  BY <1>1
<1> HIDE DEF n
<1>8. PICK r \in rows : rank[r] = i - 1
  <2> HIDE DEF rank
  <2> QED
    BY <1>6, <1>7 DEF Surjection
<1> QED
  BY <1>8

\* The sorted rows are the rows, each of them somewhere.
LEMMA NewestRows ==
  ASSUME NEW rows, IsFiniteSet(rows), Ordered(rows)
  PROVE  /\ Newest(rows) \in [1..Cardinality(rows) -> rows]
         /\ \A r \in rows : \E i \in DOMAIN Newest(rows) : Newest(rows)[i] = r
<1> DEFINE n == Cardinality(rows)
           at(i) == CHOOSE r \in rows : Cardinality(Before(rows, r)) = i - 1
<1>1. \A i \in 1..n : at(i) \in rows /\ Cardinality(Before(rows, at(i))) = i - 1
  BY RowsHavePlaces
<1>2. Newest(rows) = [i \in 1..n |-> at(i)]
  BY DEF Newest
<1> HIDE DEF at
<1>3. n \in Nat
  BY FS_CardinalityType
<1>4. Newest(rows) \in [1..n -> rows]
  BY <1>1, <1>2
<1>5. Newest(rows) \in Injection(1..n, rows)
  <2>1. ASSUME NEW i \in 1..n, NEW j \in 1..n, at(i) = at(j) PROVE i = j
    <3>1. i - 1 = j - 1
      BY <1>1, <2>1
    <3> QED
      BY <3>1
  <2> QED
    BY <1>2, <1>4, <2>1 DEF Injection, IsInjective
<1>6. IsFiniteSet(1..n) /\ Cardinality(1..n) = n
  BY <1>3, FS_Interval
<1>7. Newest(rows) \in Surjection(1..n, rows)
  BY <1>5, <1>6, FS_Injection
<1> QED
  BY <1>4, <1>7 DEF Surjection

LEMMA SmallestOfTwo ==
  ASSUME NEW a \in Int, NEW b \in Int
  PROVE  Min({a, b}) = IF a <= b THEN a ELSE b
BY DEF Min

LEMMA GreatestOfTwo ==
  ASSUME NEW a \in Int, NEW b \in Int
  PROVE  Max({a, b}) = IF a <= b THEN b ELSE a
BY DEF Max

LEMMA ProductIsNat == ASSUME NEW a \in Nat, NEW b \in Nat PROVE a * b \in Nat
OBVIOUS

\* A page holds rows of the list.
LEMMA SliceOfRows ==
  ASSUME NEW rows, NEW n \in Nat, NEW s \in [1..n -> rows], NEW page \in Nat \ {0}, NEW limit \in Nat
  PROVE  \A i \in DOMAIN Slice(s, page, limit) : Slice(s, page, limit)[i] \in rows
<1> DEFINE low == (page - 1) * limit + 1
           high == page * limit
           top == Min({high, Len(s)})
<1>1. low \in Nat \ {0} /\ high \in Nat
  BY ProductIsNat
<1>2. s \in Seq(rows) /\ Len(s) = n
  OBVIOUS
<1>3. top \in Nat /\ top <= n
  BY <1>1, <1>2, SmallestOfTwo
<1>4. Slice(s, page, limit) = SubSeq(s, low, top)
  BY DEF Slice
<1> HIDE DEF low, top
<1>5. ASSUME NEW i \in DOMAIN SubSeq(s, low, top) PROVE SubSeq(s, low, top)[i] \in rows
  BY <1>1, <1>2, <1>3, <1>5
<1> QED
  BY <1>4, <1>5

LEMMA RowLimitIsPositive ==
  ASSUME NEW q, q.limit \in Nat \ {0}
  PROVE  RowLimit(q) \in Nat \ {0}
BY SmallestOfTwo, GreatestOfTwo DEF RowLimit

-----------------------------------------------------------------------------
(* What the pages have in common is the same in each of them.              *)

LEMMA SameOrder ==
  ASSUME NEW rows
  PROVE  /\ T!Newest(rows) = Newest(rows)
         /\ E!Newest(rows) = Newest(rows)
         /\ K!Newest(rows) = Newest(rows)
         /\ L!Newest(rows) = Newest(rows)
         /\ A!Newest(rows) = Newest(rows)
         /\ R!Newest(rows) = Newest(rows)
         /\ M!Newest(rows) = Newest(rows)
BY DEF Newest, T!Newest, E!Newest, K!Newest, L!Newest, A!Newest, R!Newest, M!Newest,
   Before, T!Before, E!Before, K!Before, L!Before, A!Before, R!Before, M!Before, Later,
   T!Later, E!Later, K!Later, L!Later, A!Later, R!Later, M!Later, Cardinality,
   T!Cardinality, E!Cardinality, K!Cardinality, L!Cardinality, A!Cardinality,
   R!Cardinality, M!Cardinality

LEMMA SameLibrary ==
  ASSUME NEW X, NEW s
  PROVE  /\ T!Min(X) = Min(X) /\ T!Max(X) = Max(X) /\ T!Reverse(s) = Reverse(s)
         /\ E!Min(X) = Min(X) /\ E!Max(X) = Max(X) /\ E!Reverse(s) = Reverse(s)
         /\ K!Min(X) = Min(X) /\ K!Max(X) = Max(X) /\ K!Reverse(s) = Reverse(s)
         /\ L!Min(X) = Min(X) /\ L!Max(X) = Max(X) /\ L!Reverse(s) = Reverse(s)
         /\ A!Min(X) = Min(X) /\ A!Max(X) = Max(X) /\ A!Reverse(s) = Reverse(s)
         /\ R!Min(X) = Min(X) /\ R!Max(X) = Max(X) /\ R!Reverse(s) = Reverse(s)
         /\ M!Min(X) = Min(X) /\ M!Max(X) = Max(X) /\ M!Reverse(s) = Reverse(s)
         /\ T!Cardinality(X) = Cardinality(X)
         /\ E!Cardinality(X) = Cardinality(X)
         /\ K!Cardinality(X) = Cardinality(X)
         /\ L!Cardinality(X) = Cardinality(X)
         /\ A!Cardinality(X) = Cardinality(X)
         /\ R!Cardinality(X) = Cardinality(X)
         /\ M!Cardinality(X) = Cardinality(X)
BY DEF Min, T!Min, E!Min, K!Min, L!Min, A!Min, R!Min, M!Min, Max, T!Max, E!Max, K!Max,
   L!Max, A!Max, R!Max, M!Max, Reverse, T!Reverse, E!Reverse, K!Reverse, L!Reverse,
   A!Reverse, R!Reverse, M!Reverse, Cardinality, T!Cardinality, E!Cardinality,
   K!Cardinality, L!Cardinality, A!Cardinality, R!Cardinality, M!Cardinality

LEMMA SameSlices ==
  ASSUME NEW rows, NEW order, NEW page, NEW limit, NEW total, NEW q
  PROVE  /\ T!Sorted(rows, order) = Sorted(rows, order)
         /\ E!Sorted(rows, order) = Sorted(rows, order)
         /\ K!Sorted(rows, order) = Sorted(rows, order)
         /\ L!Sorted(rows, order) = Sorted(rows, order)
         /\ A!Sorted(rows, order) = Sorted(rows, order)
         /\ R!Sorted(rows, order) = Sorted(rows, order)
         /\ M!Sorted(rows, order) = Sorted(rows, order)
         /\ T!Slice(rows, page, limit) = Slice(rows, page, limit)
         /\ E!Slice(rows, page, limit) = Slice(rows, page, limit)
         /\ K!Slice(rows, page, limit) = Slice(rows, page, limit)
         /\ L!Slice(rows, page, limit) = Slice(rows, page, limit)
         /\ A!Slice(rows, page, limit) = Slice(rows, page, limit)
         /\ R!Slice(rows, page, limit) = Slice(rows, page, limit)
         /\ M!Slice(rows, page, limit) = Slice(rows, page, limit)
         /\ T!PageNumber(q) = PageNumber(q) /\ T!RowLimit(q) = RowLimit(q)
         /\ E!PageNumber(q) = PageNumber(q) /\ E!RowLimit(q) = RowLimit(q)
         /\ K!PageNumber(q) = PageNumber(q) /\ K!RowLimit(q) = RowLimit(q)
         /\ L!PageNumber(q) = PageNumber(q) /\ L!RowLimit(q) = RowLimit(q)
         /\ A!PageNumber(q) = PageNumber(q) /\ A!RowLimit(q) = RowLimit(q)
         /\ R!PageNumber(q) = PageNumber(q) /\ R!RowLimit(q) = RowLimit(q)
         /\ M!PageNumber(q) = PageNumber(q) /\ M!RowLimit(q) = RowLimit(q)
         /\ T!Pagination(total, page, limit) = Pagination(total, page, limit)
         /\ E!Pagination(total, page, limit) = Pagination(total, page, limit)
         /\ K!Pagination(total, page, limit) = Pagination(total, page, limit)
         /\ L!Pagination(total, page, limit) = Pagination(total, page, limit)
         /\ A!Pagination(total, page, limit) = Pagination(total, page, limit)
         /\ R!Pagination(total, page, limit) = Pagination(total, page, limit)
         /\ M!Pagination(total, page, limit) = Pagination(total, page, limit)
BY SameOrder, SameLibrary DEF Slice, T!Slice, E!Slice, K!Slice, L!Slice, A!Slice, R!Slice,
   M!Slice, Sorted, T!Sorted, E!Sorted, K!Sorted, L!Sorted, A!Sorted, R!Sorted, M!Sorted,
   Oldest, T!Oldest, E!Oldest, K!Oldest, L!Oldest, A!Oldest, R!Oldest, M!Oldest,
   PageNumber, T!PageNumber, E!PageNumber, K!PageNumber, L!PageNumber, A!PageNumber,
   R!PageNumber, M!PageNumber, RowLimit, T!RowLimit, E!RowLimit, K!RowLimit, L!RowLimit,
   A!RowLimit, R!RowLimit, M!RowLimit, Pagination, T!Pagination, E!Pagination,
   K!Pagination, L!Pagination, A!Pagination, R!Pagination, M!Pagination

LEMMA SamePages ==
  ASSUME NEW found, NEW counted, NEW q
  PROVE  /\ T!PageOf(found, counted, q) = PageOf(found, counted, q)
         /\ E!PageOf(found, counted, q) = PageOf(found, counted, q)
         /\ K!PageOf(found, counted, q) = PageOf(found, counted, q)
         /\ L!PageOf(found, counted, q) = PageOf(found, counted, q)
         /\ A!PageOf(found, counted, q) = PageOf(found, counted, q)
         /\ R!PageOf(found, counted, q) = PageOf(found, counted, q)
         /\ M!PageOf(found, counted, q) = PageOf(found, counted, q)
BY SameSlices, SameLibrary DEF PageOf, T!PageOf, E!PageOf, K!PageOf, L!PageOf, A!PageOf,
   R!PageOf, M!PageOf

LEMMA SameAnswers ==
  ASSUME NEW body
  PROVE  /\ T!Ok(body) = Ok(body) /\ T!BadRequest = BadRequest /\ T!Failed = Failed
         /\ E!Ok(body) = Ok(body) /\ E!BadRequest = BadRequest /\ E!Failed = Failed
         /\ K!Ok(body) = Ok(body) /\ K!BadRequest = BadRequest /\ K!Failed = Failed
         /\ L!Ok(body) = Ok(body) /\ L!BadRequest = BadRequest /\ L!Failed = Failed
         /\ A!Ok(body) = Ok(body) /\ A!BadRequest = BadRequest /\ A!Failed = Failed
         /\ R!Ok(body) = Ok(body) /\ R!BadRequest = BadRequest /\ R!Failed = Failed
         /\ M!Ok(body) = Ok(body) /\ M!BadRequest = BadRequest /\ M!Failed = Failed
BY DEF Ok, T!Ok, E!Ok, K!Ok, L!Ok, A!Ok, R!Ok, M!Ok, Spread, T!Spread, E!Spread, K!Spread,
   L!Spread, A!Spread, R!Spread, M!Spread, BadRequest, T!BadRequest, E!BadRequest,
   K!BadRequest, L!BadRequest, A!BadRequest, R!BadRequest, M!BadRequest, Failed, T!Failed,
   E!Failed, K!Failed, L!Failed, A!Failed, R!Failed, M!Failed

LEMMA SameRequests ==
  ASSUME NEW u, NEW q, NEW page, NEW i
  PROVE  /\ T!Request(q, page) = Request(q, page)
         /\ E!Request(q, page) = Request(q, page)
         /\ K!Request(q, page) = Request(q, page)
         /\ L!Request(q, page) = Request(q, page)
         /\ A!Request(q, page) = Request(q, page)
         /\ R!Request(q, page) = Request(q, page)
         /\ M!Request(q, page) = Request(q, page)
         /\ T!Load(u, q, page) = Load(u, q, page)
         /\ E!Load(u, q, page) = Load(u, q, page)
         /\ K!Load(u, q, page) = Load(u, q, page)
         /\ L!Load(u, q, page) = Load(u, q, page)
         /\ A!Load(u, q, page) = Load(u, q, page)
         /\ R!Load(u, q, page) = Load(u, q, page)
         /\ M!Load(u, q, page) = Load(u, q, page)
         /\ T!RemoveAt(u, i) = RemoveAt(u, i)
         /\ E!RemoveAt(u, i) = RemoveAt(u, i)
         /\ K!RemoveAt(u, i) = RemoveAt(u, i)
         /\ L!RemoveAt(u, i) = RemoveAt(u, i)
         /\ A!RemoveAt(u, i) = RemoveAt(u, i)
         /\ R!RemoveAt(u, i) = RemoveAt(u, i)
         /\ M!RemoveAt(u, i) = RemoveAt(u, i)
         /\ T!Over(i) = Over(i)
         /\ E!Over(i) = Over(i)
         /\ K!Over(i) = Over(i)
         /\ L!Over(i) = Over(i)
         /\ A!Over(i) = Over(i)
         /\ R!Over(i) = Over(i)
         /\ M!Over(i) = Over(i)
BY DEF Request, T!Request, E!Request, K!Request, L!Request, A!Request, R!Request,
   M!Request, Spread, T!Spread, E!Spread, K!Spread, L!Spread, A!Spread, R!Spread, M!Spread,
   Load, T!Load, E!Load, K!Load, L!Load, A!Load, R!Load, M!Load, Over, T!Over, E!Over,
   K!Over, L!Over, A!Over, R!Over, M!Over, Without, T!Without, E!Without, K!Without, L!Without,
   A!Without, R!Without, M!Without, RemoveAt, T!RemoveAt, E!RemoveAt, K!RemoveAt,
   L!RemoveAt, A!RemoveAt, R!RemoveAt, M!RemoveAt

-----------------------------------------------------------------------------
(* What a list answers.                                                    *)

Paginations == [page : Nat \ {0}, limit : Nat, total : Nat, totalPages : Nat]

LEMMA SelectedRows ==
  ASSUME NEW rows, IsFiniteSet(rows), Ordered(rows), NEW X \in SUBSET rows
  PROVE  IsFiniteSet(X) /\ Ordered(X)
<1>1. IsFiniteSet(X)
  BY FS_Subset
<1>2. Ordered(X)
  BY DEF Ordered
<1> QED
  BY <1>1, <1>2

LEMMA SortedRows ==
  ASSUME NEW rows, IsFiniteSet(rows), Ordered(rows), NEW order
  PROVE  Sorted(rows, order) \in [1..Cardinality(rows) -> rows]
<1>1. Cardinality(rows) \in Nat /\ Newest(rows) \in [1..Cardinality(rows) -> rows]
  BY NewestRows, FS_CardinalityType
<1> DEFINE n == Cardinality(rows)
           s == Newest(rows)
<1>2. n \in Nat /\ s \in [1..n -> rows]
  BY <1>1
<1>3. Reverse(s) \in [1..n -> rows]
  <2> HIDE DEF n, s
  <2>1. Len(s) = n
    BY <1>2
  <2>2. Reverse(s) = [i \in 1..n |-> s[(n - i) + 1]]
    BY <2>1 DEF Reverse
  <2>3. \A i \in 1..n : (n - i) + 1 \in 1..n
    BY <1>2
  <2> QED
    BY <1>2, <2>2, <2>3
<1> QED
  BY <1>2, <1>3 DEF Sorted, Oldest

\* A page of a list holds rows that were found, and says which page it is.
LEMMA RowsOfPage ==
  ASSUME NEW found, IsFiniteSet(found), Ordered(found), NEW counted, IsFiniteSet(counted),
         NEW q, q.page \in Nat \ {0}, q.limit \in Nat \ {0}
  PROVE  LET answer == PageOf(found, counted, q) IN
         /\ DOMAIN answer = {"rows", "pagination"}
         /\ \A i \in DOMAIN answer.rows : answer.rows[i] \in found
         /\ answer.pagination \in Paginations /\ answer.pagination.page = q.page
<1> DEFINE answer == PageOf(found, counted, q)
           limit == RowLimit(q)
<1>1. PageNumber(q) = q.page
  BY UnsetIsApart DEF PageNumber
<1>2. limit \in Nat \ {0}
  BY RowLimitIsPositive
<1>3. /\ answer = [rows |-> Slice(Sorted(found, q.order), q.page, limit),
                   pagination |-> Pagination(Cardinality(counted), q.page, limit)]
  BY <1>1 DEF PageOf
<1>4. Cardinality(found) \in Nat /\ Cardinality(counted) \in Nat
  BY FS_CardinalityType
<1>5. \A i \in DOMAIN answer.rows : answer.rows[i] \in found
  <2>1. Sorted(found, q.order) \in [1..Cardinality(found) -> found]
    BY SortedRows
  <2> HIDE DEF limit
  <2> QED
    BY <1>2, <1>3, <1>4, <2>1, SliceOfRows
<1>6. answer.pagination \in Paginations /\ answer.pagination.page = q.page
  <2> DEFINE total == Cardinality(counted)
  <2> HIDE DEF limit, total
  <2>1. (total + limit - 1) \div limit \in Nat
    BY <1>2, <1>4 DEF total
  <2> QED
    BY <1>2, <1>3, <1>4, <2>1 DEF Pagination, Paginations, total
<1>7. DOMAIN answer = {"rows", "pagination"}
  BY <1>3
<1> HIDE DEF answer
<1> QED
  BY <1>5, <1>6, <1>7 DEF answer

\* What is asked for: the filters as they are, and a page.
ParamNames == {"page", "limit", "from", "to"}
LEMMA RequestOf ==
  ASSUME NEW filters, DOMAIN filters \cap ParamNames = {}, NEW page
  PROVE  LET q == Request(filters, page).q IN
         /\ DOMAIN q = DOMAIN filters \cup ParamNames
         /\ q.page = page /\ q.limit = Limit /\ q.from = Unset /\ q.to = Unset
         /\ \A f \in DOMAIN filters : q[f] = filters[f]
<1> DEFINE params == [page |-> page, limit |-> Limit, from |-> Unset, to |-> Unset]
           q == Request(filters, page).q
<1>1. q = [x \in DOMAIN filters \cup DOMAIN params |->
             IF x \in DOMAIN filters THEN filters[x] ELSE params[x]]
  BY DEF Request, Spread
<1>2. DOMAIN params = ParamNames
  BY DEF ParamNames
<1>3. /\ DOMAIN q = DOMAIN filters \cup ParamNames
      /\ \A f \in DOMAIN filters : q[f] = filters[f]
      /\ \A f \in ParamNames : q[f] = params[f]
  BY <1>1, <1>2
<1>4. /\ q["page"] = params["page"] /\ q["limit"] = params["limit"]
      /\ q["from"] = params["from"] /\ q["to"] = params["to"]
  BY <1>3 DEF ParamNames
<1>5. q.page = page /\ q.limit = Limit /\ q.from = Unset /\ q.to = Unset
  BY <1>4
<1> HIDE DEF q
<1> QED
  BY <1>3, <1>5 DEF q

LEMMA SpreadOf ==
  ASSUME NEW f, NEW g
  PROVE  /\ DOMAIN Spread(f, g) = DOMAIN f \cup DOMAIN g
         /\ \A x \in DOMAIN f : Spread(f, g)[x] = f[x]
         /\ \A x \in DOMAIN g \ DOMAIN f : Spread(f, g)[x] = g[x]
BY DEF Spread

\* The body of an answer.
LEMMA BodyOf ==
  ASSUME NEW body, DOMAIN body = {"rows", "pagination"}
  PROVE  Ok(body).kind = "ok" /\ Ok(body).rows = body.rows /\ Ok(body).pagination = body.pagination
<1> DEFINE head == [kind |-> "ok"]
<1>1. DOMAIN head = {"kind"} /\ head.kind = "ok"
  OBVIOUS
<1> HIDE DEF head
<1>2. /\ Spread(head, body)["kind"] = head["kind"] /\ Spread(head, body)["rows"] = body["rows"]
      /\ Spread(head, body)["pagination"] = body["pagination"]
  BY <1>1 DEF Spread
<1> QED
  BY <1>1, <1>2 DEF Ok, head

-----------------------------------------------------------------------------
(* The answers of the lists.                                               *)

\* A page says which page it is, and its rows are some of those that were found.
IsPage(answer, page) ==
    /\ answer.kind = "ok"
    /\ answer.pagination \in Paginations /\ answer.pagination.page = page
IsPageOf(X, answer, page) ==
    IsPage(answer, page) /\ \A i \in DOMAIN answer.rows : answer.rows[i] \in X

LEMMA PageOfTable ==
  ASSUME NEW found, IsFiniteSet(found), Ordered(found), NEW counted, IsFiniteSet(counted),
         NEW q, q.page \in Nat \ {0}, q.limit \in Nat \ {0},
         NEW X \in SUBSET found, NEW C \in SUBSET counted
  PROVE  IsPageOf(X, Ok(PageOf(X, C, q)), q.page)
<1> DEFINE answer == PageOf(X, C, q)
<1>1. IsFiniteSet(X) /\ Ordered(X) /\ IsFiniteSet(C)
  BY SelectedRows, FS_Subset
<1>2. /\ DOMAIN answer = {"rows", "pagination"}
      /\ \A i \in DOMAIN answer.rows : answer.rows[i] \in X
      /\ answer.pagination \in Paginations /\ answer.pagination.page = q.page
  BY <1>1, RowsOfPage
<1>3. Ok(answer).kind = "ok" /\ Ok(answer).rows = answer.rows /\ Ok(answer).pagination = answer.pagination
  BY <1>2, BodyOf
<1> HIDE DEF answer
<1> QED
  BY <1>2, <1>3 DEF IsPage, IsPageOf, answer

TableNames == {"transactions", "events", "keys", "ledger", "runs", "simulations"}
LEMMA TableAt ==
  ASSUME NEW name \in TableNames, NEW t \in 0..MaxTime
  PROVE  IsFiniteSet(Tables[name][t]) /\ Ordered(Tables[name][t])
BY TablesAreOrdered DEF TableNames

LEMMA KindsDiffer ==
  /\ BadRequest.kind # "ok" /\ Failed.kind # "ok"
BY DEF BadRequest, Failed

LEMMA EventsAnswer ==
  ASSUME NEW found \in 0..MaxTime, NEW counted \in 0..MaxTime,
         NEW q, q.page \in Nat \ {0}, q.limit \in Nat \ {0}, E!Answer(q, found, counted).kind = "ok"
  PROVE  LET answer == E!Answer(q, found, counted) IN
         /\ IsPage(answer, q.page)
         /\ \A i \in DOMAIN answer.rows : /\ Given(q.transactionId, answer.rows[i].transaction)
                                          /\ Given(q.event, answer.rows[i].event)
<1> DEFINE X == {e \in Tables.events[found] : E!WhereEvent(q, e)}
           C == {e \in Tables.events[counted] : E!WhereEvent(q, e)}
<1>1. E!Answer(q, found, counted) = Ok(PageOf(X, C, q))
  BY KindsDiffer, SameAnswers, SamePages DEF E!Answer, E!getTransactionEventsForAdminController,
     E!getTransactionEventsForAdmin
<1>2. /\ IsFiniteSet(Tables.events[found]) /\ Ordered(Tables.events[found])
      /\ IsFiniteSet(Tables.events[counted])
  BY TableAt DEF TableNames
<1>3. X \in SUBSET Tables.events[found] /\ C \in SUBSET Tables.events[counted]
  OBVIOUS
<1>4. \A e \in X : Given(q.transactionId, e.transaction) /\ Given(q.event, e.event)
  BY DEF E!WhereEvent, E!Given, Given
<1> HIDE DEF X, C
<1>5. IsPageOf(X, Ok(PageOf(X, C, q)), q.page)
  BY <1>2, <1>3, PageOfTable
<1> QED
  BY <1>1, <1>4, <1>5 DEF IsPageOf

LEMMA KeysAnswer ==
  ASSUME NEW found \in 0..MaxTime, NEW counted \in 0..MaxTime,
         NEW q, q.page \in Nat \ {0}, q.limit \in Nat \ {0}, K!Answer(q, found, counted).kind = "ok"
  PROVE  LET answer == K!Answer(q, found, counted) IN
         /\ IsPage(answer, q.page)
         /\ \A i \in DOMAIN answer.rows : /\ Given(q.key, answer.rows[i].id)
                                          /\ Given(q.status, answer.rows[i].status)
<1> DEFINE X == {k \in Tables.keys[found] : K!WhereKey(q, k, found)}
           C == {k \in Tables.keys[counted] : K!WhereKey(q, k, found)}
<1>1. K!Answer(q, found, counted) = Ok(PageOf(X, C, q))
  BY KindsDiffer, SameAnswers, SamePages DEF K!Answer, K!getIdempotencyKeysForAdminController,
     K!getIdempotencyKeysForAdmin
<1>2. /\ IsFiniteSet(Tables.keys[found]) /\ Ordered(Tables.keys[found])
      /\ IsFiniteSet(Tables.keys[counted])
  BY TableAt DEF TableNames
<1>3. X \in SUBSET Tables.keys[found] /\ C \in SUBSET Tables.keys[counted]
  OBVIOUS
<1>4. \A k \in X : Given(q.key, k.id) /\ Given(q.status, k.status)
  BY DEF K!WhereKey, K!Given, Given
<1> HIDE DEF X, C
<1>5. IsPageOf(X, Ok(PageOf(X, C, q)), q.page)
  BY <1>2, <1>3, PageOfTable
<1> QED
  BY <1>1, <1>4, <1>5 DEF IsPageOf

LEMMA LedgerAnswer ==
  ASSUME NEW found \in 0..MaxTime, NEW counted \in 0..MaxTime,
         NEW q, q.page \in Nat \ {0}, q.limit \in Nat \ {0}, L!Answer(q, found, counted).kind = "ok"
  PROVE  LET answer == L!Answer(q, found, counted) IN
         /\ IsPage(answer, q.page)
         /\ \A i \in DOMAIN answer.rows : /\ Given(q.accountId, answer.rows[i].account)
                                          /\ Given(q.transactionId, answer.rows[i].transaction)
                                          /\ Given(q.direction, answer.rows[i].direction)
<1> DEFINE X == {e \in Tables.ledger[found] : L!WhereEntry(q, e)}
           C == {e \in Tables.ledger[counted] : L!WhereEntry(q, e)}
<1>1. L!Answer(q, found, counted) = Ok(PageOf(X, C, q))
  BY KindsDiffer, SameAnswers, SamePages DEF L!Answer, L!getLedgerEntriesForAdminController,
     L!getLedgerEntriesForAdmin
<1>2. /\ IsFiniteSet(Tables.ledger[found]) /\ Ordered(Tables.ledger[found])
      /\ IsFiniteSet(Tables.ledger[counted])
  BY TableAt DEF TableNames
<1>3. X \in SUBSET Tables.ledger[found] /\ C \in SUBSET Tables.ledger[counted]
  OBVIOUS
<1>4. \A e \in X : /\ Given(q.accountId, e.account) /\ Given(q.transactionId, e.transaction)
                   /\ Given(q.direction, e.direction)
  BY DEF L!WhereEntry, L!Given, Given
<1> HIDE DEF X, C
<1>5. IsPageOf(X, Ok(PageOf(X, C, q)), q.page)
  BY <1>2, <1>3, PageOfTable
<1> QED
  BY <1>1, <1>4, <1>5 DEF IsPageOf

LEMMA RunsAnswer ==
  ASSUME NEW found \in 0..MaxTime, NEW counted \in 0..MaxTime,
         NEW q, q.page \in Nat \ {0}, q.limit \in Nat \ {0}, R!Answer(q, found, counted).kind = "ok"
  PROVE  LET answer == R!Answer(q, found, counted) IN
         /\ IsPage(answer, q.page)
         /\ \A i \in DOMAIN answer.rows : /\ answer.rows[i] \in Tables.runs[found]
                                          /\ Given(q.jobType, answer.rows[i].jobType)
                                          /\ Given(q.status, answer.rows[i].status)
<1> DEFINE X == {r \in Tables.runs[found] : R!WhereRun(q, r)}
           C == {r \in Tables.runs[counted] : R!WhereRun(q, r)}
<1>1. R!Answer(q, found, counted) = Ok(PageOf(X, C, q))
  BY KindsDiffer, SameAnswers, SamePages DEF R!Answer, R!getReconciliationRunsForAdminController,
     R!getReconciliationRunsForAdmin
<1>2. /\ IsFiniteSet(Tables.runs[found]) /\ Ordered(Tables.runs[found])
      /\ IsFiniteSet(Tables.runs[counted])
  BY TableAt DEF TableNames
<1>3. X \in SUBSET Tables.runs[found] /\ C \in SUBSET Tables.runs[counted]
  OBVIOUS
<1>4. \A r \in X : /\ r \in Tables.runs[found]
                   /\ Given(q.jobType, r.jobType) /\ Given(q.status, r.status)
  BY DEF R!WhereRun, R!Given, Given
<1> HIDE DEF X, C
<1>5. IsPageOf(X, Ok(PageOf(X, C, q)), q.page)
  BY <1>2, <1>3, PageOfTable
<1> QED
  BY <1>1, <1>4, <1>5 DEF IsPageOf

\* Of the rows that are formatted, each is the form of a row that was found.
IsFormOf(X, page, rows, number) ==
    LET answer == Ok([page EXCEPT !.rows = rows])
    IN  /\ IsPage(answer, number) /\ answer.rows = rows
        /\ \A i \in DOMAIN rows : page.rows[i] \in X
LEMMA FormattedPage ==
  ASSUME NEW found, IsFiniteSet(found), Ordered(found), NEW counted, IsFiniteSet(counted),
         NEW q, q.page \in Nat \ {0}, q.limit \in Nat \ {0},
         NEW X \in SUBSET found, NEW C \in SUBSET counted,
         NEW rows, DOMAIN rows = DOMAIN PageOf(X, C, q).rows
  PROVE  IsFormOf(X, PageOf(X, C, q), rows, q.page)
<1> DEFINE answer == PageOf(X, C, q)
           body == [answer EXCEPT !.rows = rows]
<1>1. IsFiniteSet(X) /\ Ordered(X) /\ IsFiniteSet(C)
  BY SelectedRows, FS_Subset
<1>2. /\ DOMAIN answer = {"rows", "pagination"}
      /\ \A i \in DOMAIN answer.rows : answer.rows[i] \in X
      /\ answer.pagination \in Paginations /\ answer.pagination.page = q.page
  BY <1>1, RowsOfPage
<1>3. DOMAIN rows = DOMAIN answer.rows
  OBVIOUS
<1> HIDE DEF answer
<1>4. DOMAIN body = {"rows", "pagination"} /\ body.rows = rows /\ body.pagination = answer.pagination
  BY <1>2
<1> HIDE DEF body
<1>5. Ok(body).kind = "ok" /\ Ok(body).rows = rows /\ Ok(body).pagination = answer.pagination
  BY <1>4, BodyOf
<1>6. /\ IsPage(Ok(body), q.page) /\ Ok(body).rows = rows
      /\ \A i \in DOMAIN rows : answer.rows[i] \in X
  BY <1>2, <1>3, <1>5 DEF IsPage
<1> QED
  BY <1>6 DEF body, answer, IsFormOf

LEMMA TransactionsAnswer ==
  ASSUME NEW found \in 0..MaxTime, NEW counted \in 0..MaxTime,
         NEW q, q.page \in Nat \ {0}, q.limit \in Nat \ {0}, T!Answer(q, found, counted).kind = "ok"
  PROVE  LET answer == T!Answer(q, found, counted) IN
         /\ IsPage(answer, q.page)
         /\ \A i \in DOMAIN answer.rows : /\ Given(q.status, answer.rows[i].status)
                                          /\ Given(q.type, answer.rows[i].type)
<1> DEFINE X == {t \in Tables.transactions[found] : T!WhereTransaction(q, t)}
           C == {t \in Tables.transactions[counted] : T!WhereTransaction(q, t)}
           page == PageOf(X, C, q)
           rows == [i \in DOMAIN page.rows |-> T!FormatTransaction(page.rows[i])]
<1>1. T!Answer(q, found, counted) = Ok([page EXCEPT !.rows = rows])
  BY KindsDiffer, SameAnswers, SamePages DEF T!Answer, T!getTransactionsForAdminController,
     T!getTransactionsForAdmin
<1>2. /\ IsFiniteSet(Tables.transactions[found]) /\ Ordered(Tables.transactions[found])
      /\ IsFiniteSet(Tables.transactions[counted])
  BY TableAt DEF TableNames
<1>3. X \in SUBSET Tables.transactions[found] /\ C \in SUBSET Tables.transactions[counted]
  OBVIOUS
<1>4. \A t \in X : /\ Given(q.status, T!FormatTransaction(t).status)
                   /\ Given(q.type, T!FormatTransaction(t).type)
  BY DEF T!WhereTransaction, T!Given, Given, T!FormatTransaction
<1>5. DOMAIN rows = DOMAIN page.rows /\ \A i \in DOMAIN rows : rows[i] = T!FormatTransaction(page.rows[i])
  OBVIOUS
<1> HIDE DEF X, C, rows
<1>6. IsFormOf(X, page, rows, q.page)
  BY <1>2, <1>3, <1>5, FormattedPage
<1> HIDE DEF page
<1> QED
  BY <1>1, <1>4, <1>5, <1>6 DEF IsFormOf

LEMMA MovementsAnswer ==
  ASSUME NEW found \in 0..MaxTime, NEW counted \in 0..MaxTime,
         NEW q, q.page \in Nat \ {0}, q.limit \in Nat \ {0}, M!Answer(q, found, counted).kind = "ok"
  PROVE  LET answer == M!Answer(q, found, counted) IN
         /\ IsPage(answer, q.page)
         /\ \A i \in DOMAIN answer.rows :
              /\ Given(q.status, answer.rows[i].status) /\ Given(q.type, answer.rows[i].type)
              /\ \A j \in DOMAIN answer.rows[i].rows : Given(q.direction, answer.rows[i].rows[j].direction)
<1> DEFINE X == {e \in Tables.ledger[found] : M!WhereMine(Mine, q, e)}
           C == {e \in Tables.ledger[counted] : M!WhereMine(Mine, q, e)}
           newest == [q EXCEPT !.order = "desc"]
           page == PageOf(X, C, newest)
           legs(e) == M!Oldest({l \in Tables.ledger[found] : l.transaction = e.transaction})
           rows == [i \in DOMAIN page.rows |-> M!Movement(page.rows[i], legs(page.rows[i]))]
<1>1. M!Answer(q, found, counted) = Ok([page EXCEPT !.rows = rows])
  BY KindsDiffer, SameAnswers, SamePages DEF M!Answer, M!getMyTransactionsController,
     M!getMyTransactions
<1>2. /\ IsFiniteSet(Tables.ledger[found]) /\ Ordered(Tables.ledger[found])
      /\ IsFiniteSet(Tables.ledger[counted])
  BY TableAt DEF TableNames
<1>3. X \in SUBSET Tables.ledger[found] /\ C \in SUBSET Tables.ledger[counted]
  OBVIOUS
<1>4. ASSUME NEW e \in X
      PROVE  /\ Given(q.status, M!Movement(e, legs(e)).status)
             /\ Given(q.type, M!Movement(e, legs(e)).type)
             /\ \A j \in DOMAIN M!Movement(e, legs(e)).rows :
                  Given(q.direction, M!Movement(e, legs(e)).rows[j].direction)
  <2>1. Given(q.direction, e.direction) /\ Given(q.status, e.status) /\ Given(q.type, e.type)
    BY DEF M!WhereMine, M!Given, Given
  <2> DEFINE others == M!Counterparts(e, legs(e))
  <2>2. /\ M!Movement(e, legs(e)).status = e.status /\ M!Movement(e, legs(e)).type = e.type
        /\ M!Movement(e, legs(e)).rows = [i \in DOMAIN others |-> M!ShownRow(e, others[i])]
    BY DEF M!Movement
  <2>3. \A l : M!ShownRow(e, l).direction = e.direction
    BY DEF M!ShownRow
  <2> HIDE DEF others
  <2> QED
    BY <2>1, <2>2, <2>3
<1>5. DOMAIN rows = DOMAIN page.rows
      /\ \A i \in DOMAIN rows : rows[i] = M!Movement(page.rows[i], legs(page.rows[i]))
  OBVIOUS
<1>6. newest.page = q.page /\ newest.limit = q.limit
  OBVIOUS
<1> HIDE DEF X, C, rows, newest, legs
<1>7. IsFormOf(X, page, rows, newest.page)
  BY <1>2, <1>3, <1>5, <1>6, FormattedPage
<1> HIDE DEF page
<1> QED
  BY <1>1, <1>4, <1>5, <1>6, <1>7 DEF IsFormOf

LEMMA AccountsTable ==
  ASSUME NEW t
  PROVE  IsFiniteSet(A!AccountsAt(t)) /\ Ordered(A!AccountsAt(t))
<1> DEFINE row(a) == [id |-> a, at |-> Created[a], type |-> "USER_WALLET", status |-> statuses[t + 1][a]]
           entry(r) == [id |-> r.id, at |-> r.at]
           f == [a \in DOMAIN Created |-> row(a)]
<1>1. A!AccountsAt(t) = {row(a) : a \in DOMAIN Created}
  BY DEF A!AccountsAt, A!Ids
<1>2. f \in Surjection(DOMAIN Created, A!AccountsAt(t))
  BY <1>1 DEF Surjection
<1>3. IsFiniteSet(A!AccountsAt(t))
  <2> HIDE DEF f
  <2> QED
    BY <1>2, TablesAreOrdered, FS_Surjection
<1>4. \A r \in A!AccountsAt(t) : entry(r) \in Index /\ r = row(r.id)
  BY <1>1 DEF Index
<1>5. \A r, s : Later(r, s) <=> Later(entry(r), entry(s))
  BY DEF Later
<1>6. \A r, s \in A!AccountsAt(t) : r # s => entry(r) # entry(s)
  <2> SUFFICES ASSUME NEW r \in A!AccountsAt(t), NEW s \in A!AccountsAt(t), entry(r) = entry(s)
               PROVE  r = s
    OBVIOUS
  <2>1. r.id = s.id
    OBVIOUS
  <2> HIDE DEF row, entry
  <2> QED
    BY <1>4, <2>1
<1>7. Ordered(A!AccountsAt(t))
  <2> HIDE DEF entry, row
  <2> QED
    BY <1>4, <1>5, <1>6, TablesAreOrdered DEF Ordered
<1> QED
  BY <1>3, <1>7

LEMMA AccountsAnswer ==
  ASSUME NEW found, NEW counted,
         NEW q, q.page \in Nat \ {0}, q.limit \in Nat \ {0}, A!Answer(q, found, counted).kind = "ok"
  PROVE  LET answer == A!Answer(q, found, counted) IN
         /\ IsPage(answer, q.page)
         /\ \A i \in DOMAIN answer.rows : answer.rows[i] \in A!AccountsAt(found)
<1> DEFINE X == {a \in A!AccountsAt(found) : A!WhereAccount(q, a)}
           C == {a \in A!AccountsAt(counted) : A!WhereAccount(q, a)}
<1>1. A!Answer(q, found, counted) = Ok(PageOf(X, C, q))
  BY KindsDiffer, SameAnswers, SamePages DEF A!Answer, A!getAccountsForAdminController,
     A!getAccountsForAdmin
<1>2. /\ IsFiniteSet(A!AccountsAt(found)) /\ Ordered(A!AccountsAt(found))
      /\ IsFiniteSet(A!AccountsAt(counted))
  BY AccountsTable
<1>3. X \in SUBSET A!AccountsAt(found) /\ C \in SUBSET A!AccountsAt(counted)
  OBVIOUS
<1>4. IsPageOf(X, Ok(PageOf(X, C, q)), q.page)
  <2> HIDE DEF X, C
  <2> QED
    BY <1>2, <1>3, PageOfTable
<1> QED
  BY <1>1, <1>4 DEF IsPageOf

-----------------------------------------------------------------------------
(* Requests in flight.                                                     *)

CallRow(Q) == [q : Q, found : Nat \cup {Unset}, counted : Nat \cup {Unset}, late : BOOLEAN]
Fresh(q) == [q |-> q, found |-> Unset, counted |-> Unset, late |-> FALSE]

IsCalls(cs) == \E Q : cs \in Seq(CallRow(Q))

\* The rows are read before they are counted, both in the time that has passed.
Timely(cs, t) ==
    \A i \in DOMAIN cs :
        /\ cs[i].found # Unset => cs[i].found \in 0..t
        /\ cs[i].counted # Unset => /\ cs[i].found # Unset /\ cs[i].counted \in 0..t
                                    /\ cs[i].found <= cs[i].counted

\* Of the requests in flight, those that were overtaken are the older ones.
LateFirst(cs) == \A i, j \in DOMAIN cs : i < j /\ cs[j].late => cs[i].late

CallsOK == now \in 0..MaxTime /\ IsCalls(calls) /\ Timely(calls, now) /\ LateFirst(calls)

\* The newest of all the requests that were sent is still in flight.
Outstanding == calls # <<>> /\ ~calls[Len(calls)].late
Newly == calls[Len(calls)]

\* Whatever is asked for after a step is asked for before, or is in Q.
AsksOnly(Q) ==
    \A k \in DOMAIN calls' : calls'[k].q \in Q \/ \E j \in DOMAIN calls : calls'[k].q = calls[j].q

\* The same of any requests in flight.
Flight(cs, t) == IsCalls(cs) /\ Timely(cs, t) /\ LateFirst(cs)
NewestAwaited(cs) == cs # <<>> /\ ~cs[Len(cs)].late
Left(cs, i) == RemoveAt([j \in DOMAIN cs |-> [cs[j] EXCEPT !.late = @ \/ j < i]], i)

\* One more is sent, the last: it is awaited, and the others stay.
Longer(cs, longer, row) ==
    /\ DOMAIN longer = DOMAIN cs \cup {Len(longer)} /\ Len(longer) \notin DOMAIN cs
    /\ longer[Len(longer)] = row /\ \A k \in DOMAIN cs : longer[k] = cs[k] /\ k < Len(longer)
\* One is taken out, and the others stay in their order; those before it are now late.
SameRequest(r, s) == r.q = s.q /\ r.found = s.found /\ r.counted = s.counted
Thinned(cs, left, i) ==
    \E old \in [DOMAIN left -> DOMAIN cs \ {i}] :
        /\ \A k \in DOMAIN left : /\ SameRequest(left[k], cs[old[k]])
                                 /\ left[k].late = (cs[old[k]].late \/ old[k] < i)
        /\ \A j, k \in DOMAIN left : j < k => old[j] < old[k]
        /\ \A j \in DOMAIN cs \ {i} : \E k \in DOMAIN left : old[k] = j

LEMMA FlightAppended ==
  ASSUME NEW cs, NEW t, Flight(cs, t), NEW q, NEW longer, longer = Append(cs, Fresh(q))
  PROVE  Flight(longer, t) /\ NewestAwaited(longer) /\ Longer(cs, longer, Fresh(q))
<1>1. PICK Q : cs \in Seq(CallRow(Q))
  BY DEF Flight, IsCalls
<1> DEFINE P == Q \cup {q}
<1>2. Fresh(q) \in CallRow(P) /\ cs \in Seq(CallRow(P))
  <2>1. CallRow(Q) \subseteq CallRow(P)
    BY DEF CallRow
  <2>2. cs \in Seq(CallRow(P))
    <3> HIDE DEF P
    <3>1. \A i \in 1..Len(cs) : cs[i] \in CallRow(P)
      BY <1>1, <2>1
    <3>2. Len(cs) \in Nat /\ cs = [i \in 1..Len(cs) |-> cs[i]]
      BY <1>1
    <3> QED
      BY <3>1, <3>2
  <2> QED
    BY <2>2 DEF CallRow, Fresh
<1> HIDE DEF P
<1> DEFINE n == Len(cs)
<1>3. /\ n \in Nat /\ longer \in Seq(CallRow(P)) /\ Len(longer) = n + 1
      /\ longer[n + 1] = Fresh(q) /\ \A i \in 1..n : longer[i] = cs[i]
  BY <1>2
<1>4. DOMAIN cs = 1..n /\ DOMAIN longer = 1..n + 1
  BY <1>2, <1>3
<1> HIDE DEF n
<1>5. \A i \in 1..n + 1 : i \in 1..n \/ i = n + 1
  BY <1>3
<1>6. /\ longer[n + 1].found = Unset /\ longer[n + 1].counted = Unset
      /\ longer[n + 1].late = FALSE
  BY <1>3 DEF Fresh
<1>7. Timely(longer, t)
  BY <1>3, <1>4, <1>5, <1>6 DEF Flight, Timely
<1>8. LateFirst(longer)
  BY <1>3, <1>4, <1>5, <1>6 DEF Flight, LateFirst
<1>9. IsCalls(longer)
  BY <1>3 DEF IsCalls
<1>10. longer # <<>>
  BY <1>3
<1>11. Longer(cs, longer, Fresh(q))
  BY <1>3, <1>4, <1>5 DEF Longer
<1> QED
  BY <1>3, <1>6, <1>7, <1>8, <1>9, <1>10, <1>11 DEF Flight, NewestAwaited

LEMMA CallsAppended ==
  ASSUME CallsOK, NEW q, calls' = Append(calls, Fresh(q)), now' = now
  PROVE  CallsOK' /\ Outstanding' /\ Newly' = Fresh(q) /\ AsksOnly({q})
<1>1. Flight(calls', now) /\ NewestAwaited(calls') /\ Longer(calls, calls', Fresh(q))
  BY FlightAppended DEF CallsOK, Flight
<1>2. CallsOK' /\ Outstanding' /\ Newly' = Fresh(q)
  BY <1>1 DEF CallsOK, Flight, NewestAwaited, Outstanding, Newly, Longer
<1>3. AsksOnly({q})
  BY <1>1 DEF AsksOnly, Longer, Fresh
<1> QED
  BY <1>2, <1>3

\* When the i-th request is over, the newest is in flight as before, unless it was this.
LEMMA FlightLeft ==
  ASSUME NEW cs, NEW t, Flight(cs, t), NEW i \in DOMAIN cs, NEW left, left = Left(cs, i)
  PROVE  /\ Flight(left, t) /\ cs[i].late \in BOOLEAN /\ Thinned(cs, left, i)
         /\ NewestAwaited(left) => /\ NewestAwaited(cs) /\ i # Len(cs)
                             /\ SameRequest(left[Len(left)], cs[Len(cs)])
         /\ ~NewestAwaited(left) /\ ~cs[i].late => NewestAwaited(cs) /\ i = Len(cs)
<1>1. PICK Q : cs \in Seq(CallRow(Q))
  BY DEF Flight, IsCalls
<1> DEFINE n == Len(cs)
           marked == [j \in DOMAIN cs |-> [cs[j] EXCEPT !.late = @ \/ j < i]]
<1>2. n \in Nat /\ DOMAIN cs = 1..n /\ i \in 1..n
  BY <1>1
<1>3. ASSUME NEW j \in 1..n
      PROVE  /\ marked[j] \in CallRow(Q) /\ marked[j].q = cs[j].q
             /\ marked[j].found = cs[j].found /\ marked[j].counted = cs[j].counted
             /\ marked[j].late = (cs[j].late \/ j < i)
  <2>1. cs[j] \in CallRow(Q) /\ marked[j] = [cs[j] EXCEPT !.late = cs[j].late \/ j < i]
    BY <1>1, <1>2
  <2> QED
    BY <2>1 DEF CallRow
<1>4. marked \in Seq(CallRow(Q)) /\ Len(marked) = n
  <2>1. marked \in [1..n -> CallRow(Q)]
    BY <1>2, <1>3
  <2> QED
    BY <1>2, <2>1
<1> HIDE DEF marked, n
<1>5. left = SubSeq(marked, 1, i - 1) \o SubSeq(marked, i + 1, n)
  BY <1>4 DEF Left, RemoveAt, marked
<1>6. /\ SubSeq(marked, 1, i - 1) \in Seq(CallRow(Q)) /\ Len(SubSeq(marked, 1, i - 1)) = i - 1
      /\ \A j \in 1..i - 1 : SubSeq(marked, 1, i - 1)[j] = marked[j]
  BY <1>2, <1>4
<1>7. /\ SubSeq(marked, i + 1, n) \in Seq(CallRow(Q)) /\ Len(SubSeq(marked, i + 1, n)) = n - i
      /\ \A j \in 1..n - i : SubSeq(marked, i + 1, n)[j] = marked[j + i]
  BY <1>2, <1>4
<1>8. /\ left \in Seq(CallRow(Q)) /\ Len(left) = n - 1
      /\ \A j \in 1..n - 1 : left[j] = marked[IF j < i THEN j ELSE j + 1]
  <2> DEFINE low == SubSeq(marked, 1, i - 1)
             high == SubSeq(marked, i + 1, n)
  <2>1. /\ low \in Seq(CallRow(Q)) /\ Len(low) = i - 1 /\ \A j \in 1..i - 1 : low[j] = marked[j]
        /\ high \in Seq(CallRow(Q)) /\ Len(high) = n - i /\ \A j \in 1..n - i : high[j] = marked[j + i]
        /\ left = low \o high
    BY <1>5, <1>6, <1>7
  <2> HIDE DEF low, high
  <2>2. left \in Seq(CallRow(Q)) /\ Len(left) = n - 1
    <3> DEFINE Row == CallRow(Q)
    <3> HIDE DEF Row
    <3>1. low \in Seq(Row) /\ high \in Seq(Row)
      BY <2>1 DEF Row
    <3>2. low \o high \in Seq(Row) /\ Len(low \o high) = Len(low) + Len(high)
      BY <3>1
    <3>3. (i - 1) + (n - i) = n - 1
      BY <1>2
    <3> QED
      BY <2>1, <3>2, <3>3 DEF Row
  <2>3. ASSUME NEW j \in 1..n - 1 PROVE left[j] = marked[IF j < i THEN j ELSE j + 1]
    <3>1. CASE j < i
      <4>1. j \in 1..i - 1
        BY <1>2, <3>1
      <4>2. left[j] = low[j]
        BY <1>2, <2>1, <4>1
      <4> QED
        BY <2>1, <3>1, <4>1, <4>2
    <3>2. CASE ~(j < i)
      <4>1. j - (i - 1) \in 1..n - i /\ (j - (i - 1)) + i = j + 1
        BY <1>2, <3>2
      <4>2. left[j] = high[j - (i - 1)]
        BY <1>2, <2>1, <3>2
      <4> QED
        BY <2>1, <3>2, <4>1, <4>2
    <3> QED
      BY <3>1, <3>2
  <2> QED
    BY <2>2, <2>3
<1> DEFINE old(j) == IF j < i THEN j ELSE j + 1
<1>9. DOMAIN left = 1..n - 1
  BY <1>8
<1>10. ASSUME NEW j \in 1..n - 1
       PROVE  /\ old(j) \in 1..n /\ old(j) # i /\ left[j].q = cs[old(j)].q
              /\ left[j].found = cs[old(j)].found /\ left[j].counted = cs[old(j)].counted
              /\ left[j].late = (cs[old(j)].late \/ old(j) < i)
  <2>1. old(j) \in 1..n /\ old(j) # i
    BY <1>2
  <2>2. left[j] = marked[old(j)]
    BY <1>8
  <2> HIDE DEF old
  <2> QED
    BY <1>3, <2>1, <2>2
<1>11. \A j, k \in 1..n - 1 : j < k => old(j) < old(k)
  BY <1>2
<1> HIDE DEF old
<1>12. cs[i].late \in BOOLEAN
  <2>1. cs[i] \in CallRow(Q)
    BY <1>1, <1>2 DEF n
  <2> QED
    BY <2>1 DEF CallRow
<1>13. Timely(left, t)
  BY <1>2, <1>9, <1>10, <1>12 DEF Flight, Timely
<1>14. LateFirst(left)
  <2> SUFFICES ASSUME NEW j \in 1..n - 1, NEW k \in 1..n - 1, j < k, left[k].late
               PROVE  left[j].late
    BY <1>9 DEF LateFirst
  <2>1. old(j) < old(k) /\ old(j) \in 1..n /\ old(k) \in 1..n
    BY <1>10, <1>11
  <2>2. CASE cs[old(k)].late
    BY <1>2, <1>10, <2>1, <2>2 DEF Flight, LateFirst
  <2>3. CASE old(k) < i
    BY <1>2, <1>10, <2>1, <2>3
  <2> QED
    BY <1>10, <2>2, <2>3
<1>15. Flight(left, t) /\ Thinned(cs, left, i)
  <2>1. Flight(left, t)
    BY <1>8, <1>12, <1>13, <1>14 DEF Flight, IsCalls
  <2>2. Thinned(cs, left, i)
    <3> DEFINE place == [j \in 1..n - 1 |-> old(j)]
    <3>1. place \in [DOMAIN left -> DOMAIN cs \ {i}]
      BY <1>2, <1>9, <1>10
    <3>2. \A k \in DOMAIN left : /\ SameRequest(left[k], cs[place[k]])
                                /\ left[k].late = (cs[place[k]].late \/ place[k] < i)
      BY <1>9, <1>10 DEF SameRequest
    <3>3. \A j, k \in DOMAIN left : j < k => place[j] < place[k]
      BY <1>9, <1>11
    <3>4. ASSUME NEW j \in 1..n, j # i PROVE \E k \in 1..n - 1 : old(k) = j
      <4>1. j < i => j \in 1..n - 1 /\ old(j) = j
        BY <1>2 DEF old
      <4>2. ~(j < i) => j - 1 \in 1..n - 1 /\ old(j - 1) = j
        BY <1>2, <3>4 DEF old
      <4> QED
        BY <4>1, <4>2
    <3>5. \A j \in DOMAIN cs \ {i} : \E k \in DOMAIN left : place[k] = j
      BY <1>2, <1>9, <3>4
    <3> HIDE DEF place
    <3> QED
      BY <3>1, <3>2, <3>3, <3>5 DEF Thinned
  <2> QED
    BY <2>1, <2>2
<1>16. CASE i = n
  <2>1. ~NewestAwaited(left)
    <3> SUFFICES ASSUME NewestAwaited(left) PROVE FALSE
      OBVIOUS
    <3>1. n - 1 \in 1..n - 1 /\ ~left[n - 1].late
      BY <1>2, <1>8 DEF NewestAwaited
    <3>2. old(n - 1) < i
      BY <1>2, <1>16, <3>1 DEF old
    <3> QED
      BY <1>10, <3>1, <3>2
  <2>2. ~cs[i].late => NewestAwaited(cs)
    BY <1>2, <1>12, <1>16 DEF NewestAwaited, n
  <2> QED
    BY <1>12, <1>15, <1>16, <2>1, <2>2 DEF n
<1>17. CASE i # n
  <2>1. n - 1 \in 1..n - 1 /\ old(n - 1) = n
    BY <1>2, <1>17 DEF old
  <2>2. /\ left[n - 1].q = cs[n].q /\ left[n - 1].found = cs[n].found
        /\ left[n - 1].counted = cs[n].counted /\ (left[n - 1].late <=> cs[n].late)
    <3>1. ~(n < i)
      BY <1>2
    <3> QED
      BY <1>10, <2>1, <3>1
  <2>3. left # <<>> /\ Len(left) = n - 1 /\ cs # <<>>
    BY <1>2, <1>8, <2>1
  <2>4. NewestAwaited(left) <=> NewestAwaited(cs)
    BY <2>2, <2>3 DEF NewestAwaited, n
  <2>5. ~NewestAwaited(cs) => cs[i].late
    <3>1. ~NewestAwaited(cs) => cs[n].late
      BY <2>3 DEF NewestAwaited, n
    <3> QED
      BY <1>2, <1>12, <1>17, <3>1 DEF Flight, LateFirst
  <2> QED
    BY <1>12, <1>15, <1>17, <2>2, <2>3, <2>4, <2>5 DEF SameRequest, n
<1> QED
  BY <1>16, <1>17

LEMMA CallsOver ==
  ASSUME CallsOK, NEW i \in DOMAIN calls, Over(i)
  PROVE  /\ CallsOK' /\ now' = now
         /\ overtaken' \in BOOLEAN /\ AsksOnly({})
         /\ Outstanding' => /\ Outstanding /\ i # Len(calls) /\ Newly'.q = Newly.q
                            /\ Newly'.found = Newly.found /\ Newly'.counted = Newly.counted
         /\ ~Outstanding' /\ ~overtaken' => Outstanding /\ i = Len(calls)
<1>1. calls' = Left(calls, i) /\ overtaken' = calls[i].late /\ now' = now
  BY DEF Over, Left, Without
<1>2. /\ Flight(calls', now) /\ calls[i].late \in BOOLEAN /\ Thinned(calls, calls', i)
      /\ NewestAwaited(calls') => /\ NewestAwaited(calls) /\ i # Len(calls)
                            /\ SameRequest(calls'[Len(calls')], calls[Len(calls)])
      /\ ~NewestAwaited(calls') /\ ~calls[i].late => NewestAwaited(calls) /\ i = Len(calls)
  BY <1>1, FlightLeft DEF CallsOK, Flight
<1>3. AsksOnly({})
  BY <1>2 DEF AsksOnly, Thinned, SameRequest
<1>4. CallsOK'
  BY <1>1, <1>2 DEF CallsOK, Flight
<1> QED
  BY <1>1, <1>2, <1>3, <1>4 DEF NewestAwaited, Outstanding, Newly, SameRequest

\* The server reads and counts.
LEMMA CallsServed ==
  ASSUME CallsOK, NEW i \in DOMAIN calls, Find(i) \/ Count(i)
  PROVE  /\ CallsOK' /\ (Outstanding' <=> Outstanding) /\ Newly'.q = Newly.q
         /\ calls' # <<>> /\ calls # <<>>
         /\ Newly'.found \in {Newly.found, now}
         /\ UNCHANGED <<now, ui, overtaken>> /\ AsksOnly({})
<1>1. PICK Q : calls \in Seq(CallRow(Q))
  BY DEF CallsOK, IsCalls
<1> DEFINE n == Len(calls)
<1>2. n \in Nat /\ DOMAIN calls = 1..n /\ i \in 1..n /\ n \in 1..n /\ now \in Nat
  BY <1>1 DEF CallsOK
<1>3. calls[i] \in CallRow(Q)
  BY <1>1, <1>2
<1>4. PICK row \in CallRow(Q) :
        /\ calls' = [calls EXCEPT ![i] = row]
        /\ row.q = calls[i].q /\ row.late = calls[i].late
        /\ row.found \in {calls[i].found, now}
        /\ row.found # Unset => row.found \in 0..now
        /\ row.counted # Unset => row.found # Unset /\ row.counted \in 0..now /\ row.found <= row.counted
  <2>1. CASE Find(i)
    <3> DEFINE row == [calls[i] EXCEPT !.found = now]
    <3>1. calls' = [calls EXCEPT ![i] = row] /\ calls[i].found = Unset
      BY <2>1 DEF Find
    <3>2. /\ row \in CallRow(Q) /\ row.q = calls[i].q /\ row.late = calls[i].late /\ row.found = now
          /\ row.counted = calls[i].counted
      BY <1>2, <1>3 DEF CallRow
    <3>3. calls[i].counted = Unset
      BY <3>1 DEF CallsOK, Timely
    <3> HIDE DEF row
    <3>4. /\ row.found # Unset => row.found \in 0..now
          /\ row.counted # Unset => /\ row.found # Unset /\ row.counted \in 0..now
                                    /\ row.found <= row.counted
      BY <1>2, <3>1, <3>2, <3>3
    <3> QED
      BY <3>1, <3>2, <3>4
  <2>2. CASE Count(i)
    <3> DEFINE row == [calls[i] EXCEPT !.counted = now]
    <3>1. calls' = [calls EXCEPT ![i] = row] /\ calls[i].found # Unset
      BY <2>2 DEF Count
    <3>2. /\ row \in CallRow(Q) /\ row.q = calls[i].q /\ row.late = calls[i].late /\ row.counted = now
          /\ row.found = calls[i].found
      BY <1>2, <1>3 DEF CallRow
    <3>3. calls[i].found \in 0..now
      BY <3>1 DEF CallsOK, Timely
    <3> HIDE DEF row
    <3>4. /\ row.found # Unset => row.found \in 0..now
          /\ row.counted # Unset => /\ row.found # Unset /\ row.counted \in 0..now
                                    /\ row.found <= row.counted
      BY <1>2, <3>1, <3>2, <3>3
    <3> QED
      BY <3>1, <3>2, <3>4
  <2> QED
    BY <2>1, <2>2
<1>5. /\ calls' \in Seq(CallRow(Q)) /\ Len(calls') = n /\ calls'[i] = row /\ DOMAIN calls' = 1..n
      /\ \A j \in 1..n : j # i => calls'[j] = calls[j]
  BY <1>1, <1>2, <1>4
<1>6. UNCHANGED <<now, ui, overtaken>>
  BY DEF Find, Count
<1> HIDE DEF n
<1>7. Timely(calls', now')
  BY <1>2, <1>4, <1>5, <1>6 DEF CallsOK, Timely
<1>8. \A j \in 1..n : calls'[j].late = calls[j].late /\ calls'[j].q = calls[j].q
                      /\ calls'[j].found \in {calls[j].found, now}
  BY <1>4, <1>5
<1>9. LateFirst(calls')
  BY <1>2, <1>5, <1>8 DEF CallsOK, LateFirst
<1>10. CallsOK'
  BY <1>5, <1>6, <1>7, <1>9 DEF CallsOK, IsCalls
<1>11. calls # <<>> /\ calls' # <<>>
  BY <1>2, <1>5 DEF n
<1>12. AsksOnly({})
  BY <1>2, <1>5, <1>8 DEF AsksOnly
<1> QED
  BY <1>2, <1>5, <1>6, <1>8, <1>10, <1>11, <1>12 DEF Outstanding, Newly, n

LEMMA CallsLater ==
  ASSUME CallsOK, UNCHANGED calls, now' \in now..MaxTime
  PROVE  CallsOK' /\ Newly' = Newly /\ (Outstanding' <=> Outstanding)
<1>1. now \in Nat /\ now' \in Nat /\ now <= now' /\ now' \in 0..MaxTime
  BY DEF CallsOK
<1>2. 0..now \subseteq 0..now'
  BY <1>1
<1>3. Timely(calls', now')
  BY <1>2 DEF CallsOK, Timely
<1> QED
  BY <1>1, <1>3 DEF CallsOK, Newly, Outstanding

-----------------------------------------------------------------------------
(* A visit of a page that lists rows.                                      *)

FilterNames ==
    [transactions |-> {"status", "type", "order", "transactionId", "userId"},
     events |-> {"transactionId", "event", "order"},
     keys |-> {"key", "status", "expired", "order"},
     ledger |-> {"accountId", "transactionId", "direction", "order"},
     accounts |-> {"status", "type", "order", "accountId"},
     runs |-> {"jobType", "status", "hasAnomalies", "order"},
     mine |-> {"direction", "type", "status", "order"}]
ListRoutes == DOMAIN FilterNames
UiFields == {"filters", "rows", "pagination", "loading", "error", "expanded"}

\* The state of a page that has been mounted.
Form(u) ==
    /\ UiFields \subseteq DOMAIN u /\ DOMAIN u.filters = FilterNames[route]
    /\ u.pagination = Unset \/ u.pagination \in Paginations
    /\ route = "mine" => "page" \in DOMAIN u /\ u.page \in Nat \ {0}
UiOK == Form(ui) /\ ui.error \in BOOLEAN

\* Every request is for a page of a list.
Asked(q) == q.page \in Nat \ {0} /\ q.limit \in Nat \ {0}
AllAsked == \A i \in DOMAIN calls : Asked(calls[i].q)

\* q asks for a page with the filters that are set; in the page of movements it is the
\* page that the user has gone to.
Asks(q) == \E page \in Nat \ {0} : /\ q = Request(ui.filters, page).q
                                   /\ route = "mine" => ui.page = page

\* The rows are an answer to such a request.
Shows ==
    \E q : \E page \in Nat \ {0}, found \in 0..now, counted \in 0..now :
        /\ q = Request(ui.filters, page).q /\ found <= counted
        /\ AnswerOf(q, found, counted).kind = "ok"
        /\ ui.rows = AnswerOf(q, found, counted).rows
        /\ ui.pagination = AnswerOf(q, found, counted).pagination
        /\ route = "mine" => ui.page = page

\* The newest request is for what the controls show; once it is over its answer is
\* shown, or there was an error, or an older one has come after it.
ListInv ==
    /\ route \in ListRoutes /\ CallsOK /\ AllAsked /\ UiOK
    /\ Outstanding => Asks(Newly.q)
    /\ ~Outstanding /\ ~ui.error /\ ~overtaken /\ patch = Unset => Shows

\* What is found at a time does not change any more.
AnswersStay ==
    \A q : \A found, counted \in 0..now : AnswerOf(q, found, counted)' = AnswerOf(q, found, counted)

-----------------------------------------------------------------------------
(* The kinds of steps.                                                     *)

Keeps(field) == ui'[field] = ui[field]
KeepsControls == Keeps("filters") /\ (route = "mine" => Keeps("page"))

\* A request is sent, for what the controls show then.
Sends ==
    /\ UiOK' /\ UNCHANGED <<route, now, overtaken>>
    /\ \E page \in Nat \ {0} : /\ calls' = Append(calls, Request(ui'.filters, page))
                               /\ route = "mine" => ui'.page = page
\* Nothing is sent or shown; an error message goes away only when a change of status
\* is sent.
Watches ==
    /\ UiOK' /\ UNCHANGED <<route, now, calls, overtaken>>
    /\ KeepsControls /\ Keeps("rows") /\ Keeps("pagination")
    /\ (ui.error => ui'.error) \/ patch' # Unset
    /\ patch # Unset => patch' # Unset
\* An answer arrives.
Hears(i) ==
    /\ i \in DOMAIN calls /\ calls[i].counted # Unset /\ Over(i)
    /\ UiOK' /\ UNCHANGED <<route, patch>> /\ KeepsControls
    /\ LET answer == AnswerOf(calls[i].q, calls[i].found, calls[i].counted)
       IN  answer.kind = "ok" /\ ui'.rows = answer.rows /\ ui'.pagination = answer.pagination
\* A request fails.
Misses(i) ==
    /\ i \in DOMAIN calls /\ Over(i)
    /\ UiOK' /\ UNCHANGED <<route, patch>> /\ KeepsControls /\ ui'.error
\* The database changes.
Waits ==
    /\ UNCHANGED <<route, calls, ui, overtaken>> /\ now' \in now..MaxTime
    /\ patch # Unset => patch' # Unset

ListStep == \/ Sends \/ Watches \/ Waits
            \/ \E i \in DOMAIN calls : Hears(i) \/ Misses(i) \/ (Find(i) /\ UNCHANGED <<route, patch>>)
                                       \/ (Count(i) /\ UNCHANGED <<route, patch>>)

LEMMA ShownStays ==
  ASSUME ListInv, AnswersStay, Shows, UNCHANGED route, now' \in now..MaxTime, KeepsControls,
         Keeps("rows"), Keeps("pagination")
  PROVE  Shows'
<1>1. PICK q : \E page \in Nat \ {0}, found \in 0..now, counted \in 0..now :
        /\ q = Request(ui.filters, page).q /\ found <= counted
        /\ AnswerOf(q, found, counted).kind = "ok"
        /\ ui.rows = AnswerOf(q, found, counted).rows
        /\ ui.pagination = AnswerOf(q, found, counted).pagination
        /\ route = "mine" => ui.page = page
  BY DEF Shows
<1>2. PICK page \in Nat \ {0}, found \in 0..now, counted \in 0..now :
        /\ q = Request(ui.filters, page).q /\ found <= counted
        /\ AnswerOf(q, found, counted).kind = "ok"
        /\ ui.rows = AnswerOf(q, found, counted).rows
        /\ ui.pagination = AnswerOf(q, found, counted).pagination
        /\ route = "mine" => ui.page = page
  BY <1>1
<1>3. AnswerOf(q, found, counted)' = AnswerOf(q, found, counted)
  BY DEF AnswersStay
<1>4. found \in 0..now' /\ counted \in 0..now'
  BY DEF ListInv, CallsOK
<1>5. ui'.filters = ui.filters /\ ui'.rows = ui.rows /\ ui'.pagination = ui.pagination
      /\ (route = "mine" => ui'.page = ui.page)
  BY DEF KeepsControls, Keeps
<1>6. q = Request(ui'.filters, page).q
  BY <1>2, <1>5
<1>7. route' = route
  OBVIOUS
<1> QED
  BY <1>2, <1>3, <1>4, <1>5, <1>6, <1>7 DEF Shows, Request

LEMMA ListStepKeeps ==
  ASSUME ListInv, AnswersStay, ListStep
  PROVE  ListInv'
<1>1. CallsOK /\ now \in Nat /\ MaxTime \in Nat
  BY BoundsOfVisits DEF ListInv, CallsOK
<1>2. CASE Sends
  <2>1. PICK page \in Nat \ {0} : /\ calls' = Append(calls, Request(ui'.filters, page))
                                  /\ route = "mine" => ui'.page = page
    BY <1>2 DEF Sends
  <2> DEFINE q == Request(ui'.filters, page).q
  <2>2. calls' = Append(calls, Fresh(q)) /\ now' = now
    BY <1>2, <2>1 DEF Sends, Request, Fresh
  <2> HIDE DEF q
  <2>3. CallsOK' /\ Outstanding' /\ Newly' = Fresh(q) /\ AsksOnly({q})
    BY <1>1, <2>2, CallsAppended
  <2>4. Newly'.q = Request(ui'.filters, page).q
    BY <2>3 DEF Fresh, q
  <2>5. Asks(Newly.q)'
    BY <1>2, <2>1, <2>4 DEF Asks, Sends
  <2>6. Asked(q)
    <3>1. DOMAIN ui'.filters \cap ParamNames = {}
      BY <1>2 DEF Sends, UiOK, Form, FilterNames, ParamNames, ListRoutes, ListInv
    <3> QED
      BY <3>1, RequestOf, BoundsOfVisits DEF q, Asked
  <2>7. AllAsked'
    BY <2>3, <2>6 DEF AllAsked, AsksOnly, ListInv
  <2> QED
    BY <1>2, <2>3, <2>5, <2>7 DEF ListInv, Sends
<1>3. CASE Watches \/ Waits
  <2>1. /\ UNCHANGED <<route, calls, overtaken>> /\ now' \in now..MaxTime
        /\ KeepsControls /\ Keeps("rows") /\ Keeps("pagination")
        /\ (ui.error => ui'.error) \/ patch' # Unset
        /\ patch # Unset => patch' # Unset
    <3>1. now \in now..MaxTime
      BY <1>1 DEF CallsOK
    <3> QED
      BY <1>3, <3>1 DEF Watches, Waits, KeepsControls, Keeps
  <2>2. CallsOK' /\ Newly' = Newly /\ (Outstanding' <=> Outstanding)
    BY <1>1, <2>1, CallsLater
  <2>3. UiOK'
    BY <1>3 DEF Watches, Waits, UiOK, Form, ListInv
  <2>4. Outstanding' => Asks(Newly.q)'
    <3>1. ui'.filters = ui.filters /\ (route = "mine" => ui'.page = ui.page)
      BY <2>1 DEF KeepsControls, Keeps
    <3>2. Outstanding => Asks(Newly.q)
      BY DEF ListInv
    <3>3. Asks(Newly.q) => Asks(Newly.q)'
      BY <2>1, <2>2, <3>1 DEF Asks, Request
    <3> QED
      BY <2>2, <3>2, <3>3
  <2>5. ~Outstanding' /\ ~ui'.error /\ ~overtaken' /\ patch' = Unset => Shows'
    <3>1. ui.error \in BOOLEAN
      BY DEF ListInv, UiOK
    <3> QED
      BY <2>1, <2>2, <3>1, ShownStays DEF ListInv
  <2>6. AllAsked'
    BY <2>1 DEF AllAsked, ListInv
  <2> QED
    BY <2>1, <2>2, <2>3, <2>4, <2>5, <2>6 DEF ListInv
<1>4. ASSUME NEW i \in DOMAIN calls, Hears(i) \/ Misses(i) PROVE ListInv'
  <2>1. /\ CallsOK' /\ now' = now /\ AsksOnly({})
        /\ Outstanding' => Outstanding /\ Newly'.q = Newly.q
        /\ ~Outstanding' /\ ~overtaken' => Outstanding /\ i = Len(calls)
    BY <1>1, <1>4, CallsOver DEF Hears, Misses
  <2>2. UiOK' /\ UNCHANGED <<route, patch>> /\ KeepsControls
    BY <1>4 DEF Hears, Misses
  <2>3. ui'.filters = ui.filters /\ (route = "mine" => ui'.page = ui.page)
    BY <2>2 DEF KeepsControls, Keeps
  <2>4. Outstanding' => Asks(Newly.q)'
    BY <2>1, <2>2, <2>3 DEF ListInv, Asks, Request
  <2>5. ASSUME ~Outstanding', ~ui'.error, ~overtaken' PROVE Shows'
    <3>1. Hears(i) /\ Outstanding /\ i = Len(calls)
      BY <1>4, <2>1, <2>5 DEF Misses
    <3>2. PICK page \in Nat \ {0} : /\ calls[i].q = Request(ui.filters, page).q
                                    /\ route = "mine" => ui.page = page
      BY <3>1 DEF ListInv, Asks, Newly
    <3>3. PICK q, found, counted :
             /\ q = calls[i].q /\ found = calls[i].found /\ counted = calls[i].counted
      OBVIOUS
    <3>4. found \in 0..now /\ counted \in 0..now /\ found <= counted
      BY <1>1, <3>1, <3>3 DEF Hears, CallsOK, Timely
    <3>5. /\ AnswerOf(q, found, counted).kind = "ok"
          /\ ui'.rows = AnswerOf(q, found, counted).rows
          /\ ui'.pagination = AnswerOf(q, found, counted).pagination
      BY <3>1, <3>3 DEF Hears
    <3>6. AnswerOf(q, found, counted)' = AnswerOf(q, found, counted)
      BY <3>4 DEF AnswersStay
    <3>7. q = Request(ui'.filters, page).q /\ found \in 0..now' /\ counted \in 0..now'
      BY <2>1, <2>3, <3>2, <3>3, <3>4
    <3>8. route' = route
      BY <2>2
    <3> QED
      BY <2>3, <3>2, <3>4, <3>5, <3>6, <3>7, <3>8 DEF Shows, Request
  <2>6. AllAsked'
    BY <2>1 DEF AllAsked, AsksOnly, ListInv
  <2> QED
    BY <2>1, <2>2, <2>4, <2>5, <2>6 DEF ListInv
<1>5. ASSUME NEW i \in DOMAIN calls, Find(i) \/ Count(i), UNCHANGED <<route, patch>> PROVE ListInv'
  <2>1. /\ CallsOK' /\ (Outstanding' <=> Outstanding) /\ Newly'.q = Newly.q
        /\ UNCHANGED <<now, ui, overtaken>> /\ AsksOnly({})
    BY <1>1, <1>5, CallsServed
  <2>2. UiOK'
    BY <1>5, <2>1 DEF UiOK, Form, ListInv
  <2>3. Outstanding' => Asks(Newly.q)'
    BY <1>5, <2>1 DEF ListInv, Asks, Request
  <2>4. now' \in now..MaxTime /\ KeepsControls /\ Keeps("rows") /\ Keeps("pagination")
    BY <1>1, <2>1 DEF KeepsControls, Keeps, CallsOK
  <2>5. ~Outstanding' /\ ~ui'.error /\ ~overtaken' /\ patch' = Unset => Shows'
    BY <1>5, <2>1, <2>4, ShownStays DEF ListInv
  <2>6. AllAsked'
    BY <2>1 DEF AllAsked, AsksOnly, ListInv
  <2> QED
    BY <1>5, <2>1, <2>2, <2>3, <2>5, <2>6 DEF ListInv
<1> QED
  BY <1>2, <1>3, <1>4, <1>5 DEF ListStep

-----------------------------------------------------------------------------
(* The steps of each page.                                                 *)

\* A page of the administrator asks with the filters it then has.
LEMMA LoadSends ==
  ASSUME ListInv, route # "mine", NEW u, NEW q, NEW page \in Nat \ {0},
         DOMAIN u = DOMAIN ui, u.filters = q, DOMAIN q = DOMAIN ui.filters,
         u.pagination = ui.pagination, Load(u, q, page), UNCHANGED <<route, now, overtaken>>
  PROVE  Sends
<1>1. /\ UiFields \subseteq DOMAIN u /\ DOMAIN u.filters = FilterNames[route]
      /\ u.pagination = Unset \/ u.pagination \in Paginations
  BY DEF ListInv, UiOK, Form
<1>2. ui' = [u EXCEPT !.loading = TRUE, !.error = FALSE] /\ calls' = Append(calls, Request(q, page))
  BY DEF Load
<1>3. UiOK' /\ ui'.filters = q
  BY <1>1, <1>2 DEF UiOK, Form, UiFields
<1> QED
  BY <1>2, <1>3 DEF Sends

LEMMA PageToIsAPage ==
  ASSUME ListInv, NEW direction \in Directions, CanPage(direction)
  PROVE  PageTo(direction) \in Nat \ {0}
<1>1. ui.pagination.page \in Nat \ {0} /\ ui.pagination.totalPages \in Nat
  BY UnsetIsApart DEF ListInv, UiOK, Form, CanPage, Paginations
<1> QED
  BY <1>1 DEF CanPage, PageTo

\* The details of a row are opened or closed, or the index of accounts arrives.
LEMMA EditWatches ==
  ASSUME ListInv, DOMAIN ui' = DOMAIN ui, \A f \in UiFields \ {"expanded", "error"} : ui'[f] = ui[f],
         ui'.error \in BOOLEAN, (ui.error => ui'.error) \/ patch' # Unset, patch # Unset => patch' # Unset,
         route = "mine" => ui'.page = ui.page, UNCHANGED <<route, now, calls, overtaken>>
  PROVE  Watches
<1>1. /\ ui'.filters = ui.filters /\ ui'.rows = ui.rows /\ ui'.pagination = ui.pagination
      /\ (route = "mine" => ui'.page = ui.page)
  BY DEF UiFields
<1> QED
  BY <1>1 DEF Watches, UiOK, Form, ListInv, KeepsControls, Keeps

\* An answer is shown, or an error instead of it.
LEMMA AnswerIsHeard ==
  ASSUME ListInv, NEW i \in DOMAIN calls, calls[i].counted # Unset, Over(i),
         UNCHANGED <<route, patch>>, NEW answer,
         answer = AnswerOf(calls[i].q, calls[i].found, calls[i].counted), answer.kind = "ok",
         answer.pagination \in Paginations, DOMAIN ui' = DOMAIN ui, ui'.error = ui.error,
         ui'.rows = answer.rows, ui'.pagination = answer.pagination,
         ui'.filters = ui.filters, route = "mine" => ui'.page = ui.page
  PROVE  Hears(i)
BY DEF Hears, ListInv, UiOK, Form, KeepsControls, Keeps

LEMMA ErrorIsMissed ==
  ASSUME ListInv, NEW i \in DOMAIN calls, Over(i), UNCHANGED <<route, patch>>,
         DOMAIN ui' = DOMAIN ui, ui'.error = TRUE, ui'.pagination \in {ui.pagination, Unset},
         ui'.filters = ui.filters, route = "mine" => ui'.page = ui.page
  PROVE  Misses(i)
BY DEF Misses, ListInv, UiOK, Form, KeepsControls, Keeps

LEMMA CallsAreTimely ==
  ASSUME ListInv, NEW i \in DOMAIN calls, calls[i].counted # Unset
  PROVE  /\ calls[i].found \in 0..now /\ calls[i].counted \in 0..now
         /\ calls[i].found \in 0..MaxTime /\ calls[i].counted \in 0..MaxTime
         /\ calls[i].found <= calls[i].counted
         /\ calls[i].q.page \in Nat \ {0} /\ calls[i].q.limit \in Nat \ {0}
<1>1. /\ calls[i].found \in 0..now /\ calls[i].counted \in 0..now
      /\ calls[i].found <= calls[i].counted /\ now \in 0..MaxTime
  BY DEF ListInv, CallsOK, Timely
<1>2. Asked(calls[i].q)
  BY DEF ListInv, AllAsked
<1> QED
  BY <1>1, <1>2, BoundsOfVisits DEF Asked

LEMMA TransactionsStep ==
  ASSUME ListInv, Transactions
  PROVE  ListStep
<1>1. route = "transactions" /\ UNCHANGED <<route, patch>>
  BY DEF Transactions, Rest, Stay
<1>2. /\ UiFields \subseteq DOMAIN ui /\ ui.error \in BOOLEAN
      /\ DOMAIN ui.filters = {"status", "type", "order", "transactionId", "userId"}
  BY <1>1 DEF ListInv, UiOK, Form, FilterNames
<1>3. CASE T!User
  <2>1. ASSUME NEW u, NEW q, NEW page \in Nat \ {0}, T!Acts, T!Load(u, q, page),
               DOMAIN u = DOMAIN ui, u.filters = q, DOMAIN q = DOMAIN ui.filters,
               u.pagination = ui.pagination
        PROVE  Sends
    BY <1>1, <2>1, LoadSends, SameRequests DEF T!Acts
  <2>2. ASSUME NEW text, T!selectUser(text) PROVE Sends
    <3>0. PICK account : /\ T!Acts
                        /\ LET q == [ui.filters EXCEPT !.userId = account.userId, !.transactionId = Unset]
                           IN  T!loadTransactions([ui EXCEPT !.filters = q, !.search = account.name], q, 1)
      BY <2>2 DEF T!selectUser
    <3> DEFINE q == [ui.filters EXCEPT !.userId = account.userId, !.transactionId = Unset]
               u == [ui EXCEPT !.filters = q, !.search = account.name]
    <3>1. T!Acts /\ T!Load(u, q, 1)
      BY <3>0 DEF T!loadTransactions
    <3>2. /\ DOMAIN u = DOMAIN ui /\ u.filters = q /\ u.pagination = ui.pagination
          /\ DOMAIN q = DOMAIN ui.filters
      BY <1>2 DEF UiFields
    <3> HIDE DEF q, u
    <3> QED
      BY <2>1, <3>1, <3>2
  <2>3. ASSUME NEW text, T!searchTransaction(text) PROVE Sends
    <3> DEFINE q == [ui.filters EXCEPT !.transactionId = text, !.userId = Unset]
               u == [ui EXCEPT !.filters = q, !.search = text]
    <3>1. T!Acts /\ T!Load(u, q, 1)
      BY <2>3 DEF T!searchTransaction, T!loadTransactions
    <3>2. /\ DOMAIN u = DOMAIN ui /\ u.filters = q /\ u.pagination = ui.pagination
          /\ DOMAIN q = DOMAIN ui.filters
      BY <1>2 DEF UiFields
    <3> HIDE DEF q, u
    <3> QED
      BY <2>1, <3>1, <3>2
  <2>4. ASSUME T!clearSearch PROVE Sends
    <3> DEFINE q == [ui.filters EXCEPT !.transactionId = Unset, !.userId = Unset]
               u == [ui EXCEPT !.filters = q, !.search = Unset]
    <3>1. T!Acts /\ T!Load(u, q, 1)
      BY <2>4 DEF T!clearSearch, T!loadTransactions
    <3>2. /\ DOMAIN u = DOMAIN ui /\ u.filters = q /\ u.pagination = ui.pagination
          /\ DOMAIN q = DOMAIN ui.filters
      BY <1>2 DEF UiFields
    <3> HIDE DEF q, u
    <3> QED
      BY <2>1, <3>1, <3>2
  <2>5. ASSUME T!resetFilters PROVE Sends
    <3> DEFINE u == [ui EXCEPT !.filters = T!NoFilters, !.search = Unset, !.expanded = Unset]
    <3>1. T!Acts /\ T!Load(u, T!NoFilters, 1)
      BY <2>5 DEF T!resetFilters, T!loadTransactions
    <3>2. /\ DOMAIN u = DOMAIN ui /\ u.filters = T!NoFilters /\ u.pagination = ui.pagination
          /\ DOMAIN T!NoFilters = DOMAIN ui.filters
      BY <1>2 DEF UiFields, T!NoFilters
    <3> HIDE DEF u
    <3> QED
      BY <2>1, <3>1, <3>2
  <2>6. ASSUME NEW x, T!handleStatusChange(x) PROVE Sends
    <3> DEFINE q == [ui.filters EXCEPT !.status = x]
               u == [ui EXCEPT !.filters = q]
    <3>1. T!Acts /\ T!Load(u, q, 1)
      BY <2>6 DEF T!handleStatusChange, T!loadTransactions
    <3>2. /\ DOMAIN u = DOMAIN ui /\ u.filters = q /\ u.pagination = ui.pagination
          /\ DOMAIN q = DOMAIN ui.filters
      BY <1>2 DEF UiFields
    <3> HIDE DEF q, u
    <3> QED
      BY <2>1, <3>1, <3>2
  <2>7. ASSUME NEW x, T!handleTypeChange(x) PROVE Sends
    <3> DEFINE q == [ui.filters EXCEPT !.type = x]
               u == [ui EXCEPT !.filters = q]
    <3>1. T!Acts /\ T!Load(u, q, 1)
      BY <2>7 DEF T!handleTypeChange, T!loadTransactions
    <3>2. /\ DOMAIN u = DOMAIN ui /\ u.filters = q /\ u.pagination = ui.pagination
          /\ DOMAIN q = DOMAIN ui.filters
      BY <1>2 DEF UiFields
    <3> HIDE DEF q, u
    <3> QED
      BY <2>1, <3>1, <3>2
  <2>8. ASSUME NEW x, T!handleOrderChange(x) PROVE Sends
    <3> DEFINE q == [ui.filters EXCEPT !.order = x]
               u == [ui EXCEPT !.filters = q]
    <3>1. T!Acts /\ T!Load(u, q, 1)
      BY <2>8 DEF T!handleOrderChange, T!loadTransactions
    <3>2. /\ DOMAIN u = DOMAIN ui /\ u.filters = q /\ u.pagination = ui.pagination
          /\ DOMAIN q = DOMAIN ui.filters
      BY <1>2 DEF UiFields
    <3> HIDE DEF q, u
    <3> QED
      BY <2>1, <3>1, <3>2
  <2>9. ASSUME NEW direction \in Directions, T!paginate(direction) PROVE Sends
    <3>1. CanPage(direction) /\ T!Acts /\ T!Load(ui, ui.filters, PageTo(direction))
      BY <2>9 DEF T!paginate, T!loadTransactions, T!CanPage, CanPage, T!PageTo, PageTo
    <3> QED
      BY <1>2, <2>1, <3>1, PageToIsAPage
  <2>10. ASSUME NEW x, T!Toggle(x) PROVE Watches
    BY <1>1, <1>2, <2>10, EditWatches DEF T!Toggle, T!Looks, T!Acts, UiFields
  <2> QED
    BY <1>3, <2>2, <2>3, <2>4, <2>5, <2>6, <2>7, <2>8, <2>9, <2>10
       DEF T!User, ListStep, T!Directions, Directions
<1>4. ASSUME NEW i \in DOMAIN calls, T!Fail(i) PROVE Misses(i)
  BY <1>1, <1>2, <1>4, ErrorIsMissed, SameRequests DEF T!Fail, T!ShowError, UiFields
<1>5. ASSUME NEW i \in DOMAIN calls, T!Arrive(i) PROVE Hears(i) \/ Misses(i)
  <2> DEFINE answer == T!Answer(calls[i].q, calls[i].found, calls[i].counted)
  <2>1. /\ calls[i].counted # Unset /\ Over(i)
        /\ IF answer.kind = "ok" THEN T!ShowRows(answer) ELSE T!ShowError
    BY <1>5, SameRequests DEF T!Arrive, T!Answered
  <2>2. answer = AnswerOf(calls[i].q, calls[i].found, calls[i].counted)
    BY <1>1 DEF AnswerOf
  <2>3. answer.kind = "ok" => answer.pagination \in Paginations
    BY <2>1, CallsAreTimely, TransactionsAnswer DEF IsPage
  <2> HIDE DEF answer
  <2>4. CASE answer.kind = "ok"
    BY <1>1, <1>2, <2>1, <2>2, <2>3, <2>4, AnswerIsHeard DEF T!ShowRows, UiFields
  <2>5. CASE answer.kind # "ok"
    BY <1>1, <1>2, <2>1, <2>5, ErrorIsMissed DEF T!ShowError, UiFields
  <2> QED
    BY <2>4, <2>5
<1>6. ASSUME T!loadSearchIndex(Index) PROVE Watches
  BY <1>1, <1>2, <1>6, EditWatches DEF T!loadSearchIndex, UiFields
<1> QED
  BY <1>3, <1>4, <1>5, <1>6 DEF Transactions, ListStep

LEMMA EventsStep ==
  ASSUME ListInv, Events
  PROVE  ListStep
<1>1. route = "events" /\ UNCHANGED <<route, patch>>
  BY DEF Events, Rest, Stay
<1>2. /\ UiFields \subseteq DOMAIN ui /\ ui.error \in BOOLEAN
      /\ DOMAIN ui.filters = {"transactionId", "event", "order"}
  BY <1>1 DEF ListInv, UiOK, Form, FilterNames
<1>3. CASE E!User
  <2>1. ASSUME NEW u, NEW q, NEW page \in Nat \ {0}, E!Acts, E!Load(u, q, page),
               DOMAIN u = DOMAIN ui, u.filters = q, DOMAIN q = DOMAIN ui.filters,
               u.pagination = ui.pagination
        PROVE  Sends
    BY <1>1, <2>1, LoadSends, SameRequests DEF E!Acts
  <2>2. ASSUME NEW text, E!searchTransaction(text) PROVE Sends
    <3> DEFINE q == [ui.filters EXCEPT !.transactionId = text]
               u == [ui EXCEPT !.filters = q, !.search = text]
    <3>1. E!Acts /\ E!Load(u, q, 1)
      BY <2>2 DEF E!searchTransaction, E!loadEvents
    <3>2. /\ DOMAIN u = DOMAIN ui /\ u.filters = q /\ u.pagination = ui.pagination
          /\ DOMAIN q = DOMAIN ui.filters
      BY <1>2 DEF UiFields
    <3> HIDE DEF q, u
    <3> QED
      BY <2>1, <3>1, <3>2
  <2>3. ASSUME E!resetFilters PROVE Sends
    <3> DEFINE u == [ui EXCEPT !.filters = E!NoFilters, !.search = Unset, !.expanded = Unset]
    <3>1. E!Acts /\ E!Load(u, E!NoFilters, 1)
      BY <2>3 DEF E!resetFilters, E!loadEvents
    <3>2. /\ DOMAIN u = DOMAIN ui /\ u.filters = E!NoFilters /\ u.pagination = ui.pagination
          /\ DOMAIN E!NoFilters = DOMAIN ui.filters
      BY <1>2 DEF UiFields, E!NoFilters
    <3> HIDE DEF u
    <3> QED
      BY <2>1, <3>1, <3>2
  <2>4. ASSUME NEW x, E!handleEventChange(x) PROVE Sends
    <3> DEFINE q == [ui.filters EXCEPT !.event = x]
               u == [ui EXCEPT !.filters = q]
    <3>1. E!Acts /\ E!Load(u, q, 1)
      BY <2>4 DEF E!handleEventChange, E!loadEvents
    <3>2. /\ DOMAIN u = DOMAIN ui /\ u.filters = q /\ u.pagination = ui.pagination
          /\ DOMAIN q = DOMAIN ui.filters
      BY <1>2 DEF UiFields
    <3> HIDE DEF q, u
    <3> QED
      BY <2>1, <3>1, <3>2
  <2>5. ASSUME NEW x, E!handleOrderChange(x) PROVE Sends
    <3> DEFINE q == [ui.filters EXCEPT !.order = x]
               u == [ui EXCEPT !.filters = q]
    <3>1. E!Acts /\ E!Load(u, q, 1)
      BY <2>5 DEF E!handleOrderChange, E!loadEvents
    <3>2. /\ DOMAIN u = DOMAIN ui /\ u.filters = q /\ u.pagination = ui.pagination
          /\ DOMAIN q = DOMAIN ui.filters
      BY <1>2 DEF UiFields
    <3> HIDE DEF q, u
    <3> QED
      BY <2>1, <3>1, <3>2
  <2>6. ASSUME E!clearSearch PROVE Sends
    BY <2>2, <2>6 DEF E!clearSearch
  <2>7. ASSUME NEW direction \in Directions, E!paginate(direction) PROVE Sends
    <3>1. CanPage(direction) /\ E!Acts /\ E!Load(ui, ui.filters, PageTo(direction))
      BY <2>7 DEF E!paginate, E!loadEvents, E!CanPage, CanPage, E!PageTo, PageTo
    <3> QED
      BY <1>2, <2>1, <3>1, PageToIsAPage
  <2>8. ASSUME NEW x, E!Toggle(x) PROVE Watches
    BY <1>1, <1>2, <2>8, EditWatches DEF E!Toggle, E!Looks, E!Acts, UiFields
  <2> QED
    BY <1>3, <2>2, <2>3, <2>4, <2>5, <2>6, <2>7, <2>8
       DEF E!User, ListStep, E!Directions, Directions
<1>4. ASSUME NEW i \in DOMAIN calls, E!Fail(i) PROVE Misses(i)
  BY <1>1, <1>2, <1>4, ErrorIsMissed, SameRequests DEF E!Fail, E!ShowError, UiFields
<1>5. ASSUME NEW i \in DOMAIN calls, E!Arrive(i) PROVE Hears(i) \/ Misses(i)
  <2> DEFINE answer == E!Answer(calls[i].q, calls[i].found, calls[i].counted)
  <2>1. /\ calls[i].counted # Unset /\ Over(i)
        /\ IF answer.kind = "ok" THEN E!ShowRowsClosed(answer) ELSE E!ShowError
    BY <1>5, SameRequests DEF E!Arrive, E!Answered
  <2>2. answer = AnswerOf(calls[i].q, calls[i].found, calls[i].counted)
    BY <1>1 DEF AnswerOf
  <2>3. answer.kind = "ok" => answer.pagination \in Paginations
    BY <2>1, CallsAreTimely, EventsAnswer DEF IsPage
  <2> HIDE DEF answer
  <2>4. CASE answer.kind = "ok"
    BY <1>1, <1>2, <2>1, <2>2, <2>3, <2>4, AnswerIsHeard DEF E!ShowRowsClosed, UiFields
  <2>5. CASE answer.kind # "ok"
    BY <1>1, <1>2, <2>1, <2>5, ErrorIsMissed DEF E!ShowError, UiFields
  <2> QED
    BY <2>4, <2>5
<1> QED
  BY <1>3, <1>4, <1>5 DEF Events, ListStep

LEMMA KeysStep ==
  ASSUME ListInv, IdempotencyKeys
  PROVE  ListStep
<1>1. route = "keys" /\ UNCHANGED <<route, patch>>
  BY DEF IdempotencyKeys, Rest, Stay
<1>2. /\ UiFields \subseteq DOMAIN ui /\ ui.error \in BOOLEAN
      /\ DOMAIN ui.filters = {"key", "status", "expired", "order"}
  BY <1>1 DEF ListInv, UiOK, Form, FilterNames
<1>3. CASE K!User
  <2>1. ASSUME NEW u, NEW q, NEW page \in Nat \ {0}, K!Acts, K!Load(u, q, page),
               DOMAIN u = DOMAIN ui, u.filters = q, DOMAIN q = DOMAIN ui.filters,
               u.pagination = ui.pagination
        PROVE  Sends
    BY <1>1, <2>1, LoadSends, SameRequests DEF K!Acts
  <2>2. ASSUME NEW text, K!searchKey(text) PROVE Sends
    <3> DEFINE q == [ui.filters EXCEPT !.key = text]
               u == [ui EXCEPT !.filters = q, !.search = text]
    <3>1. K!Acts /\ K!Load(u, q, 1)
      BY <2>2 DEF K!searchKey, K!loadKeys
    <3>2. /\ DOMAIN u = DOMAIN ui /\ u.filters = q /\ u.pagination = ui.pagination
          /\ DOMAIN q = DOMAIN ui.filters
      BY <1>2 DEF UiFields
    <3> HIDE DEF q, u
    <3> QED
      BY <2>1, <3>1, <3>2
  <2>3. ASSUME K!resetFilters PROVE Sends
    <3> DEFINE u == [ui EXCEPT !.filters = K!NoFilters, !.search = Unset, !.expanded = Unset]
    <3>1. K!Acts /\ K!Load(u, K!NoFilters, 1)
      BY <2>3 DEF K!resetFilters, K!loadKeys
    <3>2. /\ DOMAIN u = DOMAIN ui /\ u.filters = K!NoFilters /\ u.pagination = ui.pagination
          /\ DOMAIN K!NoFilters = DOMAIN ui.filters
      BY <1>2 DEF UiFields, K!NoFilters
    <3> HIDE DEF u
    <3> QED
      BY <2>1, <3>1, <3>2
  <2>4. ASSUME NEW x, K!handleStatusChange(x) PROVE Sends
    <3> DEFINE q == [ui.filters EXCEPT !.status = x]
               u == [ui EXCEPT !.filters = q]
    <3>1. K!Acts /\ K!Load(u, q, 1)
      BY <2>4 DEF K!handleStatusChange, K!loadKeys
    <3>2. /\ DOMAIN u = DOMAIN ui /\ u.filters = q /\ u.pagination = ui.pagination
          /\ DOMAIN q = DOMAIN ui.filters
      BY <1>2 DEF UiFields
    <3> HIDE DEF q, u
    <3> QED
      BY <2>1, <3>1, <3>2
  <2>5. ASSUME NEW x, K!handleExpiredChange(x) PROVE Sends
    <3> DEFINE q == [ui.filters EXCEPT !.expired = x]
               u == [ui EXCEPT !.filters = q]
    <3>1. K!Acts /\ K!Load(u, q, 1)
      BY <2>5 DEF K!handleExpiredChange, K!loadKeys
    <3>2. /\ DOMAIN u = DOMAIN ui /\ u.filters = q /\ u.pagination = ui.pagination
          /\ DOMAIN q = DOMAIN ui.filters
      BY <1>2 DEF UiFields
    <3> HIDE DEF q, u
    <3> QED
      BY <2>1, <3>1, <3>2
  <2>6. ASSUME NEW x, K!handleOrderChange(x) PROVE Sends
    <3> DEFINE q == [ui.filters EXCEPT !.order = x]
               u == [ui EXCEPT !.filters = q]
    <3>1. K!Acts /\ K!Load(u, q, 1)
      BY <2>6 DEF K!handleOrderChange, K!loadKeys
    <3>2. /\ DOMAIN u = DOMAIN ui /\ u.filters = q /\ u.pagination = ui.pagination
          /\ DOMAIN q = DOMAIN ui.filters
      BY <1>2 DEF UiFields
    <3> HIDE DEF q, u
    <3> QED
      BY <2>1, <3>1, <3>2
  <2>7. ASSUME K!clearSearch PROVE Sends
    BY <2>2, <2>7 DEF K!clearSearch
  <2>8. ASSUME NEW direction \in Directions, K!paginate(direction) PROVE Sends
    <3>1. CanPage(direction) /\ K!Acts /\ K!Load(ui, ui.filters, PageTo(direction))
      BY <2>8 DEF K!paginate, K!loadKeys, K!CanPage, CanPage, K!PageTo, PageTo
    <3> QED
      BY <1>2, <2>1, <3>1, PageToIsAPage
  <2>9. ASSUME NEW x, K!Toggle(x) PROVE Watches
    BY <1>1, <1>2, <2>9, EditWatches DEF K!Toggle, K!Looks, K!Acts, UiFields
  <2> QED
    BY <1>3, <2>2, <2>3, <2>4, <2>5, <2>6, <2>7, <2>8, <2>9
       DEF K!User, ListStep, K!Directions, Directions
<1>4. ASSUME NEW i \in DOMAIN calls, K!Fail(i) PROVE Misses(i)
  BY <1>1, <1>2, <1>4, ErrorIsMissed, SameRequests DEF K!Fail, K!ShowError, UiFields
<1>5. ASSUME NEW i \in DOMAIN calls, K!Arrive(i) PROVE Hears(i) \/ Misses(i)
  <2> DEFINE answer == K!Answer(calls[i].q, calls[i].found, calls[i].counted)
  <2>1. /\ calls[i].counted # Unset /\ Over(i)
        /\ IF answer.kind = "ok" THEN K!ShowRowsClosed(answer) ELSE K!ShowError
    BY <1>5, SameRequests DEF K!Arrive, K!Answered
  <2>2. answer = AnswerOf(calls[i].q, calls[i].found, calls[i].counted)
    BY <1>1 DEF AnswerOf
  <2>3. answer.kind = "ok" => answer.pagination \in Paginations
    BY <2>1, CallsAreTimely, KeysAnswer DEF IsPage
  <2> HIDE DEF answer
  <2>4. CASE answer.kind = "ok"
    BY <1>1, <1>2, <2>1, <2>2, <2>3, <2>4, AnswerIsHeard DEF K!ShowRowsClosed, UiFields
  <2>5. CASE answer.kind # "ok"
    BY <1>1, <1>2, <2>1, <2>5, ErrorIsMissed DEF K!ShowError, UiFields
  <2> QED
    BY <2>4, <2>5
<1> QED
  BY <1>3, <1>4, <1>5 DEF IdempotencyKeys, ListStep

LEMMA LedgerStep ==
  ASSUME ListInv, Ledger
  PROVE  ListStep
<1>1. route = "ledger" /\ UNCHANGED <<route, patch>>
  BY DEF Ledger, Rest, Stay
<1>2. /\ UiFields \subseteq DOMAIN ui /\ ui.error \in BOOLEAN
      /\ DOMAIN ui.filters = {"accountId", "transactionId", "direction", "order"}
  BY <1>1 DEF ListInv, UiOK, Form, FilterNames
<1>3. CASE L!User
  <2>1. ASSUME NEW u, NEW q, NEW page \in Nat \ {0}, L!Acts, L!Load(u, q, page),
               DOMAIN u = DOMAIN ui, u.filters = q, DOMAIN q = DOMAIN ui.filters,
               u.pagination = ui.pagination
        PROVE  Sends
    BY <1>1, <2>1, LoadSends, SameRequests DEF L!Acts
  <2>2. ASSUME NEW text, L!selectAccount(text) PROVE Sends
    <3>0. PICK account : /\ L!Acts
                        /\ LET q == [ui.filters EXCEPT !.accountId = account.id, !.transactionId = Unset]
                           IN  L!loadLedger([ui EXCEPT !.filters = q, !.search = account.name], q, 1)
      BY <2>2 DEF L!selectAccount
    <3> DEFINE q == [ui.filters EXCEPT !.accountId = account.id, !.transactionId = Unset]
               u == [ui EXCEPT !.filters = q, !.search = account.name]
    <3>1. L!Acts /\ L!Load(u, q, 1)
      BY <3>0 DEF L!loadLedger
    <3>2. /\ DOMAIN u = DOMAIN ui /\ u.filters = q /\ u.pagination = ui.pagination
          /\ DOMAIN q = DOMAIN ui.filters
      BY <1>2 DEF UiFields
    <3> HIDE DEF q, u
    <3> QED
      BY <2>1, <3>1, <3>2
  <2>3. ASSUME NEW text, L!searchTransaction(text) PROVE Sends
    <3> DEFINE q == [ui.filters EXCEPT !.transactionId = text, !.accountId = Unset]
               u == [ui EXCEPT !.filters = q, !.search = text]
    <3>1. L!Acts /\ L!Load(u, q, 1)
      BY <2>3 DEF L!searchTransaction, L!loadLedger
    <3>2. /\ DOMAIN u = DOMAIN ui /\ u.filters = q /\ u.pagination = ui.pagination
          /\ DOMAIN q = DOMAIN ui.filters
      BY <1>2 DEF UiFields
    <3> HIDE DEF q, u
    <3> QED
      BY <2>1, <3>1, <3>2
  <2>4. ASSUME L!clearSearch PROVE Sends
    <3> DEFINE q == [ui.filters EXCEPT !.accountId = Unset, !.transactionId = Unset]
               u == [ui EXCEPT !.filters = q, !.search = Unset]
    <3>1. L!Acts /\ L!Load(u, q, 1)
      BY <2>4 DEF L!clearSearch, L!loadLedger
    <3>2. /\ DOMAIN u = DOMAIN ui /\ u.filters = q /\ u.pagination = ui.pagination
          /\ DOMAIN q = DOMAIN ui.filters
      BY <1>2 DEF UiFields
    <3> HIDE DEF q, u
    <3> QED
      BY <2>1, <3>1, <3>2
  <2>5. ASSUME L!resetFilters PROVE Sends
    <3> DEFINE u == [ui EXCEPT !.filters = L!NoFilters, !.search = Unset]
    <3>1. L!Acts /\ L!Load(u, L!NoFilters, 1)
      BY <2>5 DEF L!resetFilters, L!loadLedger
    <3>2. /\ DOMAIN u = DOMAIN ui /\ u.filters = L!NoFilters /\ u.pagination = ui.pagination
          /\ DOMAIN L!NoFilters = DOMAIN ui.filters
      BY <1>2 DEF UiFields, L!NoFilters
    <3> HIDE DEF u
    <3> QED
      BY <2>1, <3>1, <3>2
  <2>6. ASSUME NEW x, L!handleDirectionChange(x) PROVE Sends
    <3> DEFINE q == [ui.filters EXCEPT !.direction = x]
               u == [ui EXCEPT !.filters = q]
    <3>1. L!Acts /\ L!Load(u, q, 1)
      BY <2>6 DEF L!handleDirectionChange, L!loadLedger
    <3>2. /\ DOMAIN u = DOMAIN ui /\ u.filters = q /\ u.pagination = ui.pagination
          /\ DOMAIN q = DOMAIN ui.filters
      BY <1>2 DEF UiFields
    <3> HIDE DEF q, u
    <3> QED
      BY <2>1, <3>1, <3>2
  <2>7. ASSUME NEW x, L!handleSortChange(x) PROVE Sends
    <3> DEFINE q == [ui.filters EXCEPT !.order = x]
               u == [ui EXCEPT !.filters = q]
    <3>1. L!Acts /\ L!Load(u, q, 1)
      BY <2>7 DEF L!handleSortChange, L!loadLedger
    <3>2. /\ DOMAIN u = DOMAIN ui /\ u.filters = q /\ u.pagination = ui.pagination
          /\ DOMAIN q = DOMAIN ui.filters
      BY <1>2 DEF UiFields
    <3> HIDE DEF q, u
    <3> QED
      BY <2>1, <3>1, <3>2
  <2>8. ASSUME NEW direction \in Directions, L!paginate(direction) PROVE Sends
    <3>1. CanPage(direction) /\ L!Acts /\ L!Load(ui, ui.filters, PageTo(direction))
      BY <2>8 DEF L!paginate, L!loadLedger, L!CanPage, CanPage, L!PageTo, PageTo
    <3> QED
      BY <1>2, <2>1, <3>1, PageToIsAPage
  <2> QED
    BY <1>3, <2>2, <2>3, <2>4, <2>5, <2>6, <2>7, <2>8
       DEF L!User, ListStep, L!Directions, Directions
<1>4. ASSUME NEW i \in DOMAIN calls, L!Fail(i) PROVE Misses(i)
  BY <1>1, <1>2, <1>4, ErrorIsMissed, SameRequests DEF L!Fail, L!ShowError, UiFields
<1>5. ASSUME NEW i \in DOMAIN calls, L!Arrive(i) PROVE Hears(i) \/ Misses(i)
  <2> DEFINE answer == L!Answer(calls[i].q, calls[i].found, calls[i].counted)
  <2>1. /\ calls[i].counted # Unset /\ Over(i)
        /\ IF answer.kind = "ok" THEN L!ShowRows(answer) ELSE L!ShowError
    BY <1>5, SameRequests DEF L!Arrive, L!Answered
  <2>2. answer = AnswerOf(calls[i].q, calls[i].found, calls[i].counted)
    BY <1>1 DEF AnswerOf
  <2>3. answer.kind = "ok" => answer.pagination \in Paginations
    BY <2>1, CallsAreTimely, LedgerAnswer DEF IsPage
  <2> HIDE DEF answer
  <2>4. CASE answer.kind = "ok"
    BY <1>1, <1>2, <2>1, <2>2, <2>3, <2>4, AnswerIsHeard DEF L!ShowRows, UiFields
  <2>5. CASE answer.kind # "ok"
    BY <1>1, <1>2, <2>1, <2>5, ErrorIsMissed DEF L!ShowError, UiFields
  <2> QED
    BY <2>4, <2>5
<1>6. ASSUME L!loadSearchIndex(Index) PROVE Watches
  BY <1>1, <1>2, <1>6, EditWatches DEF L!loadSearchIndex, UiFields
<1> QED
  BY <1>3, <1>4, <1>5, <1>6 DEF Ledger, ListStep

LEMMA RunsStep ==
  ASSUME ListInv, Runs
  PROVE  ListStep
<1>1. route = "runs" /\ UNCHANGED <<route, patch>>
  BY DEF Runs, Rest, Stay
<1>2. /\ UiFields \subseteq DOMAIN ui /\ ui.error \in BOOLEAN
      /\ DOMAIN ui.filters = {"jobType", "status", "hasAnomalies", "order"}
  BY <1>1 DEF ListInv, UiOK, Form, FilterNames
<1>3. CASE R!User
  <2>1. ASSUME NEW u, NEW q, NEW page \in Nat \ {0}, R!Acts, R!Load(u, q, page),
               DOMAIN u = DOMAIN ui, u.filters = q, DOMAIN q = DOMAIN ui.filters,
               u.pagination = ui.pagination
        PROVE  Sends
    BY <1>1, <2>1, LoadSends, SameRequests DEF R!Acts
  <2>2. ASSUME NEW x, R!handleJobTypeChange(x) PROVE Sends
    <3> DEFINE q == [ui.filters EXCEPT !.jobType = x]
               u == [ui EXCEPT !.filters = q]
    <3>1. R!Acts /\ R!Load(u, q, 1)
      BY <2>2 DEF R!handleJobTypeChange, R!loadRuns
    <3>2. /\ DOMAIN u = DOMAIN ui /\ u.filters = q /\ u.pagination = ui.pagination
          /\ DOMAIN q = DOMAIN ui.filters
      BY <1>2 DEF UiFields
    <3> HIDE DEF q, u
    <3> QED
      BY <2>1, <3>1, <3>2
  <2>3. ASSUME NEW x, R!handleStatusChange(x) PROVE Sends
    <3> DEFINE q == [ui.filters EXCEPT !.status = x]
               u == [ui EXCEPT !.filters = q]
    <3>1. R!Acts /\ R!Load(u, q, 1)
      BY <2>3 DEF R!handleStatusChange, R!loadRuns
    <3>2. /\ DOMAIN u = DOMAIN ui /\ u.filters = q /\ u.pagination = ui.pagination
          /\ DOMAIN q = DOMAIN ui.filters
      BY <1>2 DEF UiFields
    <3> HIDE DEF q, u
    <3> QED
      BY <2>1, <3>1, <3>2
  <2>4. ASSUME NEW x, R!handleAnomalyChange(x) PROVE Sends
    <3> DEFINE q == [ui.filters EXCEPT !.hasAnomalies = x]
               u == [ui EXCEPT !.filters = q]
    <3>1. R!Acts /\ R!Load(u, q, 1)
      BY <2>4 DEF R!handleAnomalyChange, R!loadRuns
    <3>2. /\ DOMAIN u = DOMAIN ui /\ u.filters = q /\ u.pagination = ui.pagination
          /\ DOMAIN q = DOMAIN ui.filters
      BY <1>2 DEF UiFields
    <3> HIDE DEF q, u
    <3> QED
      BY <2>1, <3>1, <3>2
  <2>5. ASSUME NEW x, R!handleOrderChange(x) PROVE Sends
    <3> DEFINE q == [ui.filters EXCEPT !.order = x]
               u == [ui EXCEPT !.filters = q]
    <3>1. R!Acts /\ R!Load(u, q, 1)
      BY <2>5 DEF R!handleOrderChange, R!loadRuns
    <3>2. /\ DOMAIN u = DOMAIN ui /\ u.filters = q /\ u.pagination = ui.pagination
          /\ DOMAIN q = DOMAIN ui.filters
      BY <1>2 DEF UiFields
    <3> HIDE DEF q, u
    <3> QED
      BY <2>1, <3>1, <3>2
  <2>6. ASSUME R!resetFilters PROVE Sends
    <3> DEFINE u == [ui EXCEPT !.filters = R!NoFilters, !.expanded = Unset]
    <3>1. R!Acts /\ R!Load(u, R!NoFilters, 1)
      BY <2>6 DEF R!resetFilters, R!loadRuns
    <3>2. /\ DOMAIN u = DOMAIN ui /\ u.filters = R!NoFilters /\ u.pagination = ui.pagination
          /\ DOMAIN R!NoFilters = DOMAIN ui.filters
      BY <1>2 DEF UiFields, R!NoFilters
    <3> HIDE DEF u
    <3> QED
      BY <2>1, <3>1, <3>2
  <2>7. ASSUME NEW direction \in Directions, R!paginate(direction) PROVE Sends
    <3>1. CanPage(direction) /\ R!Acts /\ R!Load(ui, ui.filters, PageTo(direction))
      BY <2>7 DEF R!paginate, R!loadRuns, R!CanPage, CanPage, R!PageTo, PageTo
    <3> QED
      BY <1>2, <2>1, <3>1, PageToIsAPage
  <2>8. ASSUME NEW x, R!Toggle(x) PROVE Watches
    BY <1>1, <1>2, <2>8, EditWatches DEF R!Toggle, R!Looks, R!Acts, UiFields
  <2> QED
    BY <1>3, <2>2, <2>3, <2>4, <2>5, <2>6, <2>7, <2>8
       DEF R!User, ListStep, R!Directions, Directions
<1>4. ASSUME NEW i \in DOMAIN calls, R!Fail(i) PROVE Misses(i)
  BY <1>1, <1>2, <1>4, ErrorIsMissed, SameRequests DEF R!Fail, R!ShowError, UiFields
<1>5. ASSUME NEW i \in DOMAIN calls, R!Arrive(i) PROVE Hears(i) \/ Misses(i)
  <2> DEFINE answer == R!Answer(calls[i].q, calls[i].found, calls[i].counted)
  <2>1. /\ calls[i].counted # Unset /\ Over(i)
        /\ IF answer.kind = "ok" THEN R!ShowRowsClosed(answer) ELSE R!ShowError
    BY <1>5, SameRequests DEF R!Arrive, R!Answered
  <2>2. answer = AnswerOf(calls[i].q, calls[i].found, calls[i].counted)
    BY <1>1 DEF AnswerOf
  <2>3. answer.kind = "ok" => answer.pagination \in Paginations
    BY <2>1, CallsAreTimely, RunsAnswer DEF IsPage
  <2> HIDE DEF answer
  <2>4. CASE answer.kind = "ok"
    BY <1>1, <1>2, <2>1, <2>2, <2>3, <2>4, AnswerIsHeard DEF R!ShowRowsClosed, UiFields
  <2>5. CASE answer.kind # "ok"
    BY <1>1, <1>2, <2>1, <2>5, ErrorIsMissed DEF R!ShowError, UiFields
  <2> QED
    BY <2>4, <2>5
<1> QED
  BY <1>3, <1>4, <1>5 DEF Runs, ListStep

LEMMA AnswersStayTheSame ==
  ASSUME UNCHANGED route, route \in ListRoutes \ {"accounts"}
  PROVE  AnswersStay
BY DEF AnswersStay, AnswerOf, ListRoutes, FilterNames

\* The user asks with the filters and the page number there then are.
LEMMA UserLoadSends ==
  ASSUME ListInv, route = "mine", NEW u, DOMAIN u = DOMAIN ui,
         DOMAIN u.filters = DOMAIN ui.filters, u.pagination = ui.pagination,
         u.page \in Nat \ {0}, Load(u, u.filters, u.page), UNCHANGED <<route, now, overtaken>>
  PROVE  Sends
<1>1. /\ UiFields \subseteq DOMAIN u /\ DOMAIN u.filters = FilterNames[route]
      /\ u.pagination = Unset \/ u.pagination \in Paginations
      /\ "page" \in DOMAIN u
  BY DEF ListInv, UiOK, Form
<1>2. /\ ui' = [u EXCEPT !.loading = TRUE, !.error = FALSE]
      /\ calls' = Append(calls, Request(u.filters, u.page))
  BY DEF Load
<1>3. UiOK' /\ ui'.filters = u.filters /\ ui'.page = u.page
  BY <1>1, <1>2 DEF UiOK, Form, UiFields
<1> QED
  BY <1>2, <1>3 DEF Sends

LEMMA MovementsStep ==
  ASSUME ListInv, Movements
  PROVE  ListStep
<1>1. route = "mine" /\ UNCHANGED <<route, patch>>
  BY DEF Movements, Rest, Stay
<1>2. /\ UiFields \subseteq DOMAIN ui /\ ui.error \in BOOLEAN
      /\ DOMAIN ui.filters = {"direction", "type", "status", "order"}
      /\ "page" \in DOMAIN ui /\ ui.page \in Nat \ {0}
  BY <1>1 DEF ListInv, UiOK, Form, FilterNames
<1>3. CASE M!User
  <2>1. ASSUME NEW u, M!Acts, M!loadLedger(u), DOMAIN u = DOMAIN ui,
               DOMAIN u.filters = DOMAIN ui.filters, u.pagination = ui.pagination,
               u.page \in Nat \ {0}
        PROVE  Sends
    BY <1>1, <2>1, UserLoadSends, SameRequests DEF M!Acts, M!loadLedger
  <2>2. ASSUME NEW name, NEW value, M!update(name, value) PROVE Sends
    <3> DEFINE u == [ui EXCEPT !.filters[name] = value]
    <3>1. M!Acts /\ M!loadLedger(u)
      BY <2>2 DEF M!update
    <3>2. /\ DOMAIN u = DOMAIN ui /\ DOMAIN u.filters = DOMAIN ui.filters
          /\ u.pagination = ui.pagination /\ u.page = ui.page
      BY <1>2 DEF UiFields
    <3> HIDE DEF u
    <3> QED
      BY <1>2, <2>1, <3>1, <3>2
  <2>3. ASSUME NEW direction, M!onPageChange(direction) PROVE Sends
    <3> DEFINE back == [ui EXCEPT !.page = @ - 1]
               on == [ui EXCEPT !.page = @ + 1]
    <3>1. M!Acts /\ ((ui.page # 1 /\ M!loadLedger(back)) \/ M!loadLedger(on))
      BY <2>3 DEF M!onPageChange
    <3>2. /\ DOMAIN back = DOMAIN ui /\ back.filters = ui.filters
          /\ back.pagination = ui.pagination /\ back.page = ui.page - 1
          /\ DOMAIN on = DOMAIN ui /\ on.filters = ui.filters
          /\ on.pagination = ui.pagination /\ on.page = ui.page + 1
      BY <1>2 DEF UiFields
    <3> HIDE DEF back, on
    <3> QED
      BY <1>2, <2>1, <3>1, <3>2
  <2> QED
    BY <1>3, <2>2, <2>3 DEF M!User, ListStep
<1>4. ASSUME NEW i \in DOMAIN calls, M!Fail(i) PROVE Misses(i)
  BY <1>1, <1>2, <1>4, ErrorIsMissed, SameRequests DEF M!Fail, UiFields
<1>5. ASSUME NEW i \in DOMAIN calls, M!Arrive(i) PROVE Hears(i) \/ Misses(i)
  <2> DEFINE answer == M!Answer(calls[i].q, calls[i].found, calls[i].counted)
  <2>1. /\ calls[i].counted # Unset /\ Over(i)
        /\ IF answer.kind = "ok" THEN M!ShowRows(answer)
           ELSE ui' = [ui EXCEPT !.loading = FALSE, !.error = TRUE]
    BY <1>5, SameRequests DEF M!Arrive, M!Answered
  <2>2. answer = AnswerOf(calls[i].q, calls[i].found, calls[i].counted)
    BY <1>1 DEF AnswerOf
  <2>3. answer.kind = "ok" => answer.pagination \in Paginations
    BY <2>1, CallsAreTimely, MovementsAnswer DEF IsPage
  <2> HIDE DEF answer
  <2>4. CASE answer.kind = "ok"
    BY <1>1, <1>2, <2>1, <2>2, <2>3, <2>4, AnswerIsHeard DEF M!ShowRows, UiFields
  <2>5. CASE answer.kind # "ok"
    BY <1>1, <1>2, <2>1, <2>5, ErrorIsMissed DEF UiFields
  <2> QED
    BY <2>4, <2>5
<1> QED
  BY <1>3, <1>4, <1>5 DEF Movements, ListStep

-----------------------------------------------------------------------------
(* The visit begins.                                                       *)

LEMMA VisitBegins ==
  ASSUME route \in ListRoutes, now = 0, NEW filters, DOMAIN filters = FilterNames[route],
         calls = <<Request(filters, 1)>>, UiFields \subseteq DOMAIN ui, ui.filters = filters,
         ui.pagination = Unset, ui.error = FALSE,
         route = "mine" => "page" \in DOMAIN ui /\ ui.page = 1
  PROVE  ListInv
<1> DEFINE q == Request(filters, 1).q
<1>1. calls = <<Fresh(q)>>
  BY DEF Request, Fresh
<1>2. Asked(q)
  <2>1. DOMAIN filters \cap ParamNames = {}
    BY DEF FilterNames, ParamNames, ListRoutes
  <2> QED
    BY <2>1, RequestOf, BoundsOfVisits DEF Asked
<1> HIDE DEF q
<1> DEFINE Q == {q}
<1>3. Fresh(q) \in CallRow(Q)
  BY DEF Fresh, CallRow
<1>4. q \in Q
  OBVIOUS
<1> HIDE DEF Q
<1>5. /\ calls \in Seq(CallRow(Q)) /\ Len(calls) = 1 /\ DOMAIN calls = 1..1
      /\ calls[1] = Fresh(q) /\ calls # <<>>
  BY <1>1, <1>3
<1>6. /\ \A i \in DOMAIN calls : i = 1
      /\ calls[1].found = Unset /\ calls[1].counted = Unset /\ ~calls[1].late /\ calls[1].q = q
  BY <1>5 DEF Fresh
<1>7. CallsOK
  <2>1. IsCalls(calls)
    BY <1>5 DEF IsCalls
  <2>2. Timely(calls, now) /\ LateFirst(calls)
    BY <1>6 DEF Timely, LateFirst
  <2> QED
    BY <2>1, <2>2, BoundsOfVisits DEF CallsOK
<1>8. AllAsked
  BY <1>2, <1>6 DEF AllAsked
<1>9. UiOK
  <2>1. ui.error \in BOOLEAN
    OBVIOUS
  <2>2. Form(ui)
    BY DEF Form
  <2> QED
    BY <2>1, <2>2 DEF UiOK
<1>10. Outstanding /\ Newly.q = q
  BY <1>5, <1>6 DEF Outstanding, Newly
<1>11. Asks(Newly.q)
  BY <1>10 DEF Asks, q
<1> QED
  BY <1>7, <1>8, <1>9, <1>10, <1>11 DEF ListInv

\* The state of a list page as it is mounted: blank, and with what it has beside.
MountedAs(u, filters, more) ==
    /\ UiFields \subseteq DOMAIN u /\ DOMAIN u = UiFields \cup DOMAIN more
    /\ u.filters = filters /\ u.pagination = Unset /\ u.error = FALSE
    /\ DOMAIN u.rows = {} /\ u.expanded = Unset
    /\ \A x \in DOMAIN more : u[x] = more[x]
LEMMA MountedPage ==
  ASSUME NEW filters, NEW more, DOMAIN more \cap UiFields = {}
  PROVE  MountedAs(Spread([Blank(filters) EXCEPT !.loading = TRUE], more), filters, more)
<1> DEFINE blank == [Blank(filters) EXCEPT !.loading = TRUE]
           u == Spread(blank, more)
<1>1. /\ DOMAIN blank = UiFields
      /\ blank.filters = filters /\ blank.pagination = Unset /\ blank.error = FALSE
      /\ blank.rows = <<>> /\ blank.expanded = Unset
  BY DEF Blank, UiFields
<1> HIDE DEF blank
<1>2. /\ DOMAIN u = UiFields \cup DOMAIN more
      /\ \A x \in UiFields : u[x] = blank[x]
      /\ \A x \in DOMAIN more : u[x] = more[x]
  <2>1. \A x \in DOMAIN more : x \in DOMAIN more \ DOMAIN blank
    BY <1>1
  <2>2. u = [x \in UiFields \cup DOMAIN more |-> IF x \in UiFields THEN blank[x] ELSE more[x]]
    BY <1>1 DEF Spread
  <2> HIDE DEF u
  <2> QED
    BY <1>1, <2>1, <2>2
<1> HIDE DEF u
<1>3. /\ u["filters"] = blank["filters"] /\ u["pagination"] = blank["pagination"]
      /\ u["error"] = blank["error"] /\ u["rows"] = blank["rows"]
      /\ u["expanded"] = blank["expanded"]
  BY <1>2 DEF UiFields
<1>4. DOMAIN <<>> = {}
  OBVIOUS
<1> QED
  BY <1>1, <1>2, <1>3, <1>4 DEF u, blank, MountedAs

LEMMA ListBegins ==
  ASSUME Init, route \in ListRoutes
  PROVE  ListInv
<1>0. now = 0
  BY DEF Init
<1>1. CASE route = "transactions"
  <2> DEFINE more == [search |-> Unset, index |-> Unset]
  <2>1. ui = T!Mounted /\ calls = T!Sent
    BY <1>1 DEF Init
  <2>2. T!Mounted = Spread([Blank(T!NoFilters) EXCEPT !.loading = TRUE], more)
    BY DEF T!Mounted, T!Spread, Spread, T!Blank, Blank
  <2>3. DOMAIN more \cap UiFields = {}
    BY DEF UiFields
  <2> HIDE DEF more
  <2>4. T!Sent = <<Request(T!NoFilters, 1)>> /\ DOMAIN T!NoFilters = FilterNames[route]
    BY <1>1, SameRequests DEF T!Sent, T!NoFilters, FilterNames
  <2>5. MountedAs(ui, T!NoFilters, more)
    BY <2>1, <2>2, <2>3, MountedPage
  <2> QED
    BY <1>0, <1>1, <2>1, <2>4, <2>5, VisitBegins DEF MountedAs
<1>2. CASE route = "events"
  <2> DEFINE more == [search |-> Unset]
  <2>1. ui = E!Mounted /\ calls = E!Sent
    BY <1>2 DEF Init
  <2>2. E!Mounted = Spread([Blank(E!NoFilters) EXCEPT !.loading = TRUE], more)
    BY DEF E!Mounted, E!Spread, Spread, E!Blank, Blank
  <2>3. DOMAIN more \cap UiFields = {}
    BY DEF UiFields
  <2> HIDE DEF more
  <2>4. E!Sent = <<Request(E!NoFilters, 1)>> /\ DOMAIN E!NoFilters = FilterNames[route]
    BY <1>2, SameRequests DEF E!Sent, E!NoFilters, FilterNames
  <2>5. MountedAs(ui, E!NoFilters, more)
    BY <2>1, <2>2, <2>3, MountedPage
  <2> QED
    BY <1>0, <1>2, <2>1, <2>4, <2>5, VisitBegins DEF MountedAs
<1>3. CASE route = "keys"
  <2> DEFINE more == [search |-> Unset]
  <2>1. ui = K!Mounted /\ calls = K!Sent
    BY <1>3 DEF Init
  <2>2. K!Mounted = Spread([Blank(K!NoFilters) EXCEPT !.loading = TRUE], more)
    BY DEF K!Mounted, K!Spread, Spread, K!Blank, Blank
  <2>3. DOMAIN more \cap UiFields = {}
    BY DEF UiFields
  <2> HIDE DEF more
  <2>4. K!Sent = <<Request(K!NoFilters, 1)>> /\ DOMAIN K!NoFilters = FilterNames[route]
    BY <1>3, SameRequests DEF K!Sent, K!NoFilters, FilterNames
  <2>5. MountedAs(ui, K!NoFilters, more)
    BY <2>1, <2>2, <2>3, MountedPage
  <2> QED
    BY <1>0, <1>3, <2>1, <2>4, <2>5, VisitBegins DEF MountedAs
<1>4. CASE route = "ledger"
  <2> DEFINE more == [search |-> Unset, index |-> Unset]
  <2>1. ui = L!Mounted /\ calls = L!Sent
    BY <1>4 DEF Init
  <2>2. L!Mounted = Spread([Blank(L!NoFilters) EXCEPT !.loading = TRUE], more)
    BY DEF L!Mounted, L!Spread, Spread, L!Blank, Blank
  <2>3. DOMAIN more \cap UiFields = {}
    BY DEF UiFields
  <2> HIDE DEF more
  <2>4. L!Sent = <<Request(L!NoFilters, 1)>> /\ DOMAIN L!NoFilters = FilterNames[route]
    BY <1>4, SameRequests DEF L!Sent, L!NoFilters, FilterNames
  <2>5. MountedAs(ui, L!NoFilters, more)
    BY <2>1, <2>2, <2>3, MountedPage
  <2> QED
    BY <1>0, <1>4, <2>1, <2>4, <2>5, VisitBegins DEF MountedAs
<1>5. CASE route = "accounts"
  <2> DEFINE more == [index |-> Unset, pending |-> Unset]
  <2>1. ui = A!Mounted /\ calls = A!Sent
    BY <1>5 DEF Init
  <2>2. A!Mounted = Spread([Blank(A!NoFilters) EXCEPT !.loading = TRUE], more)
    BY DEF A!Mounted, A!Spread, Spread, A!Blank, Blank
  <2>3. DOMAIN more \cap UiFields = {}
    BY DEF UiFields
  <2> HIDE DEF more
  <2>4. A!Sent = <<Request(A!NoFilters, 1)>> /\ DOMAIN A!NoFilters = FilterNames[route]
    BY <1>5, SameRequests DEF A!Sent, A!NoFilters, FilterNames
  <2>5. MountedAs(ui, A!NoFilters, more)
    BY <2>1, <2>2, <2>3, MountedPage
  <2> QED
    BY <1>0, <1>5, <2>1, <2>4, <2>5, VisitBegins DEF MountedAs
<1>6. CASE route = "runs"
  <2>1. ui = R!Mounted /\ calls = R!Sent
    BY <1>6 DEF Init
  <2>2. /\ UiFields \subseteq DOMAIN R!Mounted /\ R!Mounted.filters = R!NoFilters
        /\ R!Mounted.pagination = Unset /\ R!Mounted.error = FALSE
    BY DEF R!Mounted, R!Blank, UiFields
  <2>4. R!Sent = <<Request(R!NoFilters, 1)>> /\ DOMAIN R!NoFilters = FilterNames[route]
    BY <1>6, SameRequests DEF R!Sent, R!NoFilters, FilterNames
  <2> QED
    BY <1>0, <1>6, <2>1, <2>2, <2>4, VisitBegins
<1>7. CASE route = "mine"
  <2> DEFINE more == [page |-> 1]
  <2>1. ui = M!Mounted /\ calls = M!Sent
    BY <1>7 DEF Init
  <2>2. M!Mounted = Spread([Blank(M!NoFilters) EXCEPT !.loading = TRUE], more)
    BY DEF M!Mounted, M!Spread, Spread, M!Blank, Blank
  <2>3. DOMAIN more \cap UiFields = {} /\ "page" \in DOMAIN more /\ more["page"] = 1
    BY DEF UiFields
  <2> HIDE DEF more
  <2>4. M!Sent = <<Request(M!NoFilters, 1)>> /\ DOMAIN M!NoFilters = FilterNames[route]
    BY <1>7, SameRequests DEF M!Sent, M!NoFilters, FilterNames
  <2>5. MountedAs(ui, M!NoFilters, more)
    BY <2>1, <2>2, <2>3, MountedPage
  <2>6. "page" \in DOMAIN ui /\ ui.page = 1
    BY <2>3, <2>5 DEF MountedAs
  <2> QED
    BY <1>0, <1>7, <2>1, <2>4, <2>5, <2>6, VisitBegins DEF MountedAs
<1> QED
  BY <1>1, <1>2, <1>3, <1>4, <1>5, <1>6, <1>7 DEF ListRoutes, FilterNames

-----------------------------------------------------------------------------
(* The page of accounts.                                                   *)

Ids == DOMAIN Created
StatusesOf == [Ids -> AccountStatus]
Patches ==
    [account : Ids, new : AccountStatus, stage : {"sent", "allowed", "refused"}]
    \cup [account : Ids, new : AccountStatus, stage : {"written"}, version : Nat]

PatchOK ==
    /\ statuses \in Seq(StatusesOf) /\ Len(statuses) = now + 1
    /\ patch = Unset \/ patch \in Patches
    /\ patch # Unset /\ patch.stage = "written" => patch.version \in 0..now
    /\ acked = Unset \/ acked \in 0..now

DialogOK ==
    /\ {"index", "pending"} \subseteq DOMAIN ui
    /\ ui.pending # Unset => ui.pending.account \in Ids /\ ui.pending.new \in AccountStatus
    /\ \A i \in DOMAIN ui.rows : ui.rows[i].id \in Ids

\* The newest request was sent after the last change was acknowledged, so that it finds
\* what the change wrote; and so does the page that shows its answer.
RowsAre(t) == \A i \in DOMAIN ui.rows : ui.rows[i].status = statuses[t + 1][ui.rows[i].id]
FreshOK ==
    acked # Unset =>
        /\ Outstanding /\ Newly.found # Unset => acked <= Newly.found
        /\ ~Outstanding /\ ~overtaken => \E t \in acked..now : RowsAre(t)

AccountsInv == PatchOK /\ DialogOK /\ FreshOK

\* What the accounts were is not written again.
Recorded == \A t \in 0..now : statuses'[t + 1] = statuses[t + 1]

LEMMA AccountsStay ==
  ASSUME route = "accounts", UNCHANGED route, Recorded
  PROVE  AnswersStay
<1> SUFFICES ASSUME NEW q, NEW found \in 0..now, NEW counted \in 0..now
             PROVE  AnswerOf(q, found, counted)' = AnswerOf(q, found, counted)
  BY DEF AnswersStay
<1>1. A!AccountsAt(found)' = A!AccountsAt(found) /\ A!AccountsAt(counted)' = A!AccountsAt(counted)
  BY DEF A!AccountsAt, Recorded
<1> QED
  BY <1>1 DEF AnswerOf, A!Answer

LEMMA SameAccounts ==
  ASSUME PatchOK, UNCHANGED statuses
  PROVE  Recorded
BY DEF Recorded

\* A request is sent.
LEMMA SentAfterwards ==
  ASSUME ListInv, NEW q, calls' = Append(calls, Fresh(q)), now' = now
  PROVE  FreshOK'
<1>1. Outstanding' /\ Newly' = Fresh(q)
  BY CallsAppended DEF ListInv
<1> QED
  BY <1>1 DEF FreshOK, Fresh

\* The rows and the requests stay as they are.
LEMMA RowsStayFresh ==
  ASSUME ListInv, PatchOK, FreshOK, Recorded, UNCHANGED <<calls, overtaken, acked>>, Keeps("rows"),
         now' \in now..MaxTime
  PROVE  FreshOK'
<1> SUFFICES ASSUME acked # Unset PROVE FreshOK'
  BY DEF FreshOK
<1>1. now \in Nat /\ acked \in 0..now /\ now' \in Nat /\ now <= now'
  BY DEF ListInv, CallsOK, PatchOK
<1>2. Newly' = Newly /\ (Outstanding' <=> Outstanding)
  BY DEF Newly, Outstanding
<1>3. ASSUME NEW t \in acked..now, RowsAre(t) PROVE t \in acked..now' /\ RowsAre(t)'
  <2>1. t \in 0..now
    BY <1>1
  <2>2. statuses'[t + 1] = statuses[t + 1] /\ ui'.rows = ui.rows
    BY <2>1 DEF Recorded, Keeps
  <2> QED
    BY <1>1, <1>3, <2>2 DEF RowsAre
<1> QED
  BY <1>1, <1>2, <1>3 DEF FreshOK

\* An answer arrives, or not.
LEMMA AnswerIsFresh ==
  ASSUME ListInv, PatchOK, FreshOK, NEW i \in DOMAIN calls, Over(i), UNCHANGED <<statuses, acked>>,
         \/ DOMAIN ui'.rows = {}
         \/ /\ calls[i].counted # Unset
            /\ \A j \in DOMAIN ui'.rows :
                 ui'.rows[j].status = statuses[calls[i].found + 1][ui'.rows[j].id]
  PROVE  FreshOK'
<1> SUFFICES ASSUME acked # Unset PROVE FreshOK'
  BY DEF FreshOK
<1>1. now \in Nat /\ acked \in 0..now
  BY DEF ListInv, CallsOK, PatchOK
<1>2. /\ now' = now
      /\ Outstanding' => Outstanding /\ Newly'.found = Newly.found
      /\ ~Outstanding' /\ ~overtaken' => Outstanding /\ i = Len(calls)
  BY CallsOver DEF ListInv
<1>3. ASSUME ~Outstanding', ~overtaken' PROVE \E t \in acked..now : RowsAre(t)'
  <2>1. CASE DOMAIN ui'.rows = {}
    BY <1>1, <2>1 DEF RowsAre
  <2>2. CASE calls[i].counted # Unset /\ DOMAIN ui'.rows # {}
    <3>1. PICK t : t = calls[i].found
      OBVIOUS
    <3>2. t \in 0..now
      BY <2>2, <3>1, CallsAreTimely
    <3>3. acked <= t
      BY <1>2, <1>3, <2>2, <3>1, <3>2, UnsetIsApart DEF FreshOK, Newly
    <3> QED
      BY <1>1, <2>2, <3>1, <3>2, <3>3 DEF RowsAre
  <2> QED
    BY <2>1, <2>2
<1> QED
  BY <1>1, <1>2, <1>3 DEF FreshOK

\* The server reads and counts.
LEMMA ServedIsFresh ==
  ASSUME ListInv, AccountsInv, NEW i \in DOMAIN calls, Find(i) \/ Count(i),
         UNCHANGED <<route, statuses, patch, acked>>
  PROVE  AccountsInv'
<1>1. /\ (Outstanding' <=> Outstanding) /\ Newly'.found \in {Newly.found, now}
      /\ UNCHANGED <<now, ui, overtaken>>
  BY CallsServed DEF ListInv
<1>2. now \in Nat /\ (acked = Unset \/ acked \in 0..now)
  BY DEF ListInv, CallsOK, AccountsInv, PatchOK
<1>3. PatchOK' /\ DialogOK'
  BY <1>1 DEF AccountsInv, PatchOK, DialogOK
<1>4. FreshOK'
  BY <1>1, <1>2 DEF AccountsInv, FreshOK, RowsAre
<1> QED
  BY <1>3, <1>4 DEF AccountsInv

LEMMA ListLoads ==
  ASSUME ListInv, AccountsInv, route = "accounts", NEW u, DOMAIN u = DOMAIN ui,
         DOMAIN u.filters = DOMAIN ui.filters, u.pagination = ui.pagination, u.rows = ui.rows,
         u.pending \in {ui.pending, Unset}, Load(u, u.filters, 1),
         UNCHANGED <<route, now, overtaken>>
  PROVE  Sends /\ DialogOK' /\ FreshOK'
<1>1. Sends
  BY LoadSends
<1>2. /\ ui' = [u EXCEPT !.loading = TRUE, !.error = FALSE]
      /\ calls' = Append(calls, Fresh(Request(u.filters, 1).q))
  BY DEF Load, Request, Fresh
<1>3. {"rows", "index", "pending"} \subseteq DOMAIN ui
  BY DEF ListInv, UiOK, Form, UiFields, AccountsInv, DialogOK
<1>4. ui'.rows = ui.rows /\ ui'.pending \in {ui.pending, Unset} /\ DOMAIN ui' = DOMAIN ui
  BY <1>2, <1>3
<1>5. DialogOK'
  BY <1>4 DEF AccountsInv, DialogOK
<1>6. FreshOK'
  BY <1>2, SentAfterwards
<1> QED
  BY <1>1, <1>5, <1>6

LEMMA AccountsUser ==
  ASSUME ListInv, AccountsInv, route = "accounts", UNCHANGED route, A!User
  PROVE  (Sends \/ Watches) /\ AccountsInv' /\ Recorded
<1>1. UNCHANGED statuses
  BY DEF A!User, A!handleSelectAccount, A!handleShowAll, A!reset, A!Cancel, A!selectStatus,
     A!selectType, A!selectOrder, A!handleStatusChange, A!confirmStatusChange, A!Free, A!Same,
     A!accountVars
<1>2. /\ UiFields \subseteq DOMAIN ui /\ ui.error \in BOOLEAN
      /\ DOMAIN ui.filters = {"status", "type", "order", "accountId"}
      /\ {"index", "pending"} \subseteq DOMAIN ui
  BY DEF ListInv, UiOK, Form, FilterNames, AccountsInv, DialogOK
<1>3. now \in now..MaxTime
  BY DEF ListInv, CallsOK
<1>4. ASSUME UNCHANGED <<now, statuses, patch, acked>> PROVE PatchOK'
  BY <1>4 DEF AccountsInv, PatchOK
<1>5. Recorded
  BY <1>1 DEF Recorded
<1>6. (Sends \/ Watches) /\ AccountsInv'
  <2>1. ASSUME NEW q, DOMAIN q = DOMAIN ui.filters, A!Acts, A!Same,
               A!Load([ui EXCEPT !.filters = q], q, 1)
        PROVE  Sends /\ AccountsInv'
    <3> DEFINE u == [ui EXCEPT !.filters = q]
    <3>1. /\ DOMAIN u = DOMAIN ui /\ u.filters = q /\ u.pagination = ui.pagination
          /\ u.rows = ui.rows /\ u.pending = ui.pending
      BY <1>2 DEF UiFields
    <3>2. Load(u, q, 1)
      BY <2>1, SameRequests
    <3>3. UNCHANGED <<route, now, overtaken, statuses, patch, acked>>
      BY <2>1 DEF A!Acts, A!Same, A!accountVars
    <3> HIDE DEF u
    <3>4. Sends /\ DialogOK' /\ FreshOK'
      BY <2>1, <3>1, <3>2, <3>3, ListLoads
    <3> QED
      BY <1>4, <3>3, <3>4 DEF AccountsInv
  <2>2. ASSUME NEW text, A!handleSelectAccount(text) PROVE Sends /\ AccountsInv'
    <3>0. PICK account : A!Free /\ LET q == [ui.filters EXCEPT !.accountId = account]
                             IN  A!loadAccounts([ui EXCEPT !.filters = q], q)
      BY <2>2 DEF A!handleSelectAccount
    <3> DEFINE q == [ui.filters EXCEPT !.accountId = account]
    <3>1. A!Acts /\ A!Same /\ A!Load([ui EXCEPT !.filters = q], q, 1)
      BY <3>0 DEF A!loadAccounts, A!Free
    <3>2. DOMAIN q = DOMAIN ui.filters
      BY <1>2
    <3> HIDE DEF q
    <3> QED
      BY <2>1, <3>1, <3>2
  <2>3. ASSUME A!handleShowAll PROVE Sends /\ AccountsInv'
    <3> DEFINE q == [ui.filters EXCEPT !.accountId = Unset]
    <3>1. A!Acts /\ A!Same /\ A!Load([ui EXCEPT !.filters = q], q, 1)
      BY <2>3 DEF A!handleShowAll, A!loadAccounts, A!Free
    <3>2. DOMAIN q = DOMAIN ui.filters
      BY <1>2
    <3> HIDE DEF q
    <3> QED
      BY <2>1, <3>1, <3>2
  <2>4. ASSUME NEW x, A!selectStatus(x) PROVE Sends /\ AccountsInv'
    <3> DEFINE q == [ui.filters EXCEPT !.status = x]
    <3>1. A!Acts /\ A!Same /\ A!Load([ui EXCEPT !.filters = q], q, 1)
      BY <2>4 DEF A!selectStatus, A!loadAccounts, A!Free
    <3>2. DOMAIN q = DOMAIN ui.filters
      BY <1>2
    <3> HIDE DEF q
    <3> QED
      BY <2>1, <3>1, <3>2
  <2>5. ASSUME NEW x, A!selectType(x) PROVE Sends /\ AccountsInv'
    <3> DEFINE q == [ui.filters EXCEPT !.type = x]
    <3>1. A!Acts /\ A!Same /\ A!Load([ui EXCEPT !.filters = q], q, 1)
      BY <2>5 DEF A!selectType, A!loadAccounts, A!Free
    <3>2. DOMAIN q = DOMAIN ui.filters
      BY <1>2
    <3> HIDE DEF q
    <3> QED
      BY <2>1, <3>1, <3>2
  <2>6. ASSUME NEW x, A!selectOrder(x) PROVE Sends /\ AccountsInv'
    <3> DEFINE q == [ui.filters EXCEPT !.order = x]
    <3>1. A!Acts /\ A!Same /\ A!Load([ui EXCEPT !.filters = q], q, 1)
      BY <2>6 DEF A!selectOrder, A!loadAccounts, A!Free
    <3>2. DOMAIN q = DOMAIN ui.filters
      BY <1>2
    <3> HIDE DEF q
    <3> QED
      BY <2>1, <3>1, <3>2
  <2>7. ASSUME A!reset PROVE Sends /\ AccountsInv'
    <3>1. A!Acts /\ A!Same /\ A!Load([ui EXCEPT !.filters = A!NoFilters], A!NoFilters, 1)
      BY <2>7 DEF A!reset, A!loadAccounts, A!Free
    <3>2. DOMAIN A!NoFilters = DOMAIN ui.filters
      BY <1>2 DEF A!NoFilters
    <3> QED
      BY <2>1, <3>1, <3>2
  <2>8. ASSUME UNCHANGED <<now, calls, overtaken, statuses, patch, acked>>, DOMAIN ui' = DOMAIN ui,
               \A f \in UiFields : ui'[f] = ui[f],
               ui'.pending # Unset => /\ ui'.pending.account \in Ids
                                      /\ ui'.pending.new \in AccountStatus
        PROVE  Watches /\ AccountsInv'
    <3>1. Watches
      BY <1>2, <2>8, EditWatches DEF UiFields
    <3>2. Keeps("rows") /\ ui'.rows = ui.rows
      BY <2>8 DEF UiFields, Keeps
    <3>3. PatchOK' /\ DialogOK'
      BY <1>4, <2>8, <3>2 DEF AccountsInv, DialogOK
    <3>4. FreshOK'
      BY <1>3, <1>5, <2>8, <3>2, RowsStayFresh DEF AccountsInv
    <3> QED
      BY <3>1, <3>3, <3>4 DEF AccountsInv
  <2>9. ASSUME A!Cancel PROVE Watches /\ AccountsInv'
    <3>1. /\ UNCHANGED <<now, calls, overtaken, statuses, patch, acked>>
          /\ ui' = [ui EXCEPT !.pending = Unset]
      BY <2>9 DEF A!Cancel, A!Looks, A!Acts, A!Same, A!accountVars
    <3> QED
      BY <1>2, <2>8, <3>1 DEF UiFields
  <2>10. ASSUME NEW i \in DOMAIN ui.rows, NEW status \in AccountStatus,
                A!handleStatusChange(i, status)
         PROVE  Watches /\ AccountsInv'
    <3>1. /\ UNCHANGED <<now, calls, overtaken, statuses, patch, acked>>
          /\ ui' = [ui EXCEPT !.pending = [account |-> ui.rows[i].id,
                                           current |-> ui.rows[i].status, new |-> status]]
      BY <2>10 DEF A!handleStatusChange, A!Looks, A!Acts, A!Same, A!accountVars
    <3>2. ui.rows[i].id \in Ids
      BY DEF AccountsInv, DialogOK
    <3>3. ui'.pending.account = ui.rows[i].id /\ ui'.pending.new = status
      BY <1>2, <3>1
    <3> QED
      BY <1>2, <2>8, <2>10, <3>1, <3>2, <3>3 DEF UiFields
  <2>11. ASSUME A!confirmStatusChange PROVE Watches /\ AccountsInv'
    <3>1. /\ UNCHANGED <<now, calls, overtaken, statuses, acked>>
          /\ ui' = [ui EXCEPT !.error = FALSE]
          /\ patch' = [account |-> ui.pending.account, new |-> ui.pending.new, stage |-> "sent"]
          /\ ui.pending # Unset
      BY <2>11 DEF A!confirmStatusChange, A!CanAnswer, A!Dialog
    <3>2. ui.pending.account \in Ids /\ ui.pending.new \in AccountStatus
      BY <3>1 DEF AccountsInv, DialogOK
    <3>3. patch' \in Patches /\ patch'.stage = "sent" /\ patch' # Unset
      BY <3>1, <3>2, UnsetIsApart DEF Patches, Ids
    <3>4. Watches
      BY <1>2, <3>1, <3>3, EditWatches DEF UiFields
    <3>5. ui'.rows = ui.rows /\ ui'.pending = ui.pending /\ DOMAIN ui' = DOMAIN ui /\ Keeps("rows")
      BY <1>2, <3>1 DEF UiFields, Keeps
    <3>6. PatchOK' /\ DialogOK'
      BY <3>1, <3>3, <3>5 DEF AccountsInv, PatchOK, DialogOK
    <3>7. FreshOK'
      BY <1>3, <1>5, <3>1, <3>5, RowsStayFresh DEF AccountsInv
    <3> QED
      BY <3>4, <3>6, <3>7 DEF AccountsInv
  <2> QED
    BY <2>2, <2>3, <2>4, <2>5, <2>6, <2>7, <2>9, <2>10, <2>11
       DEF A!User, A!AccountStatus, AccountStatus
<1> QED
  BY <1>5, <1>6

\* A status is written.
LEMMA StatusIsWritten ==
  ASSUME ListInv, PatchOK, NEW account \in Ids, NEW status \in AccountStatus, A!Write(account, status),
         now < MaxTime
  PROVE  /\ statuses' \in Seq(StatusesOf) /\ Len(statuses') = now' + 1
         /\ now' = now + 1 /\ now' \in now..MaxTime /\ Recorded
<1>1. now \in Nat /\ MaxTime \in Nat /\ statuses \in Seq(StatusesOf) /\ Len(statuses) = now + 1
  BY BoundsOfVisits DEF ListInv, CallsOK, PatchOK
<1> DEFINE last == statuses[now + 1]
           row == [last EXCEPT ![account] = status]
<1>2. statuses' = Append(statuses, row) /\ now' = now + 1
  BY <1>1 DEF A!Write, A!Last
<1>3. last \in StatusesOf
  BY <1>1
<1> HIDE DEF last
<1>4. row \in StatusesOf
  BY <1>3 DEF StatusesOf
<1> HIDE DEF row
<1>5. /\ statuses' \in Seq(StatusesOf) /\ Len(statuses') = now + 2
      /\ \A k \in 1..now + 1 : statuses'[k] = statuses[k]
  BY <1>1, <1>2, <1>4
<1>6. \A t \in 0..now : t + 1 \in 1..now + 1
  BY <1>1
<1> QED
  BY <1>1, <1>2, <1>5, <1>6 DEF Recorded

LEMMA AccountsServer ==
  ASSUME ListInv, AccountsInv, route = "accounts", UNCHANGED route, A!Server
  PROVE  Waits /\ AccountsInv' /\ Recorded
<1>1. now \in Nat /\ now \in 0..MaxTime /\ MaxTime \in Nat /\ now \in now..MaxTime
  BY BoundsOfVisits DEF ListInv, CallsOK
<1>2. ASSUME Recorded, UNCHANGED <<calls, ui, overtaken, acked>>, now' \in now..MaxTime, PatchOK',
             patch # Unset => patch' # Unset
      PROVE  Waits /\ AccountsInv' /\ Recorded
  <2>1. Waits
    BY <1>2 DEF Waits
  <2>2. DialogOK' /\ Keeps("rows")
    BY <1>2 DEF AccountsInv, DialogOK, Keeps
  <2>3. FreshOK'
    BY <1>2, <2>2, RowsStayFresh DEF AccountsInv
  <2> QED
    BY <1>2, <2>1, <2>2, <2>3 DEF AccountsInv
<1>3. CASE A!serverChecks
  <2>1. /\ UNCHANGED <<now, calls, ui, overtaken, statuses, acked>> /\ patch # Unset
        /\ patch.stage = "sent"
        /\ \/ patch' = [patch EXCEPT !.stage = "allowed"]
           \/ patch' = [patch EXCEPT !.stage = "refused"]
    BY <1>3 DEF A!serverChecks, A!listVars
  <2>2. patch \in [account : Ids, new : AccountStatus, stage : {"sent", "allowed", "refused"}]
    BY <2>1 DEF AccountsInv, PatchOK, Patches
  <2>3. patch' \in [account : Ids, new : AccountStatus, stage : {"sent", "allowed", "refused"}]
    BY <2>1, <2>2
  <2>4. patch' \in Patches /\ patch'.stage # "written" /\ patch' # Unset
    BY <2>3, UnsetIsApart DEF Patches, Ids
  <2>5. PatchOK' /\ Recorded
    BY <2>1, <2>4 DEF AccountsInv, PatchOK, Recorded
  <2> QED
    BY <1>1, <1>2, <2>1, <2>4, <2>5
<1>4. CASE A!serverWrites
  <2>1. /\ UNCHANGED <<calls, ui, overtaken, acked>> /\ patch # Unset /\ now < MaxTime
        /\ patch.stage = "allowed" /\ A!Write(patch.account, patch.new)
        /\ patch' = Spread([patch EXCEPT !.stage = "written"], [version |-> now + 1])
    BY <1>4 DEF A!serverWrites, A!Spread, Spread
  <2>2. patch \in [account : Ids, new : AccountStatus, stage : {"sent", "allowed", "refused"}]
    BY <2>1 DEF AccountsInv, PatchOK, Patches
  <2>3. patch.account \in Ids /\ patch.new \in AccountStatus
    BY <2>2
  <2>4. /\ statuses' \in Seq(StatusesOf) /\ Len(statuses') = now' + 1
        /\ now' = now + 1 /\ now' \in now..MaxTime /\ Recorded
    BY <2>1, <2>3, StatusIsWritten DEF AccountsInv
  <2>5. patch' = [account |-> patch.account, new |-> patch.new, stage |-> "written", version |-> now + 1]
    <3> DEFINE written == [patch EXCEPT !.stage = "written"]
               version == [version |-> now + 1]
    <3>1. /\ written = [account |-> patch.account, new |-> patch.new, stage |-> "written"]
          /\ DOMAIN written = {"account", "new", "stage"} /\ DOMAIN version = {"version"}
          /\ version["version"] = now + 1
      BY <2>2
    <3> HIDE DEF version
    <3>2. Spread(written, version) = [x \in {"account", "new", "stage", "version"} |->
             IF x \in {"account", "new", "stage"} THEN written[x] ELSE version[x]]
      BY <3>1 DEF Spread
    <3>3. /\ written["account"] = patch.account /\ written["new"] = patch.new
          /\ written["stage"] = "written"
      BY <3>1
    <3> HIDE DEF written
    <3> QED
      BY <2>1, <3>1, <3>2, <3>3 DEF written, version
  <2>6. patch' \in Patches /\ patch'.version = now + 1 /\ patch' # Unset
    BY <1>1, <2>3, <2>5, UnsetIsApart DEF Patches, Ids
  <2>7. PatchOK'
    BY <1>1, <2>1, <2>4, <2>6 DEF AccountsInv, PatchOK
  <2> QED
    BY <1>2, <2>1, <2>4, <2>6, <2>7
<1>5. CASE A!OtherAdmin
  <2>1. PICK a \in A!Ids, s \in A!AccountStatus : A!Write(a, s)
    BY <1>5 DEF A!OtherAdmin
  <2>2. UNCHANGED <<ui, calls, overtaken, patch, acked>> /\ now < MaxTime
    BY <1>5 DEF A!OtherAdmin
  <2>3. a \in Ids /\ s \in AccountStatus
    BY DEF A!Ids, Ids, A!AccountStatus, AccountStatus
  <2>4. /\ statuses' \in Seq(StatusesOf) /\ Len(statuses') = now' + 1
        /\ now' = now + 1 /\ now' \in now..MaxTime /\ Recorded
    BY <2>1, <2>2, <2>3, StatusIsWritten DEF AccountsInv
  <2>5. PatchOK'
    BY <1>1, <2>2, <2>4 DEF AccountsInv, PatchOK
  <2> QED
    BY <1>2, <2>2, <2>4, <2>5
<1> QED
  BY <1>3, <1>4, <1>5 DEF A!Server

LEMMA AccountsPatched ==
  ASSUME ListInv, AccountsInv, route = "accounts", UNCHANGED route, A!Patched
  PROVE  Sends /\ AccountsInv' /\ Recorded
<1>1. /\ UiFields \subseteq DOMAIN ui /\ {"index", "pending"} \subseteq DOMAIN ui
      /\ now \in Nat
  BY DEF ListInv, UiOK, Form, CallsOK, AccountsInv, DialogOK
<1>2. UNCHANGED <<now, overtaken, statuses>> /\ patch' = Unset
  BY DEF A!Patched, A!patchSucceeds, A!patchFails
<1>3. Recorded
  BY <1>2 DEF Recorded
<1>4. acked' = Unset \/ acked' \in 0..now
  BY DEF A!Patched, A!patchSucceeds, A!patchFails, AccountsInv, PatchOK
<1>5. PatchOK'
  BY <1>2, <1>4 DEF AccountsInv, PatchOK
<1>6. CASE A!patchSucceeds
  <2> DEFINE u == [ui EXCEPT !.pending = Unset]
  <2>1. Load(u, ui.filters, 1)
    BY <1>6, SameRequests DEF A!patchSucceeds, A!loadAccounts
  <2>2. /\ DOMAIN u = DOMAIN ui /\ u.filters = ui.filters /\ u.pagination = ui.pagination
        /\ u.rows = ui.rows /\ u.pending = Unset
    BY <1>1 DEF UiFields
  <2> HIDE DEF u
  <2> QED
    BY <1>2, <1>3, <1>5, <2>1, <2>2, ListLoads DEF AccountsInv
<1>7. CASE A!patchFails
  <2>1. Load(ui, ui.filters, 1)
    BY <1>7, SameRequests DEF A!patchFails, A!loadAccounts
  <2> QED
    BY <1>2, <1>3, <1>5, <2>1, ListLoads DEF AccountsInv
<1> QED
  BY <1>6, <1>7 DEF A!Patched

LEMMA AccountsArrive ==
  ASSUME ListInv, AccountsInv, route = "accounts", UNCHANGED route,
         NEW i \in DOMAIN calls, A!Arrive(i) \/ A!Fail(i)
  PROVE  (Hears(i) \/ Misses(i)) /\ AccountsInv' /\ Recorded
<1>1. /\ UiFields \subseteq DOMAIN ui /\ ui.error \in BOOLEAN
      /\ {"index", "pending"} \subseteq DOMAIN ui /\ now \in Nat
  BY DEF ListInv, UiOK, Form, CallsOK, AccountsInv, DialogOK
<1>2. UNCHANGED <<statuses, patch, acked>> /\ Over(i)
  BY SameRequests DEF A!Arrive, A!Fail, A!Same, A!accountVars
<1>3. now' = now
  BY <1>2 DEF Over
<1>4. PatchOK' /\ Recorded
  BY <1>2, <1>3 DEF AccountsInv, PatchOK, Recorded
<1>5. ASSUME ui' = [ui EXCEPT !.error = TRUE, !.rows = <<>>, !.loading = FALSE]
      PROVE  Misses(i) /\ AccountsInv'
  <2>1. Misses(i)
    BY <1>1, <1>2, <1>5, ErrorIsMissed DEF UiFields
  <2>2. DOMAIN ui' = DOMAIN ui /\ ui'.rows = <<>> /\ ui'.pending = ui.pending
    BY <1>1, <1>5 DEF UiFields
  <2>3. DOMAIN ui'.rows = {}
    BY <2>2
  <2>4. DialogOK'
    BY <2>2, <2>3 DEF AccountsInv, DialogOK
  <2>5. FreshOK'
    BY <1>2, <2>3, AnswerIsFresh DEF AccountsInv
  <2> QED
    BY <1>4, <2>1, <2>4, <2>5 DEF AccountsInv
<1>6. CASE A!Fail(i)
  BY <1>4, <1>5, <1>6 DEF A!Fail
<1>7. CASE A!Arrive(i)
  <2> DEFINE answer == A!Answer(calls[i].q, calls[i].found, calls[i].counted)
  <2>1. /\ calls[i].counted # Unset
        /\ IF answer.kind = "ok" THEN A!ShowRows(answer)
           ELSE ui' = [ui EXCEPT !.error = TRUE, !.rows = <<>>, !.loading = FALSE]
    BY <1>7 DEF A!Arrive, A!Answered
  <2>2. answer = AnswerOf(calls[i].q, calls[i].found, calls[i].counted)
    BY DEF AnswerOf
  <2>3. answer.kind = "ok" =>
          /\ answer.pagination \in Paginations
          /\ \A j \in DOMAIN answer.rows : answer.rows[j] \in A!AccountsAt(calls[i].found)
    BY <2>1, CallsAreTimely, AccountsAnswer DEF IsPage
  <2> HIDE DEF answer
  <2>4. CASE answer.kind = "ok"
    <3>1. /\ DOMAIN ui' = DOMAIN ui /\ ui'.rows = answer.rows /\ ui'.pending = ui.pending
          /\ ui'.pagination = answer.pagination /\ ui'.error = ui.error /\ ui'.filters = ui.filters
      BY <1>1, <2>1, <2>4 DEF A!ShowRows, UiFields
    <3>2. Hears(i)
      BY <1>2, <2>1, <2>2, <2>3, <2>4, <3>1, AnswerIsHeard
    <3>3. \A j \in DOMAIN ui'.rows :
            /\ ui'.rows[j].id \in Ids
            /\ ui'.rows[j].status = statuses[calls[i].found + 1][ui'.rows[j].id]
      BY <2>3, <2>4, <3>1 DEF A!AccountsAt, A!Ids, Ids
    <3>4. DialogOK'
      BY <3>1, <3>3 DEF AccountsInv, DialogOK
    <3>5. FreshOK'
      BY <1>2, <2>1, <3>3, AnswerIsFresh DEF AccountsInv
    <3> QED
      BY <1>4, <3>2, <3>4, <3>5 DEF AccountsInv
  <2>5. CASE answer.kind # "ok"
    BY <1>4, <1>5, <2>1, <2>5
  <2> QED
    BY <2>4, <2>5
<1> QED
  BY <1>6, <1>7

LEMMA AccountsIndex ==
  ASSUME ListInv, AccountsInv, route = "accounts", UNCHANGED route, A!loadSearchIndex(Index)
  PROVE  Watches /\ AccountsInv' /\ Recorded
<1>1. /\ UiFields \subseteq DOMAIN ui /\ ui.error \in BOOLEAN
      /\ {"index", "pending"} \subseteq DOMAIN ui /\ now \in now..MaxTime
  BY DEF ListInv, UiOK, Form, CallsOK, AccountsInv, DialogOK
<1>2. /\ UNCHANGED <<now, calls, overtaken, statuses, patch, acked>>
      /\ \/ ui' = [ui EXCEPT !.index = A!getAccountSearchIndexForAdmin(Index)]
         \/ ui' = [ui EXCEPT !.index = <<>>, !.error = TRUE]
  BY DEF A!loadSearchIndex, A!Same, A!accountVars
<1>3. PatchOK' /\ Recorded
  BY <1>2 DEF AccountsInv, PatchOK, Recorded
<1>4. /\ DOMAIN ui' = DOMAIN ui /\ ui'.error \in BOOLEAN /\ (ui.error => ui'.error)
      /\ ui'.rows = ui.rows /\ ui'.pending = ui.pending
      /\ \A f \in UiFields \ {"expanded", "error"} : ui'[f] = ui[f]
  BY <1>1, <1>2 DEF UiFields
<1>5. Watches
  BY <1>2, <1>4, EditWatches
<1>6. DialogOK' /\ Keeps("rows")
  BY <1>4 DEF AccountsInv, DialogOK, Keeps
<1>7. FreshOK'
  BY <1>1, <1>2, <1>3, <1>6, RowsStayFresh DEF AccountsInv
<1> QED
  BY <1>3, <1>5, <1>6, <1>7 DEF AccountsInv

LEMMA AccountsStep ==
  ASSUME ListInv, AccountsInv, Accounts
  PROVE  ListStep /\ AccountsInv' /\ Recorded
<1>1. route = "accounts" /\ UNCHANGED route
  BY DEF Accounts, Stay
<1> QED
  BY <1>1, AccountsUser, AccountsIndex, AccountsServer, AccountsPatched, AccountsArrive
     DEF Accounts, ListStep

-----------------------------------------------------------------------------
(* The list of runs.                                                       *)

\* Every run that is shown was in the table at some time.
RunsInv == \A i \in DOMAIN ui.rows : \E t \in 0..MaxTime : ui.rows[i] \in Tables.runs[t]

LEMMA RunsAreFromTheTable ==
  ASSUME ListInv, RunsInv, route = "runs", [Next]_vars
  PROVE  RunsInv'
<1>1. UiFields \subseteq DOMAIN ui
  BY DEF ListInv, UiOK, Form
<1>2. ASSUME ui'.rows = ui.rows PROVE RunsInv'
  BY <1>2 DEF RunsInv
<1>3. CASE UNCHANGED vars \/ Serve \/ Clock
  BY <1>2, <1>3 DEF vars, listVars, Serve, Find, Count, Clock, Tick
<1>4. CASE Runs
  <2>1. CASE R!User
    BY <1>1, <1>2, <2>1 DEF R!User, R!handleJobTypeChange, R!handleStatusChange,
       R!handleAnomalyChange, R!handleOrderChange, R!resetFilters, R!paginate, R!loadRuns,
       R!Load, R!Toggle, UiFields
  <2>2. ASSUME NEW i \in DOMAIN calls, R!Fail(i) PROVE RunsInv'
    <3>1. ui'.rows = <<>>
      BY <1>1, <2>2 DEF R!Fail, R!ShowError, UiFields
    <3> QED
      BY <3>1 DEF RunsInv
  <2>3. ASSUME NEW i \in DOMAIN calls, R!Arrive(i) PROVE RunsInv'
    <3> DEFINE answer == R!Answer(calls[i].q, calls[i].found, calls[i].counted)
    <3>1. /\ calls[i].counted # Unset
          /\ IF answer.kind = "ok" THEN R!ShowRowsClosed(answer) ELSE R!ShowError
      BY <2>3 DEF R!Arrive, R!Answered
    <3>2. calls[i].found \in 0..MaxTime /\ calls[i].counted \in 0..MaxTime
      BY <3>1, CallsAreTimely
    <3>3. answer.kind = "ok" =>
            \A j \in DOMAIN answer.rows : answer.rows[j] \in Tables.runs[calls[i].found]
      BY <3>1, CallsAreTimely, RunsAnswer
    <3> HIDE DEF answer
    <3>4. ui'.rows = <<>> \/ (answer.kind = "ok" /\ ui'.rows = answer.rows)
      BY <1>1, <3>1 DEF R!ShowRowsClosed, R!ShowError, UiFields
    <3> QED
      BY <3>2, <3>3, <3>4 DEF RunsInv
  <2> QED
    BY <1>4, <2>1, <2>2, <2>3 DEF Runs
<1> QED
  BY <1>3, <1>4 DEF Next, Transactions, Events, IdempotencyKeys, Ledger, Accounts,
     SimulationResults, Movements, UserPages

-----------------------------------------------------------------------------
(* Every list page, on all of a visit.                                     *)

ListsInv ==
    /\ route \in ListRoutes => ListInv
    /\ route = "accounts" => AccountsInv
    /\ route = "runs" => RunsInv

LEMMA ListsBegin == Init => ListsInv
<1> SUFFICES ASSUME Init PROVE ListsInv
  OBVIOUS
<1>1. ASSUME route = "accounts" PROVE AccountsInv
  <2> DEFINE more == [index |-> Unset, pending |-> Unset]
             first == [a \in Ids |-> "ACTIVE"]
  <2>1. /\ ui = A!Mounted /\ calls = A!Sent /\ now = 0 /\ overtaken = FALSE /\ patch = Unset
        /\ acked = Unset /\ statuses = <<first>>
    BY <1>1 DEF Init, Ids
  <2>2. A!Mounted = Spread([Blank(A!NoFilters) EXCEPT !.loading = TRUE], more)
    BY DEF A!Mounted, A!Spread, Spread, A!Blank, Blank
  <2>3. /\ DOMAIN more \cap UiFields = {} /\ {"index", "pending"} \subseteq DOMAIN more
        /\ more["pending"] = Unset
    BY DEF UiFields
  <2> HIDE DEF more
  <2>4. MountedAs(ui, A!NoFilters, more)
    BY <2>1, <2>2, <2>3, MountedPage
  <2>5. DialogOK
    BY <2>3, <2>4 DEF MountedAs, DialogOK
  <2>6. first \in StatusesOf
    BY DEF StatusesOf, AccountStatus
  <2> HIDE DEF first
  <2>7. PatchOK
    BY <2>1, <2>6 DEF PatchOK
  <2>8. FreshOK
    BY <2>1 DEF FreshOK
  <2> QED
    BY <2>5, <2>7, <2>8 DEF AccountsInv
<1>2. ASSUME route = "runs" PROVE RunsInv
  <2>1. ui.rows = <<>>
    BY <1>2 DEF Init, R!Mounted, R!Blank
  <2> QED
    BY <2>1 DEF RunsInv
<1> QED
  BY <1>1, <1>2, ListBegins DEF ListsInv

LEMMA ListsGoOn == ListsInv /\ [Next]_vars => ListsInv'
<1> SUFFICES ASSUME ListsInv, [Next]_vars PROVE ListsInv'
  OBVIOUS
<1>1. UNCHANGED route
  BY DEF Next, vars, Transactions, Events, IdempotencyKeys, Ledger, Accounts, Runs,
     SimulationResults, Movements, UserPages, Serve, Clock, Rest, Stay
<1>2. ASSUME route \in ListRoutes \ {"accounts"} PROVE ListInv'
  <2>1. ListInv /\ AnswersStay
    BY <1>1, <1>2, AnswersStayTheSame DEF ListsInv
  <2>2. ASSUME UNCHANGED vars PROVE ListStep
    BY <2>1, <2>2 DEF vars, listVars, ListStep, Watches, ListInv, UiOK, Form, KeepsControls, Keeps
  <2>3. ASSUME Clock PROVE ListStep
    <3>1. now \in Nat /\ MaxTime \in Nat
      BY <2>1, BoundsOfVisits DEF ListInv, CallsOK
    <3>2. Waits
      BY <2>3, <3>1 DEF Clock, Tick, Rest, Stay, Waits
    <3> QED
      BY <3>2 DEF ListStep
  <2>4. ASSUME Serve PROVE ListStep
    BY <2>4 DEF Serve, Rest, Stay, ListStep
  <2>5. ListStep
    BY <1>1, <1>2, <2>1, <2>2, <2>3, <2>4, TransactionsStep, EventsStep, KeysStep, LedgerStep,
       RunsStep, MovementsStep
       DEF Next, Accounts, SimulationResults, UserPages, ListRoutes, FilterNames
  <2> QED
    BY <2>1, <2>5, ListStepKeeps
<1>3. ASSUME route = "accounts" PROVE ListInv' /\ AccountsInv'
  <2>1. ListInv /\ AccountsInv
    BY <1>3 DEF ListsInv, ListRoutes, FilterNames
  <2>2. CASE Accounts
    BY <1>1, <1>3, <2>1, <2>2, AccountsStep, AccountsStay, ListStepKeeps
  <2>3. CASE Serve
    <3>1. UNCHANGED <<route, statuses, patch, acked>> /\ ListStep /\ Recorded
      BY <2>3 DEF Serve, Rest, Stay, ListStep, Recorded
    <3>2. AccountsInv'
      BY <2>1, <2>3, <3>1, ServedIsFresh DEF Serve
    <3> QED
      BY <1>1, <1>3, <2>1, <3>1, <3>2, AccountsStay, ListStepKeeps
  <2>4. CASE UNCHANGED vars
    <3>1. UNCHANGED <<now, ui, calls, overtaken, route, statuses, patch, acked>>
      BY <2>4 DEF vars, listVars
    <3>2. ListStep /\ Recorded
      BY <2>1, <3>1 DEF ListStep, Watches, ListInv, UiOK, Form, KeepsControls, Keeps, Recorded
    <3>3. AccountsInv'
      BY <2>1, <3>1 DEF AccountsInv, PatchOK, DialogOK, FreshOK, RowsAre, Outstanding, Newly
    <3> QED
      BY <1>1, <1>3, <2>1, <3>2, <3>3, AccountsStay, ListStepKeeps
  <2> QED
    BY <1>3, <2>2, <2>3, <2>4 DEF Next, Transactions, Events, IdempotencyKeys, Ledger, Runs,
       SimulationResults, Movements, UserPages, Clock
<1>4. ASSUME route = "runs" PROVE RunsInv'
  BY <1>4, RunsAreFromTheTable DEF ListsInv, ListRoutes, FilterNames
<1> QED
  BY <1>1, <1>2, <1>3, <1>4 DEF ListsInv
=============================================================================
