------------------------------- MODULE Listing -------------------------------
(***************************************************************************)
(* What all the list endpoints of the backend share: a parameter that is   *)
(* not sent restricts nothing, rows are sorted by time and then by id, a   *)
(* page is skipped to and taken, and a second statement counts the rows.   *)
(***************************************************************************)
EXTENDS Naturals, Sequences, FiniteSets, SequencesExt, FiniteSetsExt

CONSTANT Unset       \* a query parameter that is not sent

\* `{ ...g, ...f }`: the fields of two records.
Spread(f, g) == [x \in DOMAIN f \cup DOMAIN g |-> IF x \in DOMAIN f THEN f[x] ELSE g[x]]

\* `...(filters.x && { x })`: only a parameter that is sent is compared.
Given(filter, value) == filter = Unset \/ filter = value

\* The range of dates, `from` and `to` included.
InRange(q, time) == /\ q.from = Unset \/ q.from <= time
                    /\ q.to = Unset \/ time <= q.to

\* Math.max(Number(page) || 1, 1) and Math.min(Math.max(Number(limit) || 20, 1), 100)
PageNumber(q) == IF q.page = Unset \/ q.page < 1 THEN 1 ELSE q.page
RowLimit(q) == IF q.limit \in {Unset, 0} THEN 20 ELSE Min({Max({q.limit, 1}), 100})

\* r is listed before s: it is newer, or of the same time and has the greater id; the
\* i-th row is the one that i - 1 others are listed before.
Later(r, s) == r.at > s.at \/ (r.at = s.at /\ r.id > s.id)
Before(rows, r) == {s \in rows \ {r} : Later(s, r)}
Newest(rows) == [i \in 1..Cardinality(rows) |->
                     CHOOSE r \in rows : Cardinality(Before(rows, r)) = i - 1]
\* Rows that this order tells apart.
Ordered(rows) ==
    /\ \A r, s \in rows : r # s => (Later(r, s) <=> ~Later(s, r))
    /\ \A r, s, u \in rows : r # s /\ s # u /\ Later(r, s) /\ Later(s, u) => Later(r, u)
Oldest(rows) == Reverse(Newest(rows))
Sorted(rows, order) == IF order = "asc" THEN Oldest(rows) ELSE Newest(rows)

\* `filter`: the rows at the positions I, in their order; k - 1 come before the k-th.
Filtered(rows, I) == [k \in 1..Cardinality(I) |->
                          rows[CHOOSE i \in I : Cardinality({j \in I : j < i}) = k - 1]]

Slice(rows, page, limit) == SubSeq(rows, (page - 1) * limit + 1, Min({page * limit, Len(rows)}))

Pagination(total, page, limit) ==
    [page |-> page, limit |-> limit, total |-> total,
     totalPages |-> (total + limit - 1) \div limit]

\* The two statements of a list: the rows are those of an earlier snapshot
\* (found), the count is taken from a later one (counted).
PageOf(found, counted, q) ==
    [rows |-> Slice(Sorted(found, q.order), PageNumber(q), RowLimit(q)),
     pagination |-> Pagination(Cardinality(counted), PageNumber(q), RowLimit(q))]

\* The kinds of answers.
Ok(body)   == Spread([kind |-> "ok"], body)
BadRequest == [kind |-> "badRequest"]
Failed     == [kind |-> "failed"]
=============================================================================
