--------------------------- MODULE IdempotencyPage ---------------------------
(***************************************************************************)
(* The page of idempotency keys: a search by key, filters on the status    *)
(* and on whether the key has expired, and rows that open to show it.      *)
(***************************************************************************)
EXTENDS ListPage

CONSTANT Table       \* Table[t]: the rows the database holds at time t

STATUS_OPTIONS == {Unset, "IN_PROGRESS", "COMPLETED", "FAILED"}
NoFilters == [key |-> Unset, status |-> Unset, expired |-> Unset, order |-> "desc"]

\* Whether a key has expired is asked of the server's clock, once for both statements.
Answer(q, found, counted) ==
    getIdempotencyKeysForAdminController(q, Table[found], Table[counted], found)

loadKeys(u, q, page) == Load(u, q, page)
Mounted == Spread([Blank(NoFilters) EXCEPT !.loading = TRUE], [search |-> Unset])
Sent == <<Request(NoFilters, 1)>>

searchKey(text) ==
    /\ Acts
    /\ LET q == [ui.filters EXCEPT !.key = text]
       IN  loadKeys([ui EXCEPT !.filters = q, !.search = text], q, 1)

clearSearch == /\ ui.search # Unset
               /\ searchKey(Unset)

handleStatusChange(status) ==
    /\ Acts /\ status # ui.filters.status
    /\ LET q == [ui.filters EXCEPT !.status = status]
       IN  loadKeys([ui EXCEPT !.filters = q], q, 1)

handleExpiredChange(expired) ==
    /\ Acts /\ expired # ui.filters.expired
    /\ LET q == [ui.filters EXCEPT !.expired = expired]
       IN  loadKeys([ui EXCEPT !.filters = q], q, 1)

handleOrderChange(order) ==
    /\ Acts /\ order # ui.filters.order
    /\ LET q == [ui.filters EXCEPT !.order = order]
       IN  loadKeys([ui EXCEPT !.filters = q], q, 1)

resetFilters ==
    /\ Acts
    /\ loadKeys([ui EXCEPT !.filters = NoFilters, !.search = Unset, !.expanded = Unset],
                NoFilters, 1)

paginate(direction) == /\ CanPage(direction) /\ Acts
                       /\ loadKeys(ui, ui.filters, PageTo(direction))

Arrive(i) ==
    /\ Answered(i)
    /\ LET answer == Answer(calls[i].q, calls[i].found, calls[i].counted)
       IN  IF answer.kind = "ok" THEN ShowRowsClosed(answer) ELSE ShowError
    /\ Over(i)
Fail(i) == Fails(i) /\ ShowError /\ Over(i)

User == \/ \E text \in Entered : searchKey(text)
        \/ clearSearch \/ resetFilters
        \/ \E s \in STATUS_OPTIONS \cap Entered : handleStatusChange(s)
        \/ \E e \in {Unset, "true", "false"} : handleExpiredChange(e)
        \/ \E order \in {"asc", "desc"} : handleOrderChange(order)
        \/ \E direction \in Directions : paginate(direction)
        \/ \E i \in DOMAIN ui.rows : Toggle(ui.rows[i].id)

-----------------------------------------------------------------------------
(* What the page shows.                                                    *)

Badges == {<<f, ui.filters[f]>> : f \in {g \in {"key", "status", "expired"} :
                                            ui.filters[g] # Unset}}

\* Whether a key has expired is decided anew, by the clock of the browser, each
\* time the page is drawn.
IsExpired(k) == k.expiresAt < now
MainRow(k) == [date |-> k.at, key |-> k.id, status |-> k.status, expires |-> k.expiresAt,
               red |-> IsExpired(k), requestHash |-> k.requestHash]
Details(k) == [key |-> k.id, status |-> k.status, created |-> k.at, expires |-> k.expiresAt,
               requestHash |-> k.requestHash, response |-> k.response]
IdempotencyRows ==
    [i \in DOMAIN ui.rows |->
        [row |-> MainRow(ui.rows[i]),
         details |-> IF ui.expanded = ui.rows[i].id THEN Details(ui.rows[i]) ELSE Unset]]
=============================================================================
