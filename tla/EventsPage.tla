----------------------------- MODULE EventsPage -----------------------------
(***************************************************************************)
(* The page of the events of transactions: a search by transaction, a      *)
(* filter on the event, and rows that open to show the event.              *)
(***************************************************************************)
EXTENDS ListPage

CONSTANT Table       \* Table[t]: the rows the database holds at time t

NoFilters == [transactionId |-> Unset, event |-> Unset, order |-> "desc"]

Answer(q, found, counted) ==
    getTransactionEventsForAdminController(q, Table[found], Table[counted])

loadEvents(u, q, page) == Load(u, q, page)
Mounted == Spread([Blank(NoFilters) EXCEPT !.loading = TRUE], [search |-> Unset])
Sent == <<Request(NoFilters, 1)>>

\* Enter searches for nothing, too.
searchTransaction(text) ==
    /\ Acts
    /\ LET q == [ui.filters EXCEPT !.transactionId = text]
       IN  loadEvents([ui EXCEPT !.filters = q, !.search = text], q, 1)

clearSearch == /\ ui.search # Unset
               /\ searchTransaction(Unset)

handleEventChange(event) ==
    /\ Acts /\ event # ui.filters.event
    /\ LET q == [ui.filters EXCEPT !.event = event]
       IN  loadEvents([ui EXCEPT !.filters = q], q, 1)

handleOrderChange(order) ==
    /\ Acts /\ order # ui.filters.order
    /\ LET q == [ui.filters EXCEPT !.order = order]
       IN  loadEvents([ui EXCEPT !.filters = q], q, 1)

resetFilters ==
    /\ Acts
    /\ loadEvents([ui EXCEPT !.filters = NoFilters, !.search = Unset, !.expanded = Unset],
                  NoFilters, 1)

paginate(direction) == /\ CanPage(direction) /\ Acts
                       /\ loadEvents(ui, ui.filters, PageTo(direction))

Arrive(i) ==
    /\ Answered(i)
    /\ LET answer == Answer(calls[i].q, calls[i].found, calls[i].counted)
       IN  IF answer.kind = "ok" THEN ShowRowsClosed(answer) ELSE ShowError
    /\ Over(i)
Fail(i) == Fails(i) /\ ShowError /\ Over(i)

User == \/ \E text \in Entered : searchTransaction(text)
        \/ clearSearch \/ resetFilters
        \/ \E event \in (EventType \cup {Unset}) \cap Entered : handleEventChange(event)
        \/ \E order \in {"asc", "desc"} : handleOrderChange(order)
        \/ \E direction \in Directions : paginate(direction)
        \/ \E i \in DOMAIN ui.rows : Toggle(ui.rows[i].id)

-----------------------------------------------------------------------------
(* What the page shows.                                                    *)

Badges == {<<f, ui.filters[f]>> : f \in {g \in {"transactionId", "event"} :
                                            ui.filters[g] # Unset}}

\* Type and status are those of the transaction when the answer was made.
MainRow(e) == [date |-> e.at, event |-> e.event, transactionId |-> e.transaction,
               type |-> e.type, status |-> e.status]
Details(e) == [id |-> e.id, transactionId |-> e.transaction, event |-> e.event, type |-> e.type,
               status |-> e.status, metadata |-> e.metadata]
EventRows ==
    [i \in DOMAIN ui.rows |->
        [row |-> MainRow(ui.rows[i]),
         details |-> IF ui.expanded = ui.rows[i].id THEN Details(ui.rows[i]) ELSE Unset]]
=============================================================================
