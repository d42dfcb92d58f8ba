--------------------------- MODULE TransactionsPage ---------------------------
(***************************************************************************)
(* The page of all transactions: five filters, a search box that knows the *)
(* accounts, and rows that open to show the additional ledger entries.     *)
(***************************************************************************)
EXTENDS ListPage

CONSTANT Table       \* Table[t]: the rows the database holds at time t

StatusOptions == {Unset, "PENDING", "SUCCESS", "FAILED", "REVERSED"}
TypeOptions == {Unset, "TRANSFER", "DEPOSIT", "WITHDRAWAL", "PAYMENT", "REFUND"}
NoFilters == [status |-> Unset, type |-> Unset, order |-> "desc", transactionId |-> Unset,
              userId |-> Unset]

Answer(q, found, counted) ==
    getTransactionsForAdminController(q, Table[found], Table[counted])

loadTransactions(u, q, page) == Load(u, q, page)
Mounted == Spread([Blank(NoFilters) EXCEPT !.loading = TRUE], [search |-> Unset, index |-> Unset])
Sent == <<Request(NoFilters, 1)>>

\* Without an answer the search box knows no account.
loadSearchIndex(accounts) ==
    /\ ui.index = Unset
    /\ \/ ui' = [ui EXCEPT !.index = getAccountSearchIndexForAdmin(accounts)]
       \/ ui' = [ui EXCEPT !.index = <<>>]
    /\ UNCHANGED <<now, calls, moves, overtaken>>

\* Only an account whose user's id is known can be selected.
selectUser(text) ==
    /\ Acts /\ ui.index # Unset
    /\ \E i \in DOMAIN Offered(ui.index, text) :
         LET account == Offered(ui.index, text)[i]
             q == [ui.filters EXCEPT !.userId = account.userId, !.transactionId = Unset]
         IN  /\ account.userId # Unset
             /\ loadTransactions([ui EXCEPT !.filters = q, !.search = account.name], q, 1)

searchTransaction_Stale(text) ==    \* mutant: the request still names the selected status only
    /\ Acts /\ text # Unset
    /\ loadTransactions([ui EXCEPT !.filters.transactionId = text, !.filters.userId = Unset,
                                   !.search = text], ui.filters, 1)
searchTransaction(text) ==
    /\ Acts /\ text # Unset
    /\ LET q == [ui.filters EXCEPT !.transactionId = text, !.userId = Unset]
       IN  loadTransactions([ui EXCEPT !.filters = q, !.search = text], q, 1)

clearSearch ==
    /\ Acts /\ ui.search # Unset
    /\ LET q == [ui.filters EXCEPT !.transactionId = Unset, !.userId = Unset]
       IN  loadTransactions([ui EXCEPT !.filters = q, !.search = Unset], q, 1)

resetFilters ==
    /\ Acts
    /\ loadTransactions([ui EXCEPT !.filters = NoFilters, !.search = Unset, !.expanded = Unset],
                        NoFilters, 1)

handleStatusChange(status) ==
    /\ Acts /\ status # ui.filters.status
    /\ LET q == [ui.filters EXCEPT !.status = status]
       IN  loadTransactions([ui EXCEPT !.filters = q], q, 1)

handleTypeChange(type) ==
    /\ Acts /\ type # ui.filters.type
    /\ LET q == [ui.filters EXCEPT !.type = type]
       IN  loadTransactions([ui EXCEPT !.filters = q], q, 1)

handleOrderChange(order) ==
    /\ Acts /\ order # ui.filters.order
    /\ LET q == [ui.filters EXCEPT !.order = order]
       IN  loadTransactions([ui EXCEPT !.filters = q], q, 1)

paginate(direction) == /\ CanPage(direction) /\ Acts
                       /\ loadTransactions(ui, ui.filters, PageTo(direction))

\* The answer does not close the details; an error message replaces the rows.
Arrive(i) ==
    /\ Answered(i)
    /\ LET answer == Answer(calls[i].q, calls[i].found, calls[i].counted)
       IN  IF answer.kind = "ok" THEN ShowRows(answer) ELSE ShowError
    /\ Over(i)
Fail(i) == Fails(i) /\ ShowError /\ Over(i)

User == \/ \E text \in Entered : selectUser(text) \/ searchTransaction(text)
        \/ clearSearch \/ resetFilters
        \/ \E s \in StatusOptions \cap Entered : handleStatusChange(s)
        \/ \E t \in TypeOptions \cap Entered : handleTypeChange(t)
        \/ \E order \in {"asc", "desc"} : handleOrderChange(order)
        \/ \E direction \in Directions : paginate(direction)
        \/ \E i \in DOMAIN ui.rows : Toggle(ui.rows[i].id)

-----------------------------------------------------------------------------
(* What the page shows.                                                    *)

Badges == {<<f, ui.filters[f]>> : f \in {g \in {"transactionId", "userId", "status", "type"} :
                                            ui.filters[g] # Unset}}

MainRow(t) ==
    [date |-> t.at, from |-> IF t.from # Unset THEN t.from.name ELSE t.initiator,
     to |-> IF t.to # Unset THEN t.to.name ELSE Unset, type |-> t.type, status |-> t.status]
Details(t) ==
    [id |-> t.id, initiator |-> t.initiator, additional |-> t.additional,
     entries |-> t.ledgerEntryCount]
TransactionRows ==
    [i \in DOMAIN ui.rows |->
        [row |-> MainRow(ui.rows[i]),
         details |-> IF ui.expanded = ui.rows[i].id THEN Details(ui.rows[i]) ELSE Unset]]
=============================================================================
