----------------------------- MODULE LedgerPage -----------------------------
(***************************************************************************)
(* The page of all ledger entries: a search by account or transaction, of  *)
(* which one excludes the other, and a filter on the direction.            *)
(***************************************************************************)
EXTENDS ListPage

CONSTANT Table       \* Table[t]: the rows the database holds at time t

NoFilters == [accountId |-> Unset, transactionId |-> Unset, direction |-> Unset, order |-> "desc"]

Answer(q, found, counted) ==
    getLedgerEntriesForAdminController(q, Table[found], Table[counted])

loadLedger(u, q, page) == Load(u, q, page)
Mounted == Spread([Blank(NoFilters) EXCEPT !.loading = TRUE], [search |-> Unset, index |-> Unset])
Sent == <<Request(NoFilters, 1)>>

loadSearchIndex(accounts) ==
    /\ ui.index = Unset
    /\ \/ ui' = [ui EXCEPT !.index = getAccountSearchIndexForAdmin(accounts)]
       \/ ui' = [ui EXCEPT !.index = <<>>]
    /\ UNCHANGED <<now, calls, moves, overtaken>>

selectAccount(text) ==
    /\ Acts /\ ui.index # Unset
    /\ \E i \in DOMAIN Offered(ui.index, text) :
         LET account == Offered(ui.index, text)[i]
             q == [ui.filters EXCEPT !.accountId = account.id, !.transactionId = Unset]
         IN  loadLedger([ui EXCEPT !.filters = q, !.search = account.name], q, 1)

searchTransaction(text) ==
    /\ Acts /\ text # Unset
    /\ LET q == [ui.filters EXCEPT !.transactionId = text, !.accountId = Unset]
       IN  loadLedger([ui EXCEPT !.filters = q, !.search = text], q, 1)

clearSearch ==
    /\ Acts /\ ui.search # Unset
    /\ LET q == [ui.filters EXCEPT !.accountId = Unset, !.transactionId = Unset]
       IN  loadLedger([ui EXCEPT !.filters = q, !.search = Unset], q, 1)

handleDirectionChange(direction) ==
    /\ Acts /\ direction # ui.filters.direction
    /\ LET q == [ui.filters EXCEPT !.direction = direction]
       IN  loadLedger([ui EXCEPT !.filters = q], q, 1)

handleSortChange(order) ==
    /\ Acts /\ order # ui.filters.order
    /\ LET q == [ui.filters EXCEPT !.order = order]
       IN  loadLedger([ui EXCEPT !.filters = q], q, 1)

resetFilters ==
    /\ Acts
    /\ loadLedger([ui EXCEPT !.filters = NoFilters, !.search = Unset], NoFilters, 1)

paginate(direction) == /\ CanPage(direction) /\ Acts
                       /\ loadLedger(ui, ui.filters, PageTo(direction))

Arrive(i) ==
    /\ Answered(i)
    /\ LET answer == Answer(calls[i].q, calls[i].found, calls[i].counted)
       IN  IF answer.kind = "ok" THEN ShowRows(answer) ELSE ShowError
    /\ Over(i)
Fail(i) == Fails(i) /\ ShowError /\ Over(i)

User == \/ \E text \in Entered : selectAccount(text) \/ searchTransaction(text)
        \/ clearSearch \/ resetFilters
        \/ \E d \in (EntryType \cup {Unset}) \cap Entered : handleDirectionChange(d)
        \/ \E order \in {"asc", "desc"} : handleSortChange(order)
        \/ \E direction \in Directions : paginate(direction)

-----------------------------------------------------------------------------
(* What the page shows.                                                    *)

Badges == {<<f, ui.filters[f]>> : f \in {g \in {"accountId", "transactionId", "direction"} :
                                            ui.filters[g] # Unset}}

ShownName(a) == IF SystemType[a] # Unset THEN SystemType[a]
                ELSE IF Owner[a] # Unset THEN Owner[a] ELSE "System Account"
LedgerRows ==
    [i \in DOMAIN ui.rows |->
        LET e == ui.rows[i] IN
        [date |-> e.at, name |-> ShownName(e.account), accountId |-> e.account,
         transactionId |-> e.transaction, direction |-> e.direction, amount |-> e.amount,
         status |-> e.status]]
=============================================================================
