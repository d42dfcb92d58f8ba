---------------------------- MODULE UserLedgerPage ----------------------------
(***************************************************************************)
(* The page on which a user reads the movements of the own account.  Every *)
(* change of a filter or of the page number sends a request; a new filter  *)
(* does not go back to the first page, the buttons are not disabled while  *)
(* an answer is awaited, and an error leaves the old rows on the page.     *)
(***************************************************************************)
EXTENDS ListPage

CONSTANTS
    Table,       \* Table[t]: the rows the database holds at time t
    Mine         \* the account of the user

\* In this page `error' is no part of the state: it remembers that the last answer
\* was an error.
NoFilters == [direction |-> Unset, type |-> Unset, status |-> Unset, order |-> "desc"]
FilterOptions == [direction |-> {Unset, "DEBIT", "CREDIT"},
                  type |-> {Unset, "TRANSFER", "DEPOSIT", "WITHDRAWAL", "REVERSAL"},
                  status |-> {Unset, "SUCCESS", "FAILED", "PENDING"}]

Answer(q, found, counted) == getMyTransactionsController(Mine, q, Table[found], Table[counted])

loadLedger(u) == Load(u, u.filters, u.page)
Mounted == Spread([Blank(NoFilters) EXCEPT !.loading = TRUE], [page |-> 1])
Sent == <<Request(NoFilters, 1)>>

update(name, value) ==
    /\ Acts /\ value # ui.filters[name]
    /\ loadLedger([ui EXCEPT !.filters[name] = value])

onPageChange(direction) ==
    /\ Acts /\ ui.pagination # Unset
    /\ IF direction = "Previous"
       THEN ui.page # 1 /\ loadLedger([ui EXCEPT !.page = @ - 1])
       ELSE ui.page # ui.pagination.totalPages /\ loadLedger([ui EXCEPT !.page = @ + 1])

Arrive(i) ==
    /\ Answered(i)
    /\ LET answer == Answer(calls[i].q, calls[i].found, calls[i].counted)
       IN  IF answer.kind = "ok" THEN ShowRows(answer)
           ELSE ui' = [ui EXCEPT !.loading = FALSE, !.error = TRUE]
    /\ Over(i)
Fail(i) == /\ Fails(i)
           /\ ui' = [ui EXCEPT !.loading = FALSE, !.error = TRUE]
           /\ Over(i)

User == \/ \E name \in DOMAIN FilterOptions : \E value \in FilterOptions[name] \cap Entered :
              update(name, value)
        \/ \E direction \in Directions : onPageChange(direction)

-----------------------------------------------------------------------------
(* What the page shows.                                                    *)

\* One line per counterpart; date, type, balance and status stand in the first.
LedgerTable ==
    [i \in DOMAIN ui.rows |->
        LET entry == ui.rows[i] IN
        [lines |-> [j \in DOMAIN entry.rows |->
                      [name |-> entry.rows[j].name, direction |-> entry.rows[j].direction,
                       amount |-> entry.rows[j].amount]],
         first |-> [date |-> entry.at, type |-> entry.type, balance |-> entry.balanceAfter,
                    status |-> entry.status]]]
Pager == [shown |-> ui.pagination.page, of |-> ui.pagination.totalPages,
          previous |-> ui.page # 1, next |-> ui.page # ui.pagination.totalPages]
=============================================================================
