---------------------------- MODULE AccountsPage ----------------------------
(***************************************************************************)
(* The page of accounts, where an administrator freezes, unfreezes and     *)
(* closes them.  Time is the number of status writes.  The page has no     *)
(* buttons for other pages than the first.                                 *)
(***************************************************************************)
EXTENDS ListPage

CONSTANT Created     \* Created[a]: when the wallet a was created

VARIABLES
    statuses,    \* statuses[n]: the status of every account after n - 1 writes
    patch,       \* the change of status that is under way, or Unset
    acked        \* history: the version the last acknowledged change wrote, or Unset

Ids == DOMAIN Created
accountVars == <<statuses, patch, acked>>

NoFilters == [status |-> Unset, type |-> Unset, order |-> "desc", accountId |-> Unset]
StatusOptions == {Unset} \cup AccountStatus
TypeOptions == {Unset} \cup AccountType

AccountsAt(t) == {[id |-> a, at |-> Created[a], type |-> "USER_WALLET",
                   status |-> statuses[t + 1][a]] : a \in Ids}
Answer(q, found, counted) == getAccountsForAdminController(q, AccountsAt(found), AccountsAt(counted))

loadAccounts(u, q) == Load(u, q, 1)
Mounted == Spread([Blank(NoFilters) EXCEPT !.loading = TRUE], [index |-> Unset, pending |-> Unset])
Sent == <<Request(NoFilters, 1)>>
Same == UNCHANGED accountVars

\* Without the index, the search finds nothing and a message is shown.
loadSearchIndex(accounts) ==
    /\ ui.index = Unset
    /\ \/ ui' = [ui EXCEPT !.index = getAccountSearchIndexForAdmin(accounts)]
       \/ ui' = [ui EXCEPT !.index = <<>>, !.error = TRUE]
    /\ Same /\ UNCHANGED <<now, calls, moves, overtaken>>

\* The dialog covers the page while it is open.
Free == Acts /\ ui.pending = Unset /\ Same

handleSelectAccount(text) ==
    /\ Free /\ ui.index # Unset
    /\ \E i \in DOMAIN Offered(ui.index, text) :
         LET q == [ui.filters EXCEPT !.accountId = Offered(ui.index, text)[i].id]
         IN  loadAccounts([ui EXCEPT !.filters = q], q)
handleShowAll ==
    /\ Free /\ ui.filters.accountId # Unset
    /\ LET q == [ui.filters EXCEPT !.accountId = Unset]
       IN  loadAccounts([ui EXCEPT !.filters = q], q)
selectStatus(status) ==
    /\ Free /\ status # ui.filters.status
    /\ LET q == [ui.filters EXCEPT !.status = status]
       IN  loadAccounts([ui EXCEPT !.filters = q], q)
selectType(type) ==
    /\ Free /\ type # ui.filters.type
    /\ LET q == [ui.filters EXCEPT !.type = type]
       IN  loadAccounts([ui EXCEPT !.filters = q], q)
selectOrder(order) ==
    /\ Free /\ order # ui.filters.order
    /\ LET q == [ui.filters EXCEPT !.order = order]
       IN  loadAccounts([ui EXCEPT !.filters = q], q)
reset == Free /\ loadAccounts([ui EXCEPT !.filters = NoFilters], NoFilters)

\* Another status is chosen in a row; the dialog asks for a confirmation.
handleStatusChange(i, status) ==
    /\ Looks /\ ui.pending = Unset /\ ~ui.loading /\ i \in DOMAIN ui.rows
    /\ status # ui.rows[i].status
    /\ ui' = [ui EXCEPT !.pending = [account |-> ui.rows[i].id, current |-> ui.rows[i].status,
                                     new |-> status]]
    /\ Same

\* The dialog, whose buttons are disabled while a change is under way.
Dialog == IF ui.pending = Unset THEN Unset
          ELSE Spread(ui.pending, [warns |-> ui.pending.new = "CLOSE", enabled |-> patch = Unset])
CanAnswer == Dialog # Unset /\ Dialog.enabled

Cancel == /\ Looks /\ CanAnswer
          /\ ui' = [ui EXCEPT !.pending = Unset]
          /\ Same

confirmStatusChange ==
    /\ CanAnswer /\ moves < MaxMoves /\ Len(calls) < MaxCalls
    /\ moves' = moves + 1
    /\ ui' = [ui EXCEPT !.error = FALSE]
    /\ patch' = [account |-> ui.pending.account, new |-> ui.pending.new, stage |-> "sent"]
    /\ UNCHANGED <<now, calls, overtaken, statuses, acked>>

\* What the endpoints demand of the status they read, for each new status; to
\* close an account also needs its balance to be zero, which it may not be.
Demands(new) == CASE new = "ACTIVE" -> {"FROZEN"}
                  [] new = "FROZEN" -> {"ACTIVE"}
                  [] new = "CLOSE"  -> {"ACTIVE", "FROZEN"}
serverChecks ==
    /\ patch # Unset /\ patch.stage = "sent"
    /\ \/ /\ Last(statuses)[patch.account] \in Demands(patch.new)
          /\ patch' = [patch EXCEPT !.stage = "allowed"]
       \/ /\ Last(statuses)[patch.account] \notin Demands(patch.new) \/ patch.new = "CLOSE"
          /\ patch' = [patch EXCEPT !.stage = "refused"]
    /\ UNCHANGED <<listVars, statuses, acked>>
Write(account, status) ==
    /\ statuses' = Append(statuses, [Last(statuses) EXCEPT ![account] = status])
    /\ now' = now + 1
serverWrites ==
    /\ patch # Unset /\ patch.stage = "allowed" /\ now < MaxTime
    /\ Write(patch.account, patch.new)
    /\ patch' = Spread([patch EXCEPT !.stage = "written"], [version |-> now + 1])
    /\ UNCHANGED <<ui, calls, moves, overtaken, acked>>

\* In either case the list is read again, with the filters there were when the
\* change was confirmed; after an error the dialog stays open, and the message is
\* cleared by the reading.
patchSucceeds_NoReload ==   \* mutant: the list is not read again
    /\ patch # Unset /\ patch.stage = "written"
    /\ ui' = [ui EXCEPT !.pending = Unset]
    /\ acked' = patch.version /\ patch' = Unset
    /\ UNCHANGED <<now, calls, moves, overtaken, statuses>>
patchSucceeds ==
    /\ patch # Unset /\ patch.stage = "written"
    /\ loadAccounts([ui EXCEPT !.pending = Unset], ui.filters)
    /\ acked' = patch.version /\ patch' = Unset
    /\ UNCHANGED <<now, moves, overtaken, statuses>>
\* An error is a refusal, or an answer that is lost at any time.
patchFails ==
    /\ patch # Unset
    /\ loadAccounts(ui, ui.filters)
    /\ patch' = Unset
    /\ UNCHANGED <<now, moves, overtaken, statuses, acked>>

\* Another administrator changes a status.
OtherAdmin == /\ now < MaxTime
              /\ \E a \in Ids, s \in AccountStatus :
                   /\ s # Last(statuses)[a] /\ Last(statuses)[a] # "CLOSE"
                   /\ Write(a, s)
              /\ UNCHANGED <<ui, calls, moves, overtaken, patch, acked>>

\* An error clears the rows.
Arrive(i) ==
    /\ Answered(i)
    /\ LET answer == Answer(calls[i].q, calls[i].found, calls[i].counted)
       IN  IF answer.kind = "ok" THEN ShowRows(answer)
           ELSE ui' = [ui EXCEPT !.error = TRUE, !.rows = <<>>, !.loading = FALSE]
    /\ Over(i) /\ Same
Fail(i) == /\ Fails(i)
           /\ ui' = [ui EXCEPT !.error = TRUE, !.rows = <<>>, !.loading = FALSE]
           /\ Over(i) /\ Same

User == \/ \E text \in Entered : handleSelectAccount(text)
        \/ handleShowAll \/ reset \/ Cancel
        \/ \E s \in StatusOptions \cap Entered : selectStatus(s)
        \/ \E t \in TypeOptions \cap Entered : selectType(t)
        \/ \E order \in {"asc", "desc"} : selectOrder(order)
        \/ \E i \in DOMAIN ui.rows, s \in AccountStatus : handleStatusChange(i, s)
        \/ confirmStatusChange
Server == serverChecks \/ serverWrites \/ OtherAdmin
Patched == patchSucceeds \/ patchFails

-----------------------------------------------------------------------------
(* What the page shows.                                                    *)

AccountRows ==
    [i \in DOMAIN ui.rows |->
        LET a == ui.rows[i] IN
        [id |-> a.id, name |-> IF Owner[a.id] # Unset THEN Owner[a.id] ELSE "System Account",
         type |-> a.type, status |-> a.status]]
=============================================================================
