-------------------------------- MODULE WebApp --------------------------------
(***************************************************************************)
(* The frontend: a visit of an administrator to one of the list pages, of  *)
(* a user to the page of movements, or people who register and pay.  A     *)
(* visit is the page, the requests it has sent, and the database that      *)
(* changes meanwhile.  Leaving a page unmounts it, and what still arrives  *)
(* for it is dropped, so that every visit starts afresh.                   *)
(***************************************************************************)
EXTENDS ListPage, UserApp

CONSTANTS
    Tables,      \* Tables[route][t]: the rows a page lists, at time t
    Created,     \* Created[a]: when the wallet a was created
    Mine,        \* the account of the user who reads the own movements
    Anomalies    \* the lists of anomalies that a job may find

VARIABLES
    route,       \* the page that is visited
    statuses, patch, acked

T == INSTANCE TransactionsPage WITH Table <- Tables.transactions
E == INSTANCE EventsPage WITH Table <- Tables.events
K == INSTANCE IdempotencyPage WITH Table <- Tables.keys
L == INSTANCE LedgerPage WITH Table <- Tables.ledger
A == INSTANCE AccountsPage
R == INSTANCE ReconciliationPage WITH Table <- Tables.runs
\* A click on a run may send two requests at once.
S == INSTANCE SimulationResultsPage WITH Table <- Tables.simulations, MaxCalls <- 2 * MaxCalls
M == INSTANCE UserLedgerPage WITH Table <- Tables.ledger

Index == {[id |-> a, at |-> Created[a]] : a \in DOMAIN Created}

\* The tables are finite, and no two rows of one are of the same time and id.
ASSUME TablesAreOrdered ==
    /\ \A name \in {"transactions", "events", "keys", "ledger", "runs", "simulations"} :
         \A t \in 0..MaxTime : IsFiniteSet(Tables[name][t]) /\ Ordered(Tables[name][t])
    /\ IsFiniteSet(DOMAIN Created) /\ Ordered(Index)

\* A run is as it was created or as its job has saved it.
ASSUME RunsAreSaved ==
    \A t \in 0..MaxTime : \A run \in Tables.runs[t] :
        \/ run = R!StartedRun(run.id, run.at, run.jobType)
        \/ /\ run.jobType \in JobType \ {"UNKNOWN"} /\ run.details # Unset
           /\ \E found \in Anomalies, previous \in {Unset} \cup {r.id : r \in Tables.runs[t]} :
                run = R!CompletedRun(run.id, run.at, run.jobType, found, previous)

\* A simulation has an id.  Its status may be anything at any time: a spawn handler that
\* comes late makes a completed simulation run again.
ASSUME SimulationsHaveIds ==
    \A t \in 0..MaxTime : \A r \in Tables.simulations[t] : r.id # Unset

\* Nothing that is there looks like something that is not.
ASSUME UnsetIsApart ==
    /\ Unset \notin Nat
    /\ Unset \notin [page : Nat, limit : Nat, total : Nat, totalPages : Nat]
    /\ Unset \notin [account : DOMAIN Created, new : AccountStatus,
                     stage : {"sent", "allowed", "refused"}]
    /\ Unset \notin [account : DOMAIN Created, new : AccountStatus, stage : {"written"},
                     version : Nat]

vars == <<listVars, route, statuses, patch, acked, userVars>>

Stay == UNCHANGED <<route, userVars>>
Rest == Stay /\ UNCHANGED <<statuses, patch, acked>>
Init ==
    /\ now = 0 /\ moves = 0 /\ overtaken = FALSE
    /\ statuses = <<[a \in DOMAIN Created |-> "ACTIVE"]>> /\ patch = Unset /\ acked = Unset
    /\ UserInit
    /\ \/ route = "transactions" /\ ui = T!Mounted /\ calls = T!Sent
       \/ route = "events" /\ ui = E!Mounted /\ calls = E!Sent
       \/ route = "keys" /\ ui = K!Mounted /\ calls = K!Sent
       \/ route = "ledger" /\ ui = L!Mounted /\ calls = L!Sent
       \/ route = "accounts" /\ ui = A!Mounted /\ calls = A!Sent
       \/ route = "runs" /\ ui = R!Mounted /\ calls = R!Sent
       \/ route = "results" /\ ui = S!Mounted /\ calls = S!Sent
       \/ route = "mine" /\ ui = M!Mounted /\ calls = M!Sent
       \/ route = "user" /\ ui = Unset /\ calls = <<>>

Transactions == /\ route = "transactions" /\ Rest
                /\ \/ T!User \/ T!loadSearchIndex(Index)
                   \/ \E i \in DOMAIN calls : T!Arrive(i) \/ T!Fail(i)
Events == /\ route = "events" /\ Rest
          /\ E!User \/ \E i \in DOMAIN calls : E!Arrive(i) \/ E!Fail(i)
IdempotencyKeys == /\ route = "keys" /\ Rest
                   /\ K!User \/ \E i \in DOMAIN calls : K!Arrive(i) \/ K!Fail(i)
Ledger == /\ route = "ledger" /\ Rest
          /\ \/ L!User \/ L!loadSearchIndex(Index)
             \/ \E i \in DOMAIN calls : L!Arrive(i) \/ L!Fail(i)
Accounts == /\ route = "accounts" /\ Stay
            /\ \/ A!User \/ A!loadSearchIndex(Index) \/ A!Server \/ A!Patched
               \/ \E i \in DOMAIN calls : A!Arrive(i) \/ A!Fail(i)
Runs == /\ route = "runs" /\ Rest
        /\ R!User \/ \E i \in DOMAIN calls : R!Arrive(i) \/ R!Fail(i)
SimulationResults == /\ route = "results" /\ Rest
                     /\ S!User \/ \E i \in DOMAIN calls : S!Arrive(i) \/ S!Fail(i)
Movements == /\ route = "mine" /\ Rest
             /\ M!User \/ \E i \in DOMAIN calls : M!Arrive(i) \/ M!Fail(i)
UserPages == /\ route = "user" /\ UserNext
             /\ UNCHANGED <<listVars, route, statuses, patch, acked>>

Serve == Rest /\ \E i \in DOMAIN calls : Find(i) \/ Count(i)
Clock == Rest /\ route \notin {"accounts", "user"} /\ Tick

Next == \/ Transactions \/ Events \/ IdempotencyKeys \/ Ledger \/ Accounts \/ Runs
        \/ SimulationResults \/ Movements \/ UserPages
        \/ Serve \/ Clock
Spec == Init /\ [][Next]_vars

-----------------------------------------------------------------------------
AnswerOf(q, found, counted) ==
    CASE route = "transactions" -> T!Answer(q, found, counted)
      [] route = "events" -> E!Answer(q, found, counted)
      [] route = "keys" -> K!Answer(q, found, counted)
      [] route = "ledger" -> L!Answer(q, found, counted)
      [] route = "accounts" -> A!Answer(q, found, counted)
      [] route = "runs" -> R!Answer(q, found, counted)
      [] route = "mine" -> M!Answer(q, found, counted)

\* The page is at rest: it awaits no answer, and shows one that was not overtaken.
AtRest == route # "user" /\ calls = <<>> /\ ~ui.error /\ ~overtaken
ShownPage == IF route = "mine" THEN ui.page
             ELSE IF ui.pagination = Unset THEN 1 ELSE ui.pagination.page

\* The filters that a page displays as badges, and the rows that it lists.
ShownBadges ==
    CASE route = "transactions" -> T!Badges [] route = "events" -> E!Badges
      [] route = "keys" -> K!Badges [] route = "ledger" -> L!Badges
      [] route = "runs" -> R!Badges
      [] route = "mine" -> {<<f, ui.filters[f]>> : f \in {g \in DOMAIN M!FilterOptions :
                                                             ui.filters[g] # Unset}}
      [] OTHER -> {}
ShownRows ==
    CASE route = "transactions" -> {T!TransactionRows[i].row : i \in DOMAIN ui.rows}
      [] route = "events" -> {E!EventRows[i].row : i \in DOMAIN ui.rows}
      [] route = "keys" -> {K!IdempotencyRows[i].row : i \in DOMAIN ui.rows}
      [] route = "ledger" -> Range(L!LedgerRows)
      [] route = "runs" -> {R!ReconciliationRows[i].row : i \in DOMAIN ui.rows}
      [] route = "mine" -> {M!LedgerTable[i].first : i \in DOMAIN ui.rows}
                           \cup UNION {Range(M!LedgerTable[i].lines) : i \in DOMAIN ui.rows}
      [] OTHER -> {}
RowsHaveBadges == \A row \in ShownRows, badge \in ShownBadges :
                      badge[1] \in DOMAIN row => row[badge[1]] = badge[2]

\* The entry of the sidebar that is marked is that of the result in the panel.
ResultIsOfSelection ==
    S!Screen.panel = "result" =>
        \E i \in DOMAIN ui.runs : S!Sidebar[i].selected /\ S!Sidebar[i].id = ui.result

\* A page at rest shows what the server answers, at some time of the visit, to
\* exactly the filters and the page number that its controls display, so that every row
\* is as the badges say; and the result that is shown belongs to the selected simulation.
\* Between two requests of which the older is answered last, none of this is true, nor
\* while a change of status that was tried again is under way: an error has cleared the
\* rows, and the confirmation only the message (handlers of all the pages).
SettledPageShowsItsFilters ==
    AtRest /\ patch = Unset =>
        IF route = "results" THEN ResultIsOfSelection
        ELSE /\ RowsHaveBadges
             /\ route = "mine" => M!Pager.shown = ui.page
             /\ \E found \in 0..now, counted \in 0..now :
                  LET answer == AnswerOf(Request(ui.filters, ShownPage).q, found, counted)
                  IN  /\ answer.kind = "ok" /\ found <= counted
                      /\ ui.rows = answer.rows /\ ui.pagination = answer.pagination

\* Once a change of status was acknowledged, a page of accounts at rest shows no
\* status that is older than the change (confirmStatusChange).
ShownStatusIsFresh ==
    route = "accounts" /\ AtRest /\ acked # Unset =>
        \E t \in acked..now : \A i \in DOMAIN A!AccountRows :
            A!AccountRows[i].status = statuses[t + 1][A!AccountRows[i].id]

\* The open details of a run list as many anomalies as its row announces, except
\* those of a sweep, which list none whatever was swept.
DetailsTellTheAnomalies ==
    route = "runs" => \A i \in DOMAIN R!ReconciliationRows :
        LET shown == R!ReconciliationRows[i] IN
        shown.details # Unset =>
            Len(shown.details.report.listed) =
                IF shown.row.jobType = "PENDING_SWEEPER" THEN 0 ELSE shown.row.anomalies
=============================================================================
