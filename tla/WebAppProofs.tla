---------------------------- MODULE WebAppProofs ----------------------------
(***************************************************************************)
(* Proofs about WebApp: what a page shows once it is at rest, for all the  *)
(* pages of the administrators and for that of the movements (PageProofs   *)
(* has the invariant of those that list rows), and the people of UserApp   *)
(* beside them, for any people, wallets and number of payments.            *)
(***************************************************************************)
EXTENDS PageProofs

-----------------------------------------------------------------------------
(* Pages at rest.                                                          *)

\* The value of a filter that is set is that of the column, in every row.
LEMMA BadgeOfRow ==
  ASSUME NEW row, NEW badge, NEW filter, badge[2] = filter, filter # Unset,
         NEW value, Given(filter, value), badge[1] \in DOMAIN row => row[badge[1]] = value
  PROVE  badge[1] \in DOMAIN row => row[badge[1]] = badge[2]
BY DEF Given

LEMMA TransactionsBadges ==
  ASSUME route = "transactions",
         \A i \in DOMAIN ui.rows : /\ Given(ui.filters.status, ui.rows[i].status)
                                   /\ Given(ui.filters.type, ui.rows[i].type)
  PROVE  RowsHaveBadges
<1>1. ShownBadges = T!Badges /\ ShownRows = {T!TransactionRows[i].row : i \in DOMAIN ui.rows}
  BY DEF ShownBadges, ShownRows
<1>2. SUFFICES ASSUME NEW i \in DOMAIN ui.rows, NEW badge \in T!Badges,
                      badge[1] \in DOMAIN T!TransactionRows[i].row
               PROVE  T!TransactionRows[i].row[badge[1]] = badge[2]
  BY <1>1 DEF RowsHaveBadges
<1>3. PICK f \in {"transactionId", "userId", "status", "type"} :
        badge = <<f, ui.filters[f]>> /\ ui.filters[f] # Unset
  BY DEF T!Badges
<1>4. T!TransactionRows[i].row = T!MainRow(ui.rows[i])
  BY DEF T!TransactionRows
<1>5. badge[1] = f /\ badge[2] = ui.filters[f]
  BY <1>3
<1>6. /\ DOMAIN T!MainRow(ui.rows[i]) = {"date", "from", "to", "type", "status"}
      /\ T!MainRow(ui.rows[i]).type = ui.rows[i].type
      /\ T!MainRow(ui.rows[i]).status = ui.rows[i].status
  BY DEF T!MainRow
<1>7. f \in {"status", "type"}
  BY <1>2, <1>3, <1>4, <1>5, <1>6
<1> QED
  BY <1>3, <1>4, <1>5, <1>6, <1>7 DEF Given

LEMMA EventsBadges ==
  ASSUME route = "events",
         \A i \in DOMAIN ui.rows : /\ Given(ui.filters.transactionId, ui.rows[i].transaction)
                                   /\ Given(ui.filters.event, ui.rows[i].event)
  PROVE  RowsHaveBadges
<1>1. ShownBadges = E!Badges /\ ShownRows = {E!EventRows[i].row : i \in DOMAIN ui.rows}
  BY DEF ShownBadges, ShownRows
<1>2. SUFFICES ASSUME NEW i \in DOMAIN ui.rows, NEW badge \in E!Badges,
                      badge[1] \in DOMAIN E!EventRows[i].row
               PROVE  E!EventRows[i].row[badge[1]] = badge[2]
  BY <1>1 DEF RowsHaveBadges
<1>3. PICK f \in {"transactionId", "event"} :
        badge = <<f, ui.filters[f]>> /\ ui.filters[f] # Unset
  BY DEF E!Badges
<1>4. E!EventRows[i].row = E!MainRow(ui.rows[i])
  BY DEF E!EventRows
<1>5. badge[1] = f /\ badge[2] = ui.filters[f]
  BY <1>3
<1>6. /\ E!MainRow(ui.rows[i]).transactionId = ui.rows[i].transaction
      /\ E!MainRow(ui.rows[i]).event = ui.rows[i].event
  BY DEF E!MainRow
<1> QED
  BY <1>3, <1>4, <1>5, <1>6 DEF Given

LEMMA KeysBadges ==
  ASSUME route = "keys",
         \A i \in DOMAIN ui.rows : /\ Given(ui.filters.key, ui.rows[i].id)
                                   /\ Given(ui.filters.status, ui.rows[i].status)
  PROVE  RowsHaveBadges
<1>1. ShownBadges = K!Badges /\ ShownRows = {K!IdempotencyRows[i].row : i \in DOMAIN ui.rows}
  BY DEF ShownBadges, ShownRows
<1>2. SUFFICES ASSUME NEW i \in DOMAIN ui.rows, NEW badge \in K!Badges,
                      badge[1] \in DOMAIN K!IdempotencyRows[i].row
               PROVE  K!IdempotencyRows[i].row[badge[1]] = badge[2]
  BY <1>1 DEF RowsHaveBadges
<1>3. PICK f \in {"key", "status", "expired"} :
        badge = <<f, ui.filters[f]>> /\ ui.filters[f] # Unset
  BY DEF K!Badges
<1>4. K!IdempotencyRows[i].row = K!MainRow(ui.rows[i])
  BY DEF K!IdempotencyRows
<1>5. badge[1] = f /\ badge[2] = ui.filters[f]
  BY <1>3
<1>6. /\ DOMAIN K!MainRow(ui.rows[i]) = {"date", "key", "status", "expires", "red", "requestHash"}
      /\ K!MainRow(ui.rows[i]).key = ui.rows[i].id
      /\ K!MainRow(ui.rows[i]).status = ui.rows[i].status
  BY DEF K!MainRow
<1>7. f \in {"key", "status"}
  BY <1>2, <1>3, <1>4, <1>5, <1>6
<1> QED
  BY <1>3, <1>4, <1>5, <1>6, <1>7 DEF Given

LEMMA LedgerBadges ==
  ASSUME route = "ledger",
         \A i \in DOMAIN ui.rows : /\ Given(ui.filters.accountId, ui.rows[i].account)
                                   /\ Given(ui.filters.transactionId, ui.rows[i].transaction)
                                   /\ Given(ui.filters.direction, ui.rows[i].direction)
  PROVE  RowsHaveBadges
<1>1. ShownBadges = L!Badges /\ ShownRows = {L!LedgerRows[i] : i \in DOMAIN ui.rows}
  BY DEF ShownBadges, ShownRows, Range, L!LedgerRows
<1>2. SUFFICES ASSUME NEW i \in DOMAIN ui.rows, NEW badge \in L!Badges,
                      badge[1] \in DOMAIN L!LedgerRows[i]
               PROVE  L!LedgerRows[i][badge[1]] = badge[2]
  BY <1>1 DEF RowsHaveBadges
<1>3. PICK f \in {"accountId", "transactionId", "direction"} :
        badge = <<f, ui.filters[f]>> /\ ui.filters[f] # Unset
  BY DEF L!Badges
<1>4. badge[1] = f /\ badge[2] = ui.filters[f]
  BY <1>3
<1>5. /\ L!LedgerRows[i].accountId = ui.rows[i].account
      /\ L!LedgerRows[i].transactionId = ui.rows[i].transaction
      /\ L!LedgerRows[i].direction = ui.rows[i].direction
  BY DEF L!LedgerRows
<1> QED
  BY <1>3, <1>4, <1>5 DEF Given

LEMMA RunsBadges ==
  ASSUME route = "runs",
         \A i \in DOMAIN ui.rows : /\ Given(ui.filters.jobType, ui.rows[i].jobType)
                                   /\ Given(ui.filters.status, ui.rows[i].status)
  PROVE  RowsHaveBadges
<1>1. ShownBadges = R!Badges /\ ShownRows = {R!ReconciliationRows[i].row : i \in DOMAIN ui.rows}
  BY DEF ShownBadges, ShownRows
<1>2. SUFFICES ASSUME NEW i \in DOMAIN ui.rows, NEW badge \in R!Badges,
                      badge[1] \in DOMAIN R!ReconciliationRows[i].row
               PROVE  R!ReconciliationRows[i].row[badge[1]] = badge[2]
  BY <1>1 DEF RowsHaveBadges
<1>3. PICK f \in {"jobType", "status", "hasAnomalies"} :
        badge = <<f, ui.filters[f]>> /\ ui.filters[f] # Unset
  BY DEF R!Badges
<1>4. R!ReconciliationRows[i].row = R!MainRow(ui.rows[i])
  BY DEF R!ReconciliationRows
<1>5. badge[1] = f /\ badge[2] = ui.filters[f]
  BY <1>3
<1>6. /\ DOMAIN R!MainRow(ui.rows[i]) = {"started", "jobType", "status", "anomalies"}
      /\ R!MainRow(ui.rows[i]).jobType = ui.rows[i].jobType
      /\ R!MainRow(ui.rows[i]).status = ui.rows[i].status
  BY DEF R!MainRow
<1>7. f \in {"jobType", "status"}
  BY <1>2, <1>3, <1>4, <1>5, <1>6
<1> QED
  BY <1>3, <1>4, <1>5, <1>6, <1>7 DEF Given

LEMMA MovementsBadges ==
  ASSUME route = "mine",
         \A i \in DOMAIN ui.rows :
            /\ Given(ui.filters.status, ui.rows[i].status) /\ Given(ui.filters.type, ui.rows[i].type)
            /\ \A j \in DOMAIN ui.rows[i].rows :
                 Given(ui.filters.direction, ui.rows[i].rows[j].direction)
  PROVE  RowsHaveBadges
<1> DEFINE first(i) == M!LedgerTable[i].first
           lines(i) == M!LedgerTable[i].lines
<1>1. ShownRows = {first(i) : i \in DOMAIN ui.rows} \cup UNION {Range(lines(i)) : i \in DOMAIN ui.rows}
  BY DEF ShownRows
<1>2. ShownBadges = {<<f, ui.filters[f]>> : f \in {g \in DOMAIN M!FilterOptions : ui.filters[g] # Unset}}
  BY DEF ShownBadges
<1>3. SUFFICES ASSUME NEW row \in ShownRows, NEW badge \in ShownBadges, badge[1] \in DOMAIN row
               PROVE  row[badge[1]] = badge[2]
  BY DEF RowsHaveBadges
<1>4. PICK f \in {"direction", "type", "status"} :
        badge = <<f, ui.filters[f]>> /\ ui.filters[f] # Unset
  BY <1>2 DEF M!FilterOptions
<1>5. badge[1] = f /\ badge[2] = ui.filters[f]
  BY <1>4
<1>6. ASSUME NEW i \in DOMAIN ui.rows, row = first(i) PROVE row[badge[1]] = badge[2]
  <2>1. /\ DOMAIN row = {"date", "type", "balance", "status"}
        /\ row.type = ui.rows[i].type /\ row.status = ui.rows[i].status
    BY <1>6 DEF M!LedgerTable
  <2>2. f \in {"type", "status"}
    BY <1>3, <1>5, <2>1
  <2> QED
    BY <1>4, <1>5, <2>1, <2>2 DEF Given
<1>7. ASSUME NEW i \in DOMAIN ui.rows, row \in Range(lines(i)) PROVE row[badge[1]] = badge[2]
  <2>1. PICK j \in DOMAIN lines(i) : row = lines(i)[j]
    BY <1>7 DEF Range
  <2>2. lines(i) = [k \in DOMAIN ui.rows[i].rows |->
                      [name |-> ui.rows[i].rows[k].name, direction |-> ui.rows[i].rows[k].direction,
                       amount |-> ui.rows[i].rows[k].amount]]
    BY DEF M!LedgerTable
  <2>3. /\ j \in DOMAIN ui.rows[i].rows /\ DOMAIN row = {"name", "direction", "amount"}
        /\ row.direction = ui.rows[i].rows[j].direction
    BY <2>1, <2>2
  <2>4. f = "direction"
    BY <1>3, <1>5, <2>3
  <2> QED
    BY <1>4, <1>5, <2>3, <2>4 DEF Given
<1> HIDE DEF first, lines
<1> QED
  BY <1>1, <1>6, <1>7

\* A page at rest shows an answer to the filters and the page number it displays.
LEMMA ListAtRest ==
  ASSUME ListsInv, AtRest, patch = Unset, route \in ListRoutes
  PROVE  SettledPageShowsItsFilters
<1>1. ListInv /\ calls = <<>> /\ ~ui.error /\ ~overtaken
  BY DEF ListsInv, AtRest
<1>2. Shows
  BY <1>1 DEF ListInv, Outstanding
<1>3. PICK q : \E page \in Nat \ {0}, found \in 0..now, counted \in 0..now :
        /\ q = Request(ui.filters, page).q /\ found <= counted
        /\ AnswerOf(q, found, counted).kind = "ok"
        /\ ui.rows = AnswerOf(q, found, counted).rows
        /\ ui.pagination = AnswerOf(q, found, counted).pagination
        /\ route = "mine" => ui.page = page
  BY <1>2 DEF Shows
<1>4. PICK page \in Nat \ {0}, found \in 0..now, counted \in 0..now :
        /\ q = Request(ui.filters, page).q /\ found <= counted
        /\ AnswerOf(q, found, counted).kind = "ok"
        /\ ui.rows = AnswerOf(q, found, counted).rows
        /\ ui.pagination = AnswerOf(q, found, counted).pagination
        /\ route = "mine" => ui.page = page
  BY <1>3
<1>5. found \in 0..MaxTime /\ counted \in 0..MaxTime
  BY <1>1, BoundsOfVisits DEF ListInv, CallsOK
<1>6. q.page = page /\ q.limit = Limit /\ \A f \in DOMAIN ui.filters : q[f] = ui.filters[f]
  <2>1. DOMAIN ui.filters \cap ParamNames = {}
    BY <1>1 DEF ListInv, UiOK, Form, FilterNames, ParamNames, ListRoutes
  <2> QED
    BY <1>4, <2>1, RequestOf
<1>7. q.page \in Nat \ {0} /\ q.limit \in Nat \ {0}
  BY <1>6, BoundsOfVisits
<1>8. DOMAIN ui.filters = FilterNames[route]
  BY <1>1 DEF ListInv, UiOK, Form
<1>9. RowsHaveBadges /\ ui.pagination \in Paginations /\ ui.pagination.page = page
  <2>1. CASE route = "transactions"
    <3>1. /\ q.status = ui.filters.status /\ q.type = ui.filters.type
          /\ AnswerOf(q, found, counted) = T!Answer(q, found, counted)
      BY <1>6, <1>8, <2>1 DEF FilterNames, AnswerOf
    <3> QED
      BY <1>4, <1>5, <1>6, <1>7, <2>1, <3>1, TransactionsAnswer, TransactionsBadges DEF IsPage
  <2>2. CASE route = "events"
    <3>1. /\ q.transactionId = ui.filters.transactionId /\ q.event = ui.filters.event
          /\ AnswerOf(q, found, counted) = E!Answer(q, found, counted)
      BY <1>6, <1>8, <2>2 DEF FilterNames, AnswerOf
    <3> QED
      BY <1>4, <1>5, <1>6, <1>7, <2>2, <3>1, EventsAnswer, EventsBadges DEF IsPage
  <2>3. CASE route = "keys"
    <3>1. /\ q.key = ui.filters.key /\ q.status = ui.filters.status
          /\ AnswerOf(q, found, counted) = K!Answer(q, found, counted)
      BY <1>6, <1>8, <2>3 DEF FilterNames, AnswerOf
    <3> QED
      BY <1>4, <1>5, <1>6, <1>7, <2>3, <3>1, KeysAnswer, KeysBadges DEF IsPage
  <2>4. CASE route = "ledger"
    <3>1. /\ q.accountId = ui.filters.accountId /\ q.transactionId = ui.filters.transactionId
          /\ q.direction = ui.filters.direction
          /\ AnswerOf(q, found, counted) = L!Answer(q, found, counted)
      BY <1>6, <1>8, <2>4 DEF FilterNames, AnswerOf
    <3> QED
      BY <1>4, <1>5, <1>6, <1>7, <2>4, <3>1, LedgerAnswer, LedgerBadges DEF IsPage
  <2>5. CASE route = "accounts"
    <3>1. AnswerOf(q, found, counted) = A!Answer(q, found, counted)
      BY <2>5 DEF AnswerOf
    <3>2. RowsHaveBadges
      BY <2>5 DEF RowsHaveBadges, ShownBadges
    <3> QED
      BY <1>4, <1>6, <1>7, <3>1, <3>2, AccountsAnswer DEF IsPage
  <2>6. CASE route = "runs"
    <3>1. /\ q.jobType = ui.filters.jobType /\ q.status = ui.filters.status
          /\ AnswerOf(q, found, counted) = R!Answer(q, found, counted)
      BY <1>6, <1>8, <2>6 DEF FilterNames, AnswerOf
    <3> QED
      BY <1>4, <1>5, <1>6, <1>7, <2>6, <3>1, RunsAnswer, RunsBadges DEF IsPage
  <2>7. CASE route = "mine"
    <3>1. /\ q.status = ui.filters.status /\ q.type = ui.filters.type
          /\ q.direction = ui.filters.direction
          /\ AnswerOf(q, found, counted) = M!Answer(q, found, counted)
      BY <1>6, <1>8, <2>7 DEF FilterNames, AnswerOf
    <3> QED
      BY <1>4, <1>5, <1>6, <1>7, <2>7, <3>1, MovementsAnswer, MovementsBadges DEF IsPage
  <2> QED
    BY <2>1, <2>2, <2>3, <2>4, <2>5, <2>6, <2>7 DEF ListRoutes, FilterNames
<1>10. ShownPage = page
  BY <1>4, <1>9, UnsetIsApart DEF ShownPage, Paginations
<1>11. route = "mine" => M!Pager.shown = ui.page
  BY <1>4, <1>9 DEF M!Pager
<1>12. route # "results"
  BY DEF ListRoutes, FilterNames
<1>13. AnswerOf(Request(ui.filters, ShownPage).q, found, counted) = AnswerOf(q, found, counted)
  BY <1>4, <1>10
<1> QED
  BY <1>4, <1>9, <1>11, <1>12, <1>13 DEF SettledPageShowsItsFilters

-----------------------------------------------------------------------------
(* The details of a run.                                                   *)

ListedOf(run) == R!ReconciliationDetails(run).listed

LEMMA NothingIsListed ==
  ASSUME NEW run, R!asRecord(run.details) = <<>>
  PROVE  Len(ListedOf(run)) = 0
<1>1. \A field : R!asArray(R!asRecord(run.details), field) = <<>>
  <2>1. DOMAIN <<>> = {}
    OBVIOUS
  <2> QED
    BY <2>1 DEF R!asArray
<1>2. ListedOf(run) = <<>>
  BY <1>1 DEF ListedOf, R!ReconciliationDetails, R!PendingSweeperDetails,
     R!LedgerConsistencyDetails, R!OrphanDetectorDetails, R!IdempotencyCleanupDetails,
     R!AccountSanityDetails, R!GenericDetails
<1> QED
  BY <1>2

\* The anomalies of a run whose details are an object that has them.
LEMMA AnomaliesAreListed ==
  ASSUME NEW run, run.jobType \in {"LEDGER_CONSISTENCY", "ORPHAN_DETECTOR", "ACCOUNT_SANITY"},
         NEW record, R!asRecord(run.details) = record, "anomalies" \in DOMAIN record
  PROVE  ListedOf(run) = record["anomalies"]
<1>1. R!asArray(R!asRecord(run.details), "anomalies") = record["anomalies"]
  BY DEF R!asArray
<1> QED
  BY <1>1 DEF ListedOf, R!ReconciliationDetails, R!LedgerConsistencyDetails,
     R!OrphanDetectorDetails, R!AccountSanityDetails

LEMMA SavedRunsTell ==
  ASSUME NEW t \in 0..MaxTime, NEW run \in Tables.runs[t]
  PROVE  Len(ListedOf(run)) = IF run.jobType = "PENDING_SWEEPER" THEN 0 ELSE run.anomaliesFound
<1>1. CASE run = R!StartedRun(run.id, run.at, run.jobType)
  <2>1. run.details = Unset /\ run.anomaliesFound = 0
    BY <1>1 DEF R!StartedRun
  <2>2. R!asRecord(run.details) = <<>>
    BY <2>1 DEF R!asRecord
  <2> QED
    BY <2>1, <2>2, NothingIsListed
<1>2. CASE /\ run.jobType \in JobType \ {"UNKNOWN"} /\ run.details # Unset
           /\ \E found \in Anomalies, previous \in {Unset} \cup {r.id : r \in Tables.runs[t]} :
                run = R!CompletedRun(run.id, run.at, run.jobType, found, previous)
  <2>1. PICK found, previous : run = R!CompletedRun(run.id, run.at, run.jobType, found, previous)
    BY <1>2
  <2>2. run.anomaliesFound = IF run.jobType = "IDEMPOTENCY_CLEANUP" THEN 0 ELSE Len(found)
    BY <2>1 DEF R!CompletedRun
  <2>3. CASE run.jobType \in {"LEDGER_CONSISTENCY", "ORPHAN_DETECTOR"}
    <3> DEFINE window == R!Window(previous)
               anomalies == [anomalies |-> found]
               record == R!Spread(window, anomalies)
    <3>1. run.details = R!Object(record)
      BY <2>1, <2>3 DEF R!CompletedRun, R!consistencyDetails, R!orphanDetails
    <3>2. DOMAIN anomalies = {"anomalies"} /\ anomalies["anomalies"] = found
      OBVIOUS
    <3>3. "anomalies" \notin DOMAIN window
      BY DEF R!Window
    <3> HIDE DEF window, anomalies
    <3>4. "anomalies" \in DOMAIN record /\ record["anomalies"] = found
      BY <3>2, <3>3 DEF R!Spread
    <3> HIDE DEF record
    <3>5. R!asRecord(run.details) = record
      BY <1>2, <3>1 DEF R!asRecord, R!Object
    <3> QED
      BY <2>2, <2>3, <3>4, <3>5, AnomaliesAreListed
  <2>4. CASE run.jobType = "ACCOUNT_SANITY"
    <3> DEFINE record == [anomalies |-> found]
    <3>1. run.details = R!Object(record)
      BY <2>1, <2>4 DEF R!CompletedRun, R!sanityDetails
    <3>2. "anomalies" \in DOMAIN record /\ record["anomalies"] = found
      OBVIOUS
    <3> HIDE DEF record
    <3>3. R!asRecord(run.details) = record
      BY <1>2, <3>1 DEF R!asRecord, R!Object
    <3> QED
      BY <2>2, <2>4, <3>2, <3>3, AnomaliesAreListed
  <2>5. CASE run.jobType = "PENDING_SWEEPER"
    <3>1. run.details = R!Array(found)
      BY <2>1, <2>5 DEF R!CompletedRun, R!sweeperDetails
    <3>2. R!asRecord(run.details) = <<>>
      BY <3>1 DEF R!asRecord, R!Array
    <3> QED
      BY <2>5, <3>2, NothingIsListed
  <2>6. CASE run.jobType = "IDEMPOTENCY_CLEANUP"
    <3>1. ListedOf(run) = <<>>
      BY <2>6 DEF ListedOf, R!ReconciliationDetails, R!IdempotencyCleanupDetails
    <3> QED
      BY <2>2, <2>6, <3>1
  <2> QED
    BY <1>2, <2>3, <2>4, <2>5, <2>6 DEF JobType
<1> QED
  BY <1>1, <1>2, RunsAreSaved

-----------------------------------------------------------------------------
(* The page of the load tests.                                             *)

RunsQ == [kind |-> "runs", id |-> Unset]
ResultQ(id) == [kind |-> "result", id |-> id]

\* Only the list and results are asked for, the list while it is loading.
AsksOnce(cs, loading) ==
    /\ \A i \in DOMAIN cs : cs[i].q.kind \in {"runs", "result"}
    /\ loading => \E i \in DOMAIN cs : cs[i].q.kind = "runs"

\* The i-th request is the newest for a result, and no newer one of any kind was answered.
Awaited(cs, i) == /\ cs[i].q.kind = "result" /\ ~cs[i].late
                  /\ \A j \in DOMAIN cs : i < j => cs[j].q.kind # "result"
Awaits(cs, ids) == \A i \in DOMAIN cs : Awaited(cs, i) => cs[i].q.id \in ids
NoResult(cs) == \A i \in DOMAIN cs : cs[i].q.kind # "result"

\* The requests in flight after one more was sent, and after one was over.
LEMMA ResultAsked ==
  ASSUME NEW cs, NEW l, AsksOnce(cs, l), NEW id, NEW longer,
         Longer(cs, longer, Fresh(ResultQ(id)))
  PROVE  AsksOnce(longer, l) /\ Awaits(longer, {id}) /\ ~NoResult(longer)
<1> DEFINE n == Len(longer)
<1>1. longer[n].q.kind = "result" /\ longer[n].q.id = id
  BY DEF Longer, Fresh, ResultQ
<1>2. n \in DOMAIN longer /\ \A i \in DOMAIN longer : i = n \/ (i \in DOMAIN cs /\ i < n)
  BY DEF Longer
<1>3. \A i \in DOMAIN cs : i \in DOMAIN longer /\ longer[i] = cs[i]
  BY DEF Longer
<1>4. AsksOnce(longer, l)
  <2>1. \A i \in DOMAIN longer : longer[i].q.kind \in {"runs", "result"}
    BY <1>1, <1>2, <1>3 DEF AsksOnce
  <2> QED
    BY <1>3, <2>1 DEF AsksOnce
<1>5. \A i \in DOMAIN longer : Awaited(longer, i) => i = n
  BY <1>1, <1>2 DEF Awaited
<1> QED
  BY <1>1, <1>2, <1>4, <1>5 DEF Awaits, NoResult

LEMMA RunsAsked ==
  ASSUME NEW cs, NEW l, AsksOnce(cs, l), NEW longer, Longer(cs, longer, Fresh(RunsQ))
  PROVE  /\ AsksOnce(longer, TRUE)
         /\ \A ids : Awaits(cs, ids) => Awaits(longer, ids)
         /\ NoResult(longer) => NoResult(cs)
<1>1. longer[Len(longer)].q.kind = "runs"
  BY DEF Longer, Fresh, RunsQ
<1>2. \A k \in DOMAIN longer : k # Len(longer) => k \in DOMAIN cs
  BY DEF Longer
<1>3. Len(longer) \in DOMAIN longer /\ DOMAIN cs \subseteq DOMAIN longer
  BY DEF Longer
<1>4. \A i \in DOMAIN cs : longer[i] = cs[i]
  BY DEF Longer
<1>5. AsksOnce(longer, TRUE)
  BY <1>1, <1>2, <1>3, <1>4 DEF AsksOnce
<1>6. ASSUME NEW i \in DOMAIN longer, Awaited(longer, i)
      PROVE  i \in DOMAIN cs /\ Awaited(cs, i) /\ longer[i] = cs[i]
  <2>1. i \in DOMAIN cs /\ longer[i] = cs[i]
    BY <1>1, <1>2, <1>4, <1>6 DEF Awaited
  <2> QED
    BY <1>3, <1>4, <1>6, <2>1 DEF Awaited
<1>7. \A ids : Awaits(cs, ids) => Awaits(longer, ids)
  BY <1>6 DEF Awaits
<1>8. NoResult(longer) => NoResult(cs)
  BY <1>3, <1>4 DEF NoResult
<1> QED
  BY <1>5, <1>7, <1>8

LEMMA OneLeft ==
  ASSUME NEW cs, NEW t, Flight(cs, t), NEW l, AsksOnce(cs, l), NEW i \in DOMAIN cs,
         NEW left, left = Left(cs, i)
  PROVE  /\ AsksOnce(left, FALSE)
         /\ \A ids : Awaits(cs, ids) => Awaits(left, ids)
         /\ cs[i].q.kind = "runs" => (NoResult(left) => NoResult(cs))
         /\ cs[i].q.kind = "result" =>
              AsksOnce(left, l) /\ (NoResult(left) /\ ~cs[i].late => Awaited(cs, i))
<1>1. Thinned(cs, left, i)
  BY FlightLeft
<1>2. PICK old \in [DOMAIN left -> DOMAIN cs \ {i}] :
        /\ \A k \in DOMAIN left : /\ SameRequest(left[k], cs[old[k]])
                                 /\ left[k].late = (cs[old[k]].late \/ old[k] < i)
        /\ \A j, k \in DOMAIN left : j < k => old[j] < old[k]
        /\ \A j \in DOMAIN cs \ {i} : \E k \in DOMAIN left : old[k] = j
  BY <1>1 DEF Thinned
<1>3. /\ \E m \in Nat : DOMAIN cs = 1..m
      /\ \E m \in Nat : DOMAIN left = 1..m
  <2>1. Flight(left, t)
    BY FlightLeft
  <2> QED
    BY <2>1 DEF Flight, IsCalls
<1>4. \A k \in DOMAIN left : old[k] \in DOMAIN cs /\ old[k] # i /\ left[k].q = cs[old[k]].q
  BY <1>2 DEF SameRequest
<1>5. \A j \in DOMAIN cs : j # i => \E k \in DOMAIN left : old[k] = j /\ left[k].q = cs[j].q
  BY <1>2, <1>4
<1>6. AsksOnce(left, FALSE) /\ (cs[i].q.kind = "result" => AsksOnce(left, l))
  BY <1>4, <1>5 DEF AsksOnce
<1>7. ASSUME NEW k \in DOMAIN left, Awaited(left, k) PROVE Awaited(cs, old[k])
  <2>1. ~cs[old[k]].late /\ ~(old[k] < i) /\ cs[old[k]].q.kind = "result"
    BY <1>2, <1>4, <1>7 DEF Awaited
  <2>2. ASSUME NEW j \in DOMAIN cs, old[k] < j, cs[j].q.kind = "result" PROVE FALSE
    <3>1. j # i
      BY <2>1, <2>2
    <3>2. PICK m \in DOMAIN left : old[m] = j /\ left[m].q.kind = "result"
      BY <1>5, <2>2, <3>1
    <3>3. ~(k < m) /\ k \in Nat /\ m \in Nat
      BY <1>3, <1>7, <3>2 DEF Awaited
    <3>4. m = k \/ old[m] < old[k]
      BY <1>2, <3>3
    <3>5. old[k] \in Nat /\ j \in Nat
      BY <1>3, <1>4
    <3> QED
      BY <2>2, <3>2, <3>4, <3>5
  <2> QED
    BY <2>1, <2>2 DEF Awaited
<1>8. \A ids : Awaits(cs, ids) => Awaits(left, ids)
  BY <1>4, <1>7 DEF Awaits
<1>9. ASSUME NoResult(left) PROVE \A j \in DOMAIN cs : j # i => cs[j].q.kind # "result"
  BY <1>5, <1>9 DEF NoResult
<1>10. cs[i].q.kind = "result" => (NoResult(left) /\ ~cs[i].late => Awaited(cs, i))
  <2>1. \A j \in DOMAIN cs : i < j => j # i
    BY <1>3
  <2> QED
    BY <1>9, <2>1 DEF Awaited
<1> QED
  BY <1>6, <1>8, <1>9, <1>10 DEF NoResult

-----------------------------------------------------------------------------
(* What the page keeps.                                                    *)

ResultFields == {"runs", "selected", "result", "loading", "loadingResult", "error"}
SimulationsAt(t) == Tables.simulations[t]

\* The result that is awaited is that of the selected run; when none is, the one that is
\* shown is, or an older request has come after it.
ResultOK ==
    \/ ui.selected = Unset
    \/ /\ Awaits(calls, {ui.selected})
       /\ ~overtaken /\ NoResult(calls) => ui.result \in {Unset, ui.selected}

ResultsInv ==
    /\ CallsOK /\ DOMAIN ui = ResultFields /\ ui.error \in BOOLEAN /\ ui.loading \in BOOLEAN
    /\ overtaken \in BOOLEAN
    /\ AsksOnce(calls, ui.loading) /\ \A i \in DOMAIN ui.runs : ui.runs[i].id # Unset
    /\ ResultOK

LEMMA SameResultsPage ==
  ASSUME NEW i, NEW rows
  PROVE  /\ S!Over(i) = Over(i) /\ S!Newest(rows) = Newest(rows)
         /\ S!Without(i) = Left(calls, i)
BY DEF Over, S!Over, Without, S!Without, Left, RemoveAt, S!RemoveAt, Newest, S!Newest, Before,
   S!Before, Later, S!Later, Cardinality, S!Cardinality

LEMMA ResultsBegin ==
  ASSUME Init, route = "results"
  PROVE  ResultsInv
<1>1. ui = S!Mounted /\ calls = <<Fresh(RunsQ)>> /\ now = 0 /\ overtaken = FALSE
  BY DEF Init, S!Sent, S!Ask, Fresh, RunsQ
<1>2. Len(calls) = 1 /\ DOMAIN calls = {1} /\ calls[1] = Fresh(RunsQ)
  BY <1>1
<1>3. CallsOK
  <2>1. Fresh(RunsQ) \in CallRow({RunsQ})
    BY DEF Fresh, CallRow
  <2>2. calls \in Seq(CallRow({RunsQ}))
    BY <1>1, <2>1
  <2>3. now \in 0..MaxTime
    BY <1>1, BoundsOfVisits
  <2>4. calls[1].found = Unset /\ calls[1].counted = Unset /\ calls[1].late = FALSE
    BY <1>2 DEF Fresh
  <2> QED
    BY <1>2, <2>2, <2>3, <2>4 DEF CallsOK, IsCalls, Timely, LateFirst
<1>4. calls[1].q.kind = "runs"
  BY <1>2 DEF Fresh, RunsQ
<1>5. AsksOnce(calls, TRUE)
  BY <1>2, <1>4 DEF AsksOnce
<1>6. /\ DOMAIN ui = ResultFields /\ ui.error = FALSE /\ ui.loading = TRUE
      /\ ui.runs = <<>> /\ ui.selected = Unset
  BY <1>1 DEF S!Mounted, ResultFields
<1>7. \A i \in DOMAIN ui.runs : ui.runs[i].id # Unset
  BY <1>6
<1>8. ResultOK
  BY <1>6 DEF ResultOK
<1> QED
  BY <1>1, <1>3, <1>5, <1>6, <1>7, <1>8 DEF ResultsInv

\* A request for the result of the run that is selected then.
LEMMA ResultIsAsked ==
  ASSUME NEW cs, Flight(cs, now), NEW id, calls' = Append(cs, Fresh(ResultQ(id))),
         now' = now, now \in 0..MaxTime, ui'.selected = id, overtaken' \in BOOLEAN,
         AsksOnce(cs, ui'.loading), \A i \in DOMAIN ui'.runs : ui'.runs[i].id # Unset,
         DOMAIN ui' = ResultFields, ui'.error \in BOOLEAN, ui'.loading \in BOOLEAN
  PROVE  ResultsInv'
<1>1. Flight(calls', now) /\ Longer(cs, calls', Fresh(ResultQ(id)))
  BY FlightAppended
<1>2. AsksOnce(calls', ui'.loading) /\ Awaits(calls', {id}) /\ ~NoResult(calls')
  BY <1>1, ResultAsked
<1>3. ResultOK'
  BY <1>2 DEF ResultOK
<1>4. CallsOK'
  BY <1>1 DEF CallsOK, Flight
<1> QED
  BY <1>2, <1>3, <1>4 DEF ResultsInv

LEMMA ResultsUser ==
  ASSUME ResultsInv, S!User
  PROVE  ResultsInv'
<1>1. AsksOnce(calls, ui.loading) /\ \A i \in DOMAIN ui.runs : ui.runs[i].id # Unset
  BY DEF ResultsInv
<1>2. /\ Flight(calls, now) /\ now \in 0..MaxTime /\ DOMAIN ui = ResultFields
      /\ ui.error \in BOOLEAN /\ ui.loading \in BOOLEAN /\ overtaken \in BOOLEAN
  BY DEF ResultsInv, CallsOK, Flight
<1>3. UNCHANGED <<now, overtaken>>
  BY DEF S!User, S!openResult, S!handleRefresh, S!Acts
<1>4. ASSUME NEW k \in DOMAIN ui.runs, S!openResult(ui.runs[k].id)
      PROVE  ResultsInv'
  <2> DEFINE id == ui.runs[k].id
             row == Fresh(ResultQ(id))
             one == Append(calls, row)
  <2>1. /\ ui' = S!Opened(ui, id)
        /\ calls' = calls \o (IF id = ui.selected THEN <<row>> ELSE <<row, row>>)
    BY <1>4 DEF S!openResult, S!Ask, Fresh, ResultQ
  <2> HIDE DEF id
  <2>2. /\ DOMAIN ui' = ResultFields /\ ui'.error = FALSE /\ ui'.loading = ui.loading
        /\ ui'.selected = id /\ ui'.runs = ui.runs
    BY <1>2, <2>1 DEF S!Opened, ResultFields
  <2>3. calls' = Append(calls, row) \/ calls' = Append(one, row)
    <3> HIDE DEF row
    <3>1. PICK Q : calls \in Seq(Q)
      BY <1>2 DEF Flight, IsCalls
    <3>2. calls \o <<row>> = Append(calls, row) /\ calls \o <<row, row>> = Append(one, row)
      <4>1. calls \in Seq(Q \cup {row})
        <5>1. \A i \in 1..Len(calls) : calls[i] \in Q
          BY <3>1
        <5>2. Len(calls) \in Nat /\ calls = [i \in 1..Len(calls) |-> calls[i]]
          BY <3>1
        <5> QED
          BY <5>1, <5>2
      <4> QED
        BY <4>1
    <3> QED
      BY <2>1, <3>2
  <2>4. Flight(one, now) /\ AsksOnce(one, ui.loading)
    BY <1>1, <1>2, FlightAppended, ResultAsked
  <2> HIDE DEF one
  <2> QED
    BY <1>1, <1>2, <1>3, <2>2, <2>3, <2>4, ResultIsAsked
<1>5. ASSUME S!handleRefresh PROVE ResultsInv'
  <2>1. /\ ~ui.loading /\ ui' = [ui EXCEPT !.loading = TRUE, !.error = FALSE]
        /\ calls' = Append(calls, Fresh(RunsQ))
    BY <1>5 DEF S!handleRefresh, S!Ask, Fresh, RunsQ
  <2>2. /\ DOMAIN ui' = ResultFields /\ ui'.error = FALSE /\ ui'.loading = TRUE
        /\ ui'.selected = ui.selected /\ ui'.runs = ui.runs /\ ui'.result = ui.result
    BY <1>2, <2>1 DEF ResultFields
  <2>3. Flight(calls', now) /\ Longer(calls, calls', Fresh(RunsQ))
    BY <1>2, <2>1, FlightAppended
  <2>5. /\ AsksOnce(calls', TRUE)
        /\ \A ids : Awaits(calls, ids) => Awaits(calls', ids)
        /\ NoResult(calls') => NoResult(calls)
    BY <1>1, <2>3, RunsAsked
  <2>6. ResultOK'
    BY <1>3, <2>2, <2>5 DEF ResultsInv, ResultOK
  <2>7. CallsOK'
    BY <1>2, <1>3, <2>3 DEF CallsOK, Flight
  <2> QED
    BY <1>1, <1>2, <1>3, <2>2, <2>5, <2>6, <2>7 DEF ResultsInv
<1> QED
  BY <1>4, <1>5 DEF S!User

LEMMA LeastNumber ==
  ASSUME NEW X \in SUBSET Nat, X # {}
  PROVE  \E n \in X : \A m \in X : n <= m
<1> DEFINE less == {ss \in Nat \X Nat : ss[1] < ss[2]}
<1>1. IsWellFoundedOn(less, Nat)
  BY NatLessThanWellFounded DEF OpToRel
<1>2. \E n \in X : \A m \in X : <<m, n>> \notin less
  <2> HIDE DEF less
  <2> QED
    BY <1>1, WFMin
<1>3. \A m, n \in X : <<m, n>> \notin less => n <= m
  OBVIOUS
<1> QED
  BY <1>2, <1>3

\* What the list of runs keeps of the selection.
Kept(runs, selected) ==
    IF \E j \in DOMAIN runs : runs[j].id = selected THEN selected ELSE S!NewestCompleted(runs)

\* Either the run that is selected then is listed as completed, or it is the one before,
\* or none is.
LEMMA SelectionStays ==
  ASSUME NEW f \in 0..MaxTime, NEW selected, NEW runs, runs = Newest(SimulationsAt(f))
  PROVE  /\ \A j \in DOMAIN runs : runs[j].id # Unset
         /\ S!Completed(runs, Kept(runs, selected)) \/ Kept(runs, selected) \in {selected, Unset}
<1>1. IsFiniteSet(SimulationsAt(f)) /\ Ordered(SimulationsAt(f))
  BY TableAt DEF TableNames, SimulationsAt
<1>2. /\ DOMAIN runs = 1..Cardinality(SimulationsAt(f))
      /\ \A j \in DOMAIN runs : runs[j] \in SimulationsAt(f)
  BY <1>1, NewestRows
<1>3. \A j \in DOMAIN runs : runs[j].id # Unset
  BY <1>2, SimulationsHaveIds DEF SimulationsAt
<1> DEFINE completed == {j \in DOMAIN runs : runs[j].status = "COMPLETED"}
<1>4. CASE Kept(runs, selected) = selected
  BY <1>3, <1>4
<1>5. CASE completed = {}
  BY <1>3, <1>5 DEF Kept, S!NewestCompleted
<1>6. CASE Kept(runs, selected) # selected /\ completed # {}
  <2>1. completed \subseteq Nat
    BY <1>2
  <2>2. PICK j \in completed : \A k \in completed : j <= k
    BY <1>6, <2>1, LeastNumber
  <2>3. S!Min(completed) \in completed
    <3> HIDE DEF completed
    <3> QED
      BY <2>1, <2>2 DEF S!Min
  <2>4. Kept(runs, selected) = runs[S!Min(completed)].id
    BY <1>6 DEF Kept, S!NewestCompleted
  <2> QED
    BY <1>3, <2>3, <2>4 DEF S!Completed
<1> QED
  BY <1>4, <1>5, <1>6

\* A request is over that leaves the result that is shown, and the selection unless there
\* is none any more.
LEMMA ResultStays ==
  ASSUME ResultsInv, NEW i \in DOMAIN calls, calls[i].q.kind = "runs",
         calls' = Left(calls, i), now' = now, overtaken' = (calls[i].late \/ overtaken),
         ui'.selected \in {ui.selected, Unset}, ui'.result = ui.result,
         \A k \in DOMAIN ui'.runs : ui'.runs[k].id # Unset,
         DOMAIN ui' = ResultFields, ui'.error \in BOOLEAN, ui'.loading = FALSE
  PROVE  ResultsInv'
<1>1. /\ Flight(calls, now) /\ now \in 0..MaxTime /\ overtaken \in BOOLEAN
      /\ AsksOnce(calls, ui.loading) /\ ResultOK
  BY DEF ResultsInv, CallsOK, Flight
<1>2. Flight(calls', now) /\ calls[i].late \in BOOLEAN
  BY <1>1, FlightLeft
<1>3. /\ AsksOnce(calls', FALSE)
      /\ \A ids : Awaits(calls, ids) => Awaits(calls', ids)
      /\ NoResult(calls') => NoResult(calls)
  BY <1>1, OneLeft
<1>4. ResultOK'
  BY <1>1, <1>2, <1>3 DEF ResultOK
<1>5. CallsOK'
  BY <1>1, <1>2 DEF CallsOK, Flight
<1> QED
  BY <1>1, <1>2, <1>3, <1>4, <1>5 DEF ResultsInv

LEMMA ResultsArrive ==
  ASSUME ResultsInv, NEW i \in DOMAIN calls, calls[i].counted # Unset, S!fetchRuns(i)
  PROVE  ResultsInv'
<1>1. /\ Flight(calls, now) /\ now \in 0..MaxTime /\ DOMAIN ui = ResultFields
      /\ ui.error \in BOOLEAN /\ ui.loading \in BOOLEAN /\ overtaken \in BOOLEAN
      /\ AsksOnce(calls, ui.loading)
  BY DEF ResultsInv, CallsOK, Flight
<1> DEFINE f == calls[i].found
           runs == Newest(SimulationsAt(f))
           kept == Kept(runs, ui.selected)
           shown == [ui EXCEPT !.runs = runs, !.selected = kept, !.loading = FALSE]
           left == Left(calls, i)
<1>2. calls[i].q.kind = "runs" /\ now' = now
  BY DEF S!fetchRuns
<1>3. f \in 0..MaxTime
  <2>1. f # Unset /\ f \in 0..now
    BY <1>1 DEF Flight, Timely
  <2> QED
    BY <1>1, <2>1, BoundsOfVisits
<1>4. S!Newest(Tables.simulations[calls[i].found]) = runs /\ S!Without(i) = left
  BY SameResultsPage DEF SimulationsAt
<1>5. /\ ui' = IF S!Completed(runs, kept) THEN S!Opened(shown, kept) ELSE shown
      /\ calls' = IF S!Completed(runs, kept) THEN Append(left, Fresh(ResultQ(kept))) ELSE left
      /\ overtaken' = (calls[i].late \/ (overtaken /\ ~S!Completed(runs, kept)))
  BY <1>4 DEF S!fetchRuns, S!Ask, Fresh, ResultQ, Kept
<1>6. /\ \A j \in DOMAIN runs : runs[j].id # Unset
      /\ S!Completed(runs, kept) \/ kept \in {ui.selected, Unset}
  <2> HIDE DEF f
  <2> QED
    BY <1>3, SelectionStays
<1>7. Flight(left, now) /\ calls[i].late \in BOOLEAN
  BY <1>1, FlightLeft
<1>8. AsksOnce(left, FALSE)
  BY <1>1, OneLeft
<1> HIDE DEF f, runs, kept
<1>9. /\ DOMAIN shown = ResultFields /\ shown.error = ui.error /\ shown.loading = FALSE
      /\ shown.selected = kept /\ shown.runs = runs /\ shown.result = ui.result
  BY <1>1 DEF ResultFields
<1> HIDE DEF shown
<1>10. CASE S!Completed(runs, kept)
  <2>1. /\ DOMAIN ui' = ResultFields /\ ui'.error = FALSE /\ ui'.loading = FALSE
        /\ ui'.selected = kept /\ ui'.runs = runs
    BY <1>5, <1>9, <1>10 DEF S!Opened, ResultFields
  <2>2. calls' = Append(left, Fresh(ResultQ(kept))) /\ overtaken' \in BOOLEAN
    BY <1>5, <1>7, <1>10
  <2> HIDE DEF left
  <2> QED
    BY <1>1, <1>2, <1>6, <1>7, <1>8, <2>1, <2>2, ResultIsAsked
<1>11. CASE ~S!Completed(runs, kept)
  <2>1. ui' = shown /\ calls' = left /\ overtaken' = (calls[i].late \/ overtaken)
    BY <1>1, <1>5, <1>11
  <2> QED
    BY <1>1, <1>2, <1>6, <1>9, <1>11, <2>1, ResultStays
<1> QED
  BY <1>10, <1>11

\* A result arrives, or a request for one fails.
LEMMA ResultIsOver ==
  ASSUME ResultsInv, NEW i \in DOMAIN calls, calls[i].q.kind = "result", Over(i),
         DOMAIN ui' = ResultFields, ui'.error \in BOOLEAN, ui'.loading = ui.loading,
         ui'.runs = ui.runs, ui'.selected = ui.selected, ui'.result \in {Unset, calls[i].q.id}
  PROVE  ResultsInv'
<1>1. /\ CallsOK /\ Flight(calls, now) /\ AsksOnce(calls, ui.loading) /\ ResultOK
      /\ \A k \in DOMAIN ui.runs : ui.runs[k].id # Unset
      /\ ui.loading \in BOOLEAN
  BY DEF ResultsInv, CallsOK, Flight
<1>2. calls' = Left(calls, i) /\ overtaken' = calls[i].late
  BY DEF Over, Without, Left
<1>3. CallsOK' /\ overtaken' \in BOOLEAN
  BY <1>1, CallsOver
<1>4. /\ AsksOnce(calls', ui.loading)
      /\ \A ids : Awaits(calls, ids) => Awaits(calls', ids)
      /\ NoResult(calls') /\ ~calls[i].late => Awaited(calls, i)
  BY <1>1, <1>2, OneLeft
<1>5. ui.selected = Unset \/
        (~overtaken' /\ NoResult(calls') => ui'.result \in {Unset, ui.selected})
  BY <1>1, <1>2, <1>4 DEF ResultOK, Awaits
<1>6. ResultOK'
  BY <1>1, <1>4, <1>5 DEF ResultOK
<1> QED
  BY <1>1, <1>3, <1>4, <1>6 DEF ResultsInv

LEMMA ResultsOver ==
  ASSUME ResultsInv, NEW i \in DOMAIN calls, S!showResult(i) \/ S!Fail(i)
  PROVE  ResultsInv'
<1>1. /\ DOMAIN ui = ResultFields /\ ui.error \in BOOLEAN /\ overtaken \in BOOLEAN
      /\ \A k \in DOMAIN ui.runs : ui.runs[k].id # Unset
      /\ calls[i].late \in BOOLEAN
  <2>1. Flight(calls, now)
    BY DEF ResultsInv, CallsOK, Flight
  <2>2. calls[i].late \in BOOLEAN
    BY <2>1, FlightLeft
  <2> QED
    BY <2>2 DEF ResultsInv
<1>2. CASE S!Fail(i) /\ calls[i].q.kind = "runs"
  <2>1. /\ ui' = [ui EXCEPT !.error = TRUE, !.loading = FALSE] /\ now' = now
        /\ calls' = S!Without(i) /\ overtaken' = (overtaken \/ calls[i].late)
    BY <1>2 DEF S!Fail
  <2>2. calls' = Left(calls, i) /\ overtaken' = (calls[i].late \/ overtaken)
    BY <1>1, <2>1, SameResultsPage
  <2>3. /\ DOMAIN ui' = ResultFields /\ ui'.error = TRUE /\ ui'.loading = FALSE
        /\ ui'.runs = ui.runs /\ ui'.selected = ui.selected /\ ui'.result = ui.result
    BY <1>1, <2>1 DEF ResultFields
  <2> QED
    BY <1>1, <1>2, <2>1, <2>2, <2>3, ResultStays
<1>3. CASE S!Fail(i) /\ calls[i].q.kind = "result"
  <2>1. ui' = [ui EXCEPT !.result = Unset, !.error = TRUE, !.loadingResult = FALSE] /\ Over(i)
    BY <1>3, SameResultsPage DEF S!Fail
  <2>2. /\ DOMAIN ui' = ResultFields /\ ui'.error = TRUE /\ ui'.loading = ui.loading
        /\ ui'.runs = ui.runs /\ ui'.selected = ui.selected /\ ui'.result = Unset
    BY <1>1, <2>1 DEF ResultFields
  <2> QED
    BY <1>3, <2>1, <2>2, ResultIsOver
<1>4. CASE S!showResult(i)
  <2> DEFINE id == calls[i].q.id
             answer == S!getSimulationRun(id, calls[i].found, calls[i].counted)
  <2>1. answer.kind # "ok" \/ answer.result \in {Unset, id}
    <3> DEFINE body == [result |-> IF \E r \in Tables.simulations[calls[i].counted] :
                                        r.id = id /\ r.result THEN id ELSE Unset]
    <3>1. answer = [kind |-> "notFound"] \/ answer = S!Ok(body)
      BY DEF S!getSimulationRun
    <3>2. DOMAIN body = {"result"} /\ body["result"] \in {Unset, id}
      OBVIOUS
    <3> HIDE DEF body, answer, id
    <3>3. S!Ok(body).result = body["result"]
      BY <3>2 DEF S!Ok, S!Spread
    <3> QED
      BY <3>1, <3>2, <3>3
  <2>2. /\ ui' = IF answer.kind = "ok" /\ answer.result # Unset
                 THEN [ui EXCEPT !.result = answer.result, !.loadingResult = FALSE]
                 ELSE [ui EXCEPT !.result = Unset, !.error = TRUE, !.loadingResult = FALSE]
        /\ calls[i].q.kind = "result" /\ Over(i)
    BY <1>4, SameResultsPage DEF S!showResult
  <2> HIDE DEF answer, id
  <2>3. /\ DOMAIN ui' = ResultFields /\ ui'.error \in BOOLEAN /\ ui'.loading = ui.loading
        /\ ui'.runs = ui.runs /\ ui'.selected = ui.selected /\ ui'.result \in {Unset, id}
    BY <1>1, <2>1, <2>2 DEF ResultFields
  <2> QED
    BY <2>2, <2>3, ResultIsOver DEF id
<1> QED
  BY <1>2, <1>3, <1>4 DEF S!Fail

LEMMA ResultsServed ==
  ASSUME ResultsInv, NEW i \in DOMAIN calls, Find(i) \/ Count(i)
  PROVE  ResultsInv'
<1>1. CallsOK /\ AsksOnce(calls, ui.loading) /\ ResultOK
  BY DEF ResultsInv
<1>2. CallsOK' /\ UNCHANGED <<now, ui, overtaken>>
  BY <1>1, CallsServed
<1>3. PICK Q : calls \in Seq(CallRow(Q))
  BY <1>1 DEF CallsOK, IsCalls
<1>4. /\ DOMAIN calls' = DOMAIN calls
      /\ \A k \in DOMAIN calls : calls'[k].q = calls[k].q /\ calls'[k].late = calls[k].late
  <2>1. /\ DOMAIN calls' = DOMAIN calls
        /\ calls' = [calls EXCEPT ![i].found = now] \/ calls' = [calls EXCEPT ![i].counted = now]
    BY <1>3 DEF Find, Count
  <2>2. \A k \in DOMAIN calls : k # i => calls'[k] = calls[k]
    BY <2>1
  <2>3. calls[i] \in CallRow(Q)
    BY <1>3
  <2>4. \/ calls'[i] = [calls[i] EXCEPT !.found = now]
        \/ calls'[i] = [calls[i] EXCEPT !.counted = now]
    BY <2>1
  <2>5. calls'[i].q = calls[i].q /\ calls'[i].late = calls[i].late
    BY <2>3, <2>4 DEF CallRow
  <2> QED
    BY <2>1, <2>2, <2>5
<1>5. AsksOnce(calls', ui.loading)
  BY <1>1, <1>4 DEF AsksOnce
<1>6. ResultOK'
  <2>1. Awaits(calls', {ui.selected}) <=> Awaits(calls, {ui.selected})
    BY <1>4 DEF Awaits, Awaited
  <2>2. NoResult(calls') <=> NoResult(calls)
    BY <1>4 DEF NoResult
  <2> QED
    BY <1>1, <1>2, <2>1, <2>2 DEF ResultOK
<1> QED
  BY <1>1, <1>2, <1>5, <1>6 DEF ResultsInv

\* Nothing happens to the page; time may pass.
LEMMA ResultsWait ==
  ASSUME ResultsInv, UNCHANGED <<ui, calls, overtaken>>, now' \in now..MaxTime
  PROVE  ResultsInv'
<1>1. CallsOK'
  BY CallsLater DEF ResultsInv
<1> QED
  BY <1>1 DEF ResultsInv, ResultOK

LEMMA ResultsGoOn == ResultsInv /\ route = "results" /\ [Next]_vars => ResultsInv'
<1> SUFFICES ASSUME ResultsInv, route = "results", [Next]_vars PROVE ResultsInv'
  OBVIOUS
<1>1. now \in Nat /\ MaxTime \in Nat /\ now <= MaxTime
  BY BoundsOfVisits DEF ResultsInv, CallsOK
<1>2. CASE SimulationResults
  <2>1. ASSUME NEW i \in DOMAIN calls, S!Arrive(i) PROVE ResultsInv'
    BY <2>1, ResultsArrive, ResultsOver DEF S!Arrive, S!Answered
  <2> QED
    BY <1>2, <2>1, ResultsUser, ResultsOver DEF SimulationResults
<1>3. CASE Serve
  BY <1>3, ResultsServed DEF Serve
<1>4. CASE Clock \/ UNCHANGED vars
  <2>1. UNCHANGED <<ui, calls, overtaken>> /\ now' \in now..MaxTime
    BY <1>1, <1>4 DEF Clock, Tick, vars, listVars
  <2> QED
    BY <2>1, ResultsWait
<1> QED
  BY <1>2, <1>3, <1>4 DEF Next, Transactions, Events, IdempotencyKeys, Ledger, Accounts, Runs,
     Movements, UserPages

LEMMA ResultsAtRest ==
  ASSUME ResultsInv, route = "results", AtRest
  PROVE  ResultIsOfSelection
<1>1. calls = <<>> /\ ~overtaken /\ DOMAIN calls = {}
  BY DEF AtRest
<1>2. ui.loading = FALSE
  BY <1>1 DEF AsksOnce, ResultsInv
<1>3. S!Screen.panel = S!Panel
  BY <1>2 DEF S!Screen
<1> SUFFICES ASSUME S!Panel = "result"
             PROVE  \E i \in DOMAIN ui.runs : S!Sidebar[i].selected /\ S!Sidebar[i].id = ui.result
  BY <1>3 DEF ResultIsOfSelection
<1>4. PICK i \in DOMAIN ui.runs : ui.runs[i].id = ui.selected
  BY DEF S!Panel
<1>5. ui.result # Unset
  BY DEF S!Panel
<1>6. ui.selected # Unset
  BY <1>4 DEF ResultsInv
<1>7. ui.result = ui.selected
  <2>1. NoResult(calls)
    BY <1>1 DEF NoResult
  <2> QED
    BY <1>1, <1>5, <1>6, <2>1 DEF ResultsInv, ResultOK
<1> QED
  BY <1>4, <1>7 DEF S!Sidebar

-----------------------------------------------------------------------------
(* What holds on every visit.                                              *)

PageInv ==
    /\ route \in ListRoutes \cup {"results", "user"}
    /\ ListsInv /\ (route = "results" => ResultsInv)

\* On every visit of a page, whatever the user does and in whatever order the answers of the
\* server arrive: the newest request is for what the controls show, or for the selected load
\* test, and once it is over its answer is what is shown, unless it failed, or an older
\* request was answered after it, or a change of status is under way (the load functions of
\* all the pages).
THEOREM PagesKeepTheInvariant == Spec => []PageInv
<1>1. Init => PageInv
  BY ListsBegin, ResultsBegin DEF PageInv, Init, ListRoutes, FilterNames
<1>2. PageInv /\ [Next]_vars => PageInv'
  <2>1. [Next]_vars => UNCHANGED route
    BY DEF Next, vars, Transactions, Events, IdempotencyKeys, Ledger, Accounts, Runs,
       SimulationResults, Movements, UserPages, Serve, Clock, Rest, Stay
  <2> QED
    BY <2>1, ListsGoOn, ResultsGoOn DEF PageInv
<1> QED
  BY <1>1, <1>2, PTL DEF Spec

\* A page at rest lists what the server answers to the filters and the page number that its
\* controls display, so that each row is as the badges say, and the result that is shown is
\* that of the selected load test: for any tables, any filters and any number of requests
\* in flight.
THEOREM SettledPagesShow == Spec => []SettledPageShowsItsFilters
<1>1. PageInv => SettledPageShowsItsFilters
  <2> SUFFICES ASSUME PageInv, AtRest, patch = Unset PROVE SettledPageShowsItsFilters
    BY DEF SettledPageShowsItsFilters
  <2>1. CASE route = "results"
    BY <2>1, ResultsAtRest DEF PageInv, SettledPageShowsItsFilters
  <2>2. CASE route \in ListRoutes
    BY <2>2, ListAtRest DEF PageInv
  <2>3. route = "results" \/ route \in ListRoutes
    BY DEF AtRest, PageInv
  <2> QED
    BY <2>1, <2>2, <2>3
<1> QED
  BY <1>1, PagesKeepTheInvariant, PTL

\* Once the server has acknowledged a change of status, a page of accounts at rest shows no
\* status from before it, though a request of before the change may be answered after it
\* (confirmStatusChange reloads the list when the change is acknowledged).
THEOREM StatusIsFresh == Spec => []ShownStatusIsFresh
<1>1. PageInv => ShownStatusIsFresh
  <2> SUFFICES ASSUME PageInv, route = "accounts", AtRest, acked # Unset
               PROVE  \E t \in acked..now : \A i \in DOMAIN A!AccountRows :
                        A!AccountRows[i].status = statuses[t + 1][A!AccountRows[i].id]
    BY DEF ShownStatusIsFresh
  <2>1. ~Outstanding /\ ~overtaken
    BY DEF AtRest, Outstanding
  <2>2. PICK t \in acked..now : RowsAre(t)
    BY <2>1 DEF PageInv, ListsInv, AccountsInv, FreshOK
  <2>3. DOMAIN A!AccountRows = DOMAIN ui.rows
    BY DEF A!AccountRows
  <2>4. \A i \in DOMAIN ui.rows : /\ A!AccountRows[i].status = ui.rows[i].status
                                  /\ A!AccountRows[i].id = ui.rows[i].id
    BY DEF A!AccountRows
  <2> QED
    BY <2>2, <2>3, <2>4 DEF RowsAre
<1> QED
  BY <1>1, PagesKeepTheInvariant, PTL

\* The open details of a run list as many anomalies as its row announces, whatever the jobs
\* have found; those of a sweep list none.
THEOREM DetailsTell == Spec => []DetailsTellTheAnomalies
<1>1. PageInv => DetailsTellTheAnomalies
  <2> SUFFICES ASSUME PageInv, route = "runs", NEW i \in DOMAIN R!ReconciliationRows,
                      R!ReconciliationRows[i].details # Unset
               PROVE  Len(R!ReconciliationRows[i].details.report.listed) =
                        IF R!ReconciliationRows[i].row.jobType = "PENDING_SWEEPER" THEN 0
                        ELSE R!ReconciliationRows[i].row.anomalies
    BY DEF DetailsTellTheAnomalies
  <2>1. i \in DOMAIN ui.rows
    BY DEF R!ReconciliationRows
  <2>2. /\ R!ReconciliationRows[i].details.report = R!ReconciliationDetails(ui.rows[i])
        /\ R!ReconciliationRows[i].row.jobType = ui.rows[i].jobType
        /\ R!ReconciliationRows[i].row.anomalies = ui.rows[i].anomaliesFound
    BY <2>1 DEF R!ReconciliationRows, R!MainRow
  <2>3. PICK t \in 0..MaxTime : ui.rows[i] \in Tables.runs[t]
    BY <2>1 DEF PageInv, ListsInv, RunsInv
  <2> QED
    BY <2>2, <2>3, SavedRunsTell DEF ListedOf
<1> QED
  BY <1>1, PagesKeepTheInvariant, PTL

-----------------------------------------------------------------------------
(* The pages of the administrators leave the people alone.                 *)

LEMMA OnlyUsers == [Next]_vars => [UserNext]_userVars
<1> SUFFICES ASSUME [Next]_vars PROVE [UserNext]_userVars
  OBVIOUS
<1>1. Rest \/ Stay => UNCHANGED userVars
  BY DEF Rest, Stay
<1>2. CASE Transactions \/ Events \/ IdempotencyKeys \/ Ledger \/ Accounts \/ Runs
           \/ SimulationResults \/ Movements \/ Serve \/ Clock
  BY <1>1, <1>2 DEF Transactions, Events, IdempotencyKeys, Ledger, Accounts, Runs,
     SimulationResults, Movements, Serve, Clock
<1>3. CASE UserPages
  BY <1>3 DEF UserPages
<1>4. CASE UNCHANGED vars
  BY <1>4 DEF vars
<1> QED
  BY <1>2, <1>3, <1>4 DEF Next

LEMMA UsersAtFirst == Init => UserInit
BY DEF Init

-----------------------------------------------------------------------------
(* Types.                                                                  *)

USE UnsetIsNobody

Stage == {"idle", "sent", "hashed", "free", "refused", "registered", "done"}
RequestRow == [at : Stage, account : Wallets \cup {Unset}]
Page == {"signup", "login", "wallet", "result", "ledger"}
BrowserRow == [at : Page, error : BOOLEAN, session : Wallets \cup {Unset}, key : Nat]
PaymentRow == [key : Nat, heard : BOOLEAN, at : {"sent", "paid", "refused"}]

AccountTypes ==
    /\ wallets \subseteq Wallets /\ users \subseteq People /\ raced \subseteq Wallets \cup {Unset}
    /\ owner \in [Wallets -> People \cup {Unset}]
    /\ request \in [People -> RequestRow]

PayTypes ==
    /\ browser \in [People -> BrowserRow]
    /\ payment \in [People -> SUBSET PaymentRow]
    /\ keys \in [People -> SUBSET Nat] /\ tried \in [People -> Nat]
    /\ successes \in [People -> Seq(Nat)] /\ lost \in [People -> SUBSET Nat]

\* What a step does to the registration of p.
LEMMA ToEffect ==
  ASSUME AccountTypes, NEW p \in People, NEW stage \in Stage, To(p, stage)
  PROVE  /\ request' \in [People -> RequestRow]
         /\ request'[p].at = stage /\ request'[p].account = request[p].account
         /\ \A q \in People : q # p => request'[q] = request[q]
<1>1. request \in [People -> RequestRow] /\ request[p] \in RequestRow
  BY DEF AccountTypes
<1>2. request'[p] = [request[p] EXCEPT !.at = stage] /\ request'[p] \in RequestRow
  BY <1>1 DEF To, RequestRow
<1>3. request' \in [People -> RequestRow] /\ \A q \in People : q # p => request'[q] = request[q]
  BY <1>1, <1>2 DEF To
<1> QED
  BY <1>1, <1>2, <1>3 DEF RequestRow

\* What a registration does, before its answer: it goes on to a stage, and may link
\* the account.
Progress(p, stage) ==
    /\ To(p, stage)
    /\ UNCHANGED <<wallets, users, owner, raced, browser, payVars>>

LEMMA AnswerEffect ==
  ASSUME AccountTypes, NEW p \in People, Registered(p) \/ RegistrationLost(p)
  PROVE  /\ request' \in [People -> RequestRow]
         /\ request'[p].account = request[p].account
         /\ request[p].at = "registered" => request'[p].at = "done"
         /\ request[p].at = "refused" => request'[p].at = "idle"
         /\ request[p].at \in {"registered", "refused"}
         /\ \A q \in People : q # p => request'[q] = request[q]
         /\ UNCHANGED <<wallets, users, owner, raced, payVars>>
<1>1. request \in [People -> RequestRow] /\ request[p] \in RequestRow
  BY DEF AccountTypes
<1>2. request[p].at \in {"registered", "refused"} /\ UNCHANGED <<wallets, users, owner, raced, payVars>>
  BY DEF Registered, RegistrationLost
<1>3. CASE Registered(p)
  <2>1. request'[p] = [at |-> IF request[p].at = "registered" THEN "done" ELSE "idle",
                       account |-> request[p].account]
    BY <1>1, <1>3 DEF Registered
  <2>2. request'[p] \in RequestRow
    BY <1>1, <2>1 DEF RequestRow, Stage
  <2>3. request' \in [People -> RequestRow] /\ \A q \in People : q # p => request'[q] = request[q]
    BY <1>1, <1>3, <2>2 DEF Registered
  <2> QED
    BY <1>2, <2>1, <2>3
<1>4. CASE RegistrationLost(p)
  <2>1. request' = [request EXCEPT ![p].at = IF @ = "registered" THEN "done" ELSE "idle"]
    BY <1>4 DEF RegistrationLost
  <2>2. request'[p] = [request[p] EXCEPT !.at = IF request[p].at = "registered" THEN "done" ELSE "idle"]
    BY <1>1, <2>1
  <2>3. /\ request'[p] \in RequestRow /\ request'[p].account = request[p].account
        /\ request'[p].at = IF request[p].at = "registered" THEN "done" ELSE "idle"
    BY <1>1, <2>2 DEF RequestRow, Stage
  <2>4. request' \in [People -> RequestRow] /\ \A q \in People : q # p => request'[q] = request[q]
    BY <1>1, <2>1, <2>3
  <2> QED
    BY <1>2, <2>3, <2>4
<1> QED
  BY <1>3, <1>4

-----------------------------------------------------------------------------
(* Registrations and accounts.                                             *)

\* Who is registered has been answered so, or will be; the account of a registration
\* that found it free is still so, or two have found it free.
Registrations ==
    /\ \A p \in People : p \in users <=> request[p].at \in {"registered", "done"}
    /\ \A p \in People : request[p].at = "free" \/ p \in users => request[p].account \in Wallets
    /\ \A p \in People : request[p].at = "free" =>
         owner[request[p].account] = Unset \/ request[p].account \in raced

AccountInv == AccountTypes /\ Registrations /\ RegisteredKeepsAccount

LEMMA AccountInit == UserInit => AccountInv
BY DEF UserInit, AccountInv, AccountTypes, Registrations, RegisteredKeepsAccount, RequestRow,
   Stage, Idle

LEMMA ProgressKeeps ==
  ASSUME AccountInv, NEW p \in People, NEW stage \in Stage, Progress(p, stage), p \notin users,
         stage \notin {"registered", "done"},
         stage = "free" => request[p].account \in Wallets /\ owner[request[p].account] = Unset
  PROVE  AccountInv'
<1>1. /\ request' \in [People -> RequestRow]
      /\ request'[p].at = stage /\ request'[p].account = request[p].account
      /\ \A q \in People : q # p => request'[q] = request[q]
  BY ToEffect DEF AccountInv, Progress
<1>2. UNCHANGED <<wallets, users, owner, raced>>
  BY DEF Progress
<1>3. AccountTypes'
  BY <1>1, <1>2 DEF AccountInv, AccountTypes
<1>4. Registrations'
  BY <1>1, <1>2 DEF AccountInv, Registrations
<1>5. RegisteredKeepsAccount'
  BY <1>1, <1>2 DEF AccountInv, AccountTypes, RegisteredKeepsAccount
<1> QED
  BY <1>3, <1>4, <1>5 DEF AccountInv

LEMMA LinkKeeps ==
  ASSUME AccountInv, NEW p \in People, linkAccount(p)
  PROVE  AccountInv'
<1>1. /\ request[p].at = "free" /\ p \notin users /\ request[p].account \in Wallets
      /\ request \in [People -> RequestRow] /\ owner \in [Wallets -> People \cup {Unset}]
  BY DEF linkAccount, AccountInv, AccountTypes, Registrations
<1> DEFINE a == request[p].account
<1>2. /\ To(p, "registered")
      /\ users' = users \cup {p} /\ wallets' = wallets
      /\ owner' = [owner EXCEPT ![a] = p]
      /\ raced' = raced \cup {b \in {a} :
                      \E q \in People \ {p} : request[q] = [at |-> "free", account |-> b]}
  BY <1>1 DEF linkAccount
<1>3. /\ request' \in [People -> RequestRow]
      /\ request'[p].at = "registered" /\ request'[p].account = a
      /\ \A q \in People : q # p => request'[q] = request[q]
  BY <1>2, ToEffect DEF AccountInv, Stage
<1>4. owner' \in [Wallets -> People \cup {Unset}] /\ owner'[a] = p
      /\ \A b \in Wallets : b # a => owner'[b] = owner[b]
  BY <1>1, <1>2
<1>5. raced \subseteq raced' /\ raced' \subseteq raced \cup {a}
  BY <1>2
<1>6. ASSUME NEW q \in People, q # p, request[q].at = "free", request[q].account = a
      PROVE  a \in raced'
  <2>1. request[q] \in RequestRow
    BY <1>1
  <2>2. request[q] = [at |-> "free", account |-> a]
    BY <1>6, <2>1 DEF RequestRow
  <2> QED
    BY <1>2, <1>6, <2>2
<1> HIDE DEF a
<1>7. AccountTypes'
  BY <1>1, <1>2, <1>3, <1>4, <1>5 DEF AccountInv, AccountTypes, a
<1>8. Registrations'
  <2>1. ASSUME NEW q \in People PROVE q \in users' <=> request'[q].at \in {"registered", "done"}
    BY <1>2, <1>3 DEF AccountInv, Registrations
  <2>2. ASSUME NEW q \in People, request'[q].at = "free" \/ q \in users'
        PROVE  request'[q].account \in Wallets
    BY <1>1, <1>2, <1>3, <2>2 DEF AccountInv, Registrations, a
  <2>3. ASSUME NEW q \in People, request'[q].at = "free"
        PROVE  owner'[request'[q].account] = Unset \/ request'[q].account \in raced'
    <3>1. /\ q # p /\ request'[q] = request[q] /\ request[q].account \in Wallets
          /\ owner[request[q].account] = Unset \/ request[q].account \in raced
      BY <1>3, <2>3 DEF AccountInv, Registrations
    <3>2. CASE request[q].account = a
      BY <1>6, <2>3, <3>1, <3>2
    <3>3. CASE request[q].account # a
      BY <1>4, <1>5, <3>1, <3>3
    <3> QED
      BY <3>2, <3>3
  <2> QED
    BY <2>1, <2>2, <2>3 DEF Registrations
<1>9. RegisteredKeepsAccount'
  <2> SUFFICES ASSUME NEW q \in users', request'[q].account \notin raced'
               PROVE  owner'[request'[q].account] = q
    BY DEF RegisteredKeepsAccount
  <2>1. CASE q = p
    BY <1>3, <1>4, <2>1
  <2>2. CASE q # p
    <3>1. /\ q \in users /\ q \in People /\ request'[q] = request[q]
          /\ request[q].account \in Wallets
      BY <1>2, <1>3, <2>2 DEF AccountInv, AccountTypes, Registrations
    <3>2. owner[request[q].account] = q
      BY <1>5, <3>1 DEF AccountInv, RegisteredKeepsAccount
    <3>3. request[q].account # a
      <4>1. owner[a] = Unset \/ a \in raced
        BY <1>1 DEF AccountInv, Registrations, a
      <4> QED
        BY <1>5, <3>1, <3>2, <4>1
    <3> QED
      BY <1>4, <3>1, <3>2, <3>3
  <2> QED
    BY <2>1, <2>2
<1> QED
  BY <1>7, <1>8, <1>9 DEF AccountInv

LEMMA AccountStep == AccountInv /\ [UserNext]_userVars => AccountInv'
<1> SUFFICES ASSUME AccountInv, [UserNext]_userVars PROVE AccountInv'
  OBVIOUS
<1>1. ASSUME UNCHANGED <<users, owner, request, raced>>, wallets' \subseteq Wallets PROVE AccountInv'
  BY <1>1 DEF AccountInv, AccountTypes, Registrations, RegisteredKeepsAccount
<1>2. wallets \subseteq Wallets /\ users \subseteq People /\ request \in [People -> RequestRow]
  BY DEF AccountInv, AccountTypes
<1>3. ASSUME NEW a \in Wallets, createAccount(a) PROVE AccountInv'
  BY <1>1, <1>2, <1>3 DEF createAccount
<1>4. ASSUME NEW p \in People, NEW a \in Wallets \cup {Unset}, Signup(p, a) PROVE AccountInv'
  <2>1. /\ request[p].at = "idle" /\ request' = [request EXCEPT ![p] = [at |-> "sent", account |-> a]]
        /\ UNCHANGED <<wallets, users, owner, raced>>
    BY <1>4 DEF Signup
  <2>2. [at |-> "sent", account |-> a] \in RequestRow
    BY DEF RequestRow, Stage
  <2>3. /\ request' \in [People -> RequestRow] /\ request'[p].at = "sent"
        /\ \A q \in People : q # p => request'[q] = request[q]
    BY <1>2, <2>1, <2>2
  <2>4. p \notin users
    BY <2>1 DEF AccountInv, Registrations
  <2>5. AccountTypes'
    BY <2>1, <2>3 DEF AccountInv, AccountTypes
  <2>6. Registrations'
    BY <2>1, <2>3, <2>4 DEF AccountInv, Registrations
  <2>7. RegisteredKeepsAccount'
    BY <1>2, <2>1, <2>3, <2>4 DEF AccountInv, RegisteredKeepsAccount
  <2> QED
    BY <2>5, <2>6, <2>7 DEF AccountInv
<1>5. ASSUME NEW p \in People, registerUser(p) \/ checkAccount(p) PROVE AccountInv'
  <2>1. request[p].at \in {"sent", "hashed"} /\ p \notin users
    BY <1>5 DEF registerUser, checkAccount, AccountInv, Registrations
  <2>2. CASE registerUser(p)
    <3>1. PICK stage \in {"hashed", "refused"} : Progress(p, stage)
      BY <2>2 DEF registerUser, Progress
    <3> QED
      BY <2>1, <3>1, ProgressKeeps DEF Stage
  <2>3. CASE checkAccount(p)
    <3>1. CASE request[p].account \in wallets /\ owner[request[p].account] = Unset
      <4>1. Progress(p, "free")
        BY <2>3, <3>1 DEF checkAccount, Progress
      <4> QED
        BY <1>2, <2>1, <3>1, <4>1, ProgressKeeps DEF Stage
    <3>2. CASE ~(request[p].account \in wallets /\ owner[request[p].account] = Unset)
      <4>1. Progress(p, "refused")
        BY <2>3, <3>2 DEF checkAccount, Progress
      <4> QED
        BY <2>1, <4>1, ProgressKeeps DEF Stage
    <3> QED
      BY <3>1, <3>2
  <2> QED
    BY <1>5, <2>2, <2>3
<1>6. ASSUME NEW p \in People, Registered(p) \/ RegistrationLost(p) PROVE AccountInv'
  <2>1. /\ request' \in [People -> RequestRow]
        /\ request'[p].account = request[p].account
        /\ request[p].at = "registered" => request'[p].at = "done"
        /\ request[p].at = "refused" => request'[p].at = "idle"
        /\ request[p].at \in {"registered", "refused"}
        /\ \A q \in People : q # p => request'[q] = request[q]
        /\ UNCHANGED <<wallets, users, owner, raced, payVars>>
    BY <1>6, AnswerEffect DEF AccountInv
  <2>2. AccountTypes'
    BY <2>1 DEF AccountInv, AccountTypes
  <2>3. Registrations'
    BY <2>1 DEF AccountInv, Registrations
  <2>4. RegisteredKeepsAccount'
    BY <1>2, <2>1 DEF AccountInv, RegisteredKeepsAccount
  <2> QED
    BY <2>2, <2>3, <2>4 DEF AccountInv
<1>7. ASSUME NEW p \in People,
             \/ loginUser(p) \/ logout(p) \/ SignIn(p) \/ SignUp(p) \/ handlePayment(p)
             \/ \E c \in payment[p] : Pays(p, c) \/ PaymentAnswered(p, c) \/ PaymentLost(p, c)
             \/ Reload(p) \/ NewTransaction(p) \/ ViewTransactions(p)
             \/ \E page \in Page : Back(p, page)
      PROVE  AccountInv'
  <2>1. UNCHANGED accountVars
    BY <1>7 DEF loginUser, logout, SignIn, SignUp, handlePayment, Pays, PaymentAnswered,
       PaymentLost, Reload, Unheard, NewTransaction, ViewTransactions, Back
  <2> QED
    BY <1>1, <1>2, <2>1 DEF accountVars
<1>8. CASE UNCHANGED userVars
  BY <1>1, <1>2, <1>8 DEF userVars, accountVars
<1>9. {"login", "wallet", "ledger"} \subseteq Page
  BY DEF Page
<1> QED
  BY <1>3, <1>4, <1>5, <1>6, <1>7, <1>8, <1>9, LinkKeeps DEF UserNext

-----------------------------------------------------------------------------
(* Payments and what their answers say.                                    *)

\* The page, calls and keys of a person, how many payments were sent, and what was heard of
\* them: of the calls, each has a key of its own, which has paid or not as the call says, and
\* those that nobody hears are counted as lost.
CallsKnown(cs, paid, sent, gone) ==
    /\ \A c \in cs : /\ c.key \in 1..sent
                     /\ c.at = "sent" => c.key \notin paid
                     /\ c.at = "paid" => c.key \in paid
                     /\ ~c.heard => c.at = "sent" /\ c.key \in gone
    /\ \A c, d \in cs : c.key = d.key => c = d
\* The mounted wallet has a new key, or awaits the answer to its own.
KeyIsNew(row, cs, sent) ==
    row.at = "wallet" => row.key = sent + 1 \/ \E c \in cs : c.heard /\ c.key = row.key
\* What has paid was shown once, or lost, or is awaited.
Told(cs, paid, sent, won, gone) ==
    /\ paid \subseteq 1..sent /\ IsInjective(won) /\ Range(won) \subseteq paid
    /\ \A c \in cs : c.at = "paid" => c.key \notin Range(won)
    /\ \A k \in paid : \/ k \in Range(won) \/ k \in gone
                       \/ \E c \in cs : c.heard /\ c.at = "paid" /\ c.key = k
Sound(row, cs, paid, sent, won, gone) ==
    /\ CallsKnown(cs, paid, sent, gone) /\ KeyIsNew(row, cs, sent)
    /\ Told(cs, paid, sent, won, gone)

PayInv ==
    /\ PayTypes
    /\ \A p \in People :
         Sound(browser[p], payment[p], keys[p], tried[p], successes[p], lost[p])

\* A person does something, and the others are left alone.
LEMMA OnePays ==
  ASSUME PayInv, NEW p \in People, NEW row \in BrowserRow, NEW cs \in SUBSET PaymentRow,
         NEW paid \in SUBSET Nat, NEW sent \in Nat, NEW won \in Seq(Nat), NEW gone \in SUBSET Nat,
         browser' = [browser EXCEPT ![p] = row], payment' = [payment EXCEPT ![p] = cs],
         keys' = [keys EXCEPT ![p] = paid], tried' = [tried EXCEPT ![p] = sent],
         successes' = [successes EXCEPT ![p] = won], lost' = [lost EXCEPT ![p] = gone],
         Sound(row, cs, paid, sent, won, gone)
  PROVE  PayInv'
<1>1. PayTypes'
  BY DEF PayInv, PayTypes
<1>2. /\ browser'[p] = row /\ payment'[p] = cs /\ keys'[p] = paid /\ tried'[p] = sent
      /\ successes'[p] = won /\ lost'[p] = gone
  BY DEF PayInv, PayTypes
<1>3. \A q \in People \ {p} :
        /\ browser'[q] = browser[q] /\ payment'[q] = payment[q] /\ keys'[q] = keys[q]
        /\ tried'[q] = tried[q] /\ successes'[q] = successes[q] /\ lost'[q] = lost[q]
  BY DEF PayInv, PayTypes
<1>4. ASSUME NEW q \in People
      PROVE  Sound(browser'[q], payment'[q], keys'[q], tried'[q], successes'[q], lost'[q])
  <2>1. CASE q = p
    BY <1>2, <2>1
  <2>2. CASE q # p
    BY <1>3, <2>2 DEF PayInv
  <2> QED
    BY <2>1, <2>2
<1> QED
  BY <1>1, <1>4 DEF PayInv

\* What is left alone is written over by itself.
LEMMA Itself ==
  ASSUME PayInv, NEW p \in People
  PROVE  /\ browser = [browser EXCEPT ![p] = browser[p]] /\ browser[p] \in BrowserRow
         /\ payment = [payment EXCEPT ![p] = payment[p]] /\ payment[p] \in SUBSET PaymentRow
         /\ keys = [keys EXCEPT ![p] = keys[p]] /\ keys[p] \in SUBSET Nat
         /\ tried = [tried EXCEPT ![p] = tried[p]] /\ tried[p] \in Nat
         /\ successes = [successes EXCEPT ![p] = successes[p]] /\ successes[p] \in Seq(Nat)
         /\ lost = [lost EXCEPT ![p] = lost[p]] /\ lost[p] \in SUBSET Nat
BY DEF PayInv, PayTypes

LEMMA KeyIsANumber ==
  ASSUME PayInv, NEW p \in People
  PROVE  createIdempotencyKey(p) \in Nat
BY Itself DEF createIdempotencyKey

\* Payments are left alone; the page that is shown is not the wallet, or is as before, or
\* it has a new key.
LEMMA PageKeeps ==
  ASSUME PayInv, NEW p \in People, UNCHANGED payVars,
         NEW row \in BrowserRow, browser' = [browser EXCEPT ![p] = row],
         \/ row.at # "wallet" \/ row.key = createIdempotencyKey(p)
         \/ row.at = browser[p].at /\ row.key = browser[p].key
  PROVE  PayInv'
<1>1. Sound(browser[p], payment[p], keys[p], tried[p], successes[p], lost[p])
  BY DEF PayInv
<1>2. Sound(row, payment[p], keys[p], tried[p], successes[p], lost[p])
  BY <1>1 DEF Sound, KeyIsNew, createIdempotencyKey
<1>3. /\ payment' = [payment EXCEPT ![p] = payment[p]] /\ keys' = [keys EXCEPT ![p] = keys[p]]
      /\ tried' = [tried EXCEPT ![p] = tried[p]]
      /\ successes' = [successes EXCEPT ![p] = successes[p]] /\ lost' = [lost EXCEPT ![p] = lost[p]]
  BY Itself DEF payVars
<1> QED
  BY <1>2, <1>3, Itself, OnePays

\* Only the message changes.
LEMMA MessageKeeps ==
  ASSUME PayInv, NEW p \in People, UNCHANGED payVars, NEW error \in BOOLEAN,
         browser' = [browser EXCEPT ![p].error = error]
  PROVE  PayInv'
<1> DEFINE row == [browser[p] EXCEPT !.error = error]
<1>1. /\ row \in BrowserRow /\ row.at = browser[p].at /\ row.key = browser[p].key
      /\ browser' = [browser EXCEPT ![p] = row]
  <2>1. browser[p] \in BrowserRow
    BY DEF PayInv, PayTypes
  <2> QED
    BY <2>1 DEF BrowserRow
<1> HIDE DEF row
<1> QED
  BY <1>1, PageKeeps

\* Another page is shown, with the session or without.
LEMMA MoveKeeps ==
  ASSUME PayInv, NEW p \in People, UNCHANGED payVars, NEW page \in Page,
         \/ Navigate(p, page) /\ page # "wallet"
         \/ OpensWallet(p)
         \/ browser' = [browser EXCEPT ![p].session = Unset, ![p].at = "login", ![p].error = FALSE]
         \/ \E a \in Wallets \cup {Unset} :
              browser' = [browser EXCEPT ![p].session = a, ![p].at = "wallet",
                                         ![p].key = createIdempotencyKey(p), ![p].error = FALSE]
  PROVE  PayInv'
<1> DEFINE key == createIdempotencyKey(p)
<1>1. browser[p] \in BrowserRow /\ tried[p] \in Nat
  BY Itself
<1>2. key \in Nat
  BY KeyIsANumber
<1> HIDE DEF key
<1>3. CASE Navigate(p, page) /\ page # "wallet"
  <2> DEFINE row == [browser[p] EXCEPT !.at = page, !.error = FALSE]
  <2>1. row \in BrowserRow /\ row.at = page
    BY <1>1 DEF BrowserRow
  <2>2. browser' = [browser EXCEPT ![p] = row]
    BY <1>3 DEF Navigate
  <2> HIDE DEF row
  <2> QED
    BY <1>3, <2>1, <2>2, PageKeeps
<1>4. CASE OpensWallet(p)
  <2> DEFINE row == [browser[p] EXCEPT !.at = "wallet", !.key = key, !.error = FALSE]
  <2>1. row \in BrowserRow /\ row.key = key
    BY <1>1, <1>2 DEF BrowserRow, Page
  <2>2. browser' = [browser EXCEPT ![p] = row]
    BY <1>4 DEF OpensWallet, key
  <2> HIDE DEF row
  <2> QED
    BY <2>1, <2>2, PageKeeps DEF key
<1>5. CASE browser' = [browser EXCEPT ![p].session = Unset, ![p].at = "login", ![p].error = FALSE]
  <2> DEFINE row == [browser[p] EXCEPT !.session = Unset, !.at = "login", !.error = FALSE]
  <2>1. row \in BrowserRow /\ row.at = "login"
    BY <1>1 DEF BrowserRow, Page
  <2>2. browser' = [browser EXCEPT ![p] = row]
    BY <1>5
  <2> HIDE DEF row
  <2> QED
    BY <2>1, <2>2, PageKeeps
<1>6. ASSUME NEW a \in Wallets \cup {Unset},
             browser' = [browser EXCEPT ![p].session = a, ![p].at = "wallet",
                                        ![p].key = createIdempotencyKey(p), ![p].error = FALSE]
      PROVE  PayInv'
  <2> DEFINE row == [browser[p] EXCEPT !.session = a, !.at = "wallet", !.key = key,
                                       !.error = FALSE]
  <2>1. row \in BrowserRow /\ row.key = key
    BY <1>1, <1>2 DEF BrowserRow, Page
  <2>2. browser' = [browser EXCEPT ![p] = row]
    BY <1>6 DEF key
  <2> HIDE DEF row
  <2> QED
    BY <2>1, <2>2, PageKeeps DEF key
<1> QED
  BY <1>3, <1>4, <1>5, <1>6

\* Signup and login, the menu and the links.
LEMMA SessionKeeps ==
  ASSUME PayInv, AccountInv, NEW p \in People,
         \/ \E a \in Wallets \cup {Unset} : Signup(p, a)
         \/ registerUser(p) \/ checkAccount(p) \/ linkAccount(p) \/ Registered(p)
         \/ RegistrationLost(p) \/ loginUser(p) \/ logout(p) \/ SignIn(p) \/ SignUp(p)
         \/ NewTransaction(p) \/ ViewTransactions(p) \/ \E page \in Page : Back(p, page)
  PROVE  PayInv'
<1>1. UNCHANGED payVars
  BY DEF Signup, registerUser, checkAccount, linkAccount, Registered, RegistrationLost,
     loginUser, logout, SignIn, SignUp, NewTransaction, ViewTransactions, Back
<1>2. ASSUME UNCHANGED browser PROVE PayInv'
  BY <1>1, <1>2 DEF PayInv, PayTypes, payVars
<1>3. request[p].account \in Wallets \cup {Unset}
  BY DEF AccountInv, AccountTypes, RequestRow
<1>4. CASE \/ \E a \in Wallets \cup {Unset} : Signup(p, a)
           \/ RegistrationLost(p)
  BY <1>1, <1>4, MessageKeeps DEF Signup, RegistrationLost
<1>5. CASE registerUser(p) \/ checkAccount(p) \/ linkAccount(p)
  BY <1>2, <1>5 DEF registerUser, checkAccount, linkAccount
<1>6. CASE Registered(p)
  <2>1. \/ browser' = [browser EXCEPT ![p].error = TRUE]
        \/ browser' = [browser EXCEPT ![p].session = request[p].account, ![p].at = "wallet",
                                      ![p].key = createIdempotencyKey(p), ![p].error = FALSE]
    BY <1>6 DEF Registered
  <2> QED
    BY <1>1, <1>3, <2>1, MessageKeeps, MoveKeeps DEF Page
<1>7. CASE loginUser(p)
  <2>1. \/ browser' = [browser EXCEPT ![p].error = TRUE]
        \/ \E a \in Wallets \cup {Unset} :
             browser' = [browser EXCEPT ![p].session = a, ![p].at = "wallet",
                                        ![p].key = createIdempotencyKey(p), ![p].error = FALSE]
    BY <1>7 DEF loginUser, AccountsOf
  <2> QED
    BY <1>1, <2>1, MessageKeeps, MoveKeeps DEF Page
<1>8. CASE \/ logout(p) \/ SignIn(p) \/ SignUp(p) \/ NewTransaction(p) \/ ViewTransactions(p)
           \/ \E page \in Page : Back(p, page)
  <2>1. \/ browser' = [browser EXCEPT ![p].session = Unset, ![p].at = "login", ![p].error = FALSE]
        \/ OpensWallet(p) \/ \E page \in Page : Navigate(p, page) /\ page # "wallet"
    BY <1>8 DEF logout, SignIn, SignUp, NewTransaction, ViewTransactions, Back, Page
  <2> QED
    BY <1>1, <2>1, MoveKeeps DEF Page
<1> QED
  BY <1>4, <1>5, <1>6, <1>7, <1>8

\* A payment is sent, with the new key of the wallet.
LEMMA SendKeeps ==
  ASSUME PayInv, NEW p \in People, handlePayment(p)
  PROVE  PayInv'
<1> DEFINE sent == tried[p] + 1
           call(at) == [key |-> sent, heard |-> TRUE, at |-> at]
<1>1. /\ browser[p].at = "wallet" /\ ~Processing(p) /\ UNCHANGED <<browser, keys, successes, lost>>
      /\ tried' = [tried EXCEPT ![p] = @ + 1]
      /\ \E at \in {"sent", "refused"} :
           payment' = [payment EXCEPT ![p] = @ \cup
                        {[key |-> browser[p].key, heard |-> TRUE, at |-> at]}]
  BY DEF handlePayment
<1>2. Sound(browser[p], payment[p], keys[p], tried[p], successes[p], lost[p])
  BY DEF PayInv
<1>3. browser[p].key = sent
  BY <1>1, <1>2 DEF Sound, KeyIsNew, Processing
<1>4. PICK at \in {"sent", "refused"} :
        payment' = [payment EXCEPT ![p] = payment[p] \cup {call(at)}]
  BY <1>1, <1>3
<1> DEFINE cs == payment[p] \cup {call(at)}
<1>5. /\ tried[p] \in Nat /\ sent \in Nat /\ keys[p] \subseteq 1..tried[p]
      /\ payment[p] \subseteq PaymentRow /\ call(at) \in PaymentRow
      /\ call(at).key = sent /\ call(at).heard = TRUE /\ call(at).at \in {"sent", "refused"}
  BY <1>2, Itself DEF Sound, Told, PaymentRow
<1>6. \A k \in 1..tried[p] : k \in 1..sent /\ k # sent
  BY <1>5
<1>7. CallsKnown(cs, keys[p], sent, lost[p])
  <2>1. \A c \in payment[p] : c.key \in 1..sent /\ c.key # sent
    BY <1>2, <1>6 DEF Sound, CallsKnown
  <2>2. sent \notin keys[p] /\ sent \in 1..sent
    BY <1>5, <1>6
  <2>3. CallsKnown(payment[p], keys[p], tried[p], lost[p])
    BY <1>2 DEF Sound
  <2>4. \A c \in cs : c \in payment[p] \/ c = call(at)
    OBVIOUS
  <2> HIDE DEF sent, cs, call
  <2>5. \A c \in cs : /\ c.key \in 1..sent
                      /\ c.at = "sent" => c.key \notin keys[p]
                      /\ c.at = "paid" => c.key \in keys[p]
                      /\ ~c.heard => c.at = "sent" /\ c.key \in lost[p]
    BY <1>5, <2>1, <2>2, <2>3, <2>4 DEF CallsKnown
  <2>6. \A c, d \in cs : c.key = d.key => c = d
    BY <1>5, <2>1, <2>3, <2>4 DEF CallsKnown
  <2> QED
    BY <2>5, <2>6 DEF CallsKnown
<1>8. KeyIsNew(browser[p], cs, sent)
  <2>1. call(at) \in cs
    OBVIOUS
  <2> HIDE DEF sent, cs, call
  <2> QED
    BY <1>3, <1>5, <2>1 DEF KeyIsNew
<1>9. Told(cs, keys[p], sent, successes[p], lost[p])
  <2>1. keys[p] \subseteq 1..sent
    BY <1>5, <1>6
  <2>2. \A c \in cs : c.at = "paid" => c \in payment[p]
    BY <1>5
  <2>3. \A c \in payment[p] : c \in cs
    OBVIOUS
  <2> HIDE DEF sent, cs
  <2> QED
    BY <1>2, <2>1, <2>2, <2>3 DEF Sound, Told
<1>10. cs \in SUBSET PaymentRow
  BY <1>5
<1> HIDE DEF cs, sent
<1>11. /\ tried' = [tried EXCEPT ![p] = sent] /\ payment' = [payment EXCEPT ![p] = cs]
       /\ browser' = [browser EXCEPT ![p] = browser[p]] /\ keys' = [keys EXCEPT ![p] = keys[p]]
       /\ successes' = [successes EXCEPT ![p] = successes[p]]
       /\ lost' = [lost EXCEPT ![p] = lost[p]]
  BY <1>1, <1>4, Itself DEF sent, cs
<1>12. Sound(browser[p], cs, keys[p], sent, successes[p], lost[p])
  BY <1>7, <1>8, <1>9 DEF Sound
<1> QED
  BY <1>5, <1>10, <1>11, <1>12, Itself, OnePays

\* The backend pays, which adds the key, or refuses.
LEMMA PaysKeeps ==
  ASSUME PayInv, NEW p \in People, NEW c \in payment[p], Pays(p, c)
  PROVE  PayInv'
<1>1. /\ c.at = "sent" /\ UNCHANGED <<browser, tried, successes, lost>> /\ c \in PaymentRow
      /\ Sound(browser[p], payment[p], keys[p], tried[p], successes[p], lost[p])
  BY DEF Pays, PayInv, PayTypes
<1>2. PICK at \in {"paid", "refused"} :
        /\ Done(p, c, at)
        /\ at = "paid" => keys' = [keys EXCEPT ![p] = keys[p] \cup {c.key}]
        /\ at = "refused" => keys' = keys
  BY DEF Pays
<1> DEFINE over == [c EXCEPT !.at = at]
           cs == (payment[p] \ {c}) \cup (IF c.heard THEN {over} ELSE {})
           paid == IF at = "paid" THEN keys[p] \cup {c.key} ELSE keys[p]
<1>3. /\ over \in PaymentRow /\ over.at = at /\ over.key = c.key /\ over.heard = c.heard
      /\ c.key \in 1..tried[p] /\ c.key \in Nat /\ c.key \notin keys[p]
      /\ \A d \in payment[p] \ {c} : d.key # c.key
  BY <1>1 DEF PaymentRow, Sound, CallsKnown
<1>4. payment' = [payment EXCEPT ![p] = cs] /\ cs \in SUBSET PaymentRow
  <2>1. {[d EXCEPT !.at = at] : d \in {e \in {c} : e.heard}} = IF c.heard THEN {over} ELSE {}
    OBVIOUS
  <2> QED
    BY <1>2, <1>3, <2>1, Itself DEF Done
<1>5. keys' = [keys EXCEPT ![p] = paid] /\ paid \in SUBSET Nat
  BY <1>2, <1>3, Itself
<1> HIDE DEF over
<1>6. CallsKnown(cs, paid, tried[p], lost[p])
  BY <1>1, <1>3 DEF Sound, CallsKnown
<1>7. KeyIsNew(browser[p], cs, tried[p])
  BY <1>1, <1>3 DEF Sound, KeyIsNew
<1>8. Told(cs, paid, tried[p], successes[p], lost[p])
  <2>1. paid \subseteq 1..tried[p] /\ Range(successes[p]) \subseteq paid
    BY <1>1, <1>3 DEF Sound, Told
  <2>2. ASSUME NEW d \in cs, d.at = "paid" PROVE d.key \notin Range(successes[p])
    BY <1>1, <1>3, <2>2 DEF Sound, Told
  <2>3. ASSUME NEW k \in paid
        PROVE  \/ k \in Range(successes[p]) \/ k \in lost[p]
               \/ \E d \in cs : d.heard /\ d.at = "paid" /\ d.key = k
    <3>1. CASE k = c.key /\ at = "paid"
      BY <1>1, <1>3, <3>1 DEF Sound, CallsKnown
    <3>2. CASE k \in keys[p]
      BY <1>1, <1>3, <3>2 DEF Sound, Told
    <3> QED
      BY <3>1, <3>2
  <2> QED
    BY <1>1, <2>1, <2>2, <2>3 DEF Sound, Told
<1> HIDE DEF cs, paid
<1> QED
  BY <1>1, <1>4, <1>5, <1>6, <1>7, <1>8, Itself, OnePays DEF Sound

\* The result page is shown.
LEMMA ResultRow ==
  ASSUME PayInv, NEW p \in People, NEW success \in BOOLEAN, Result(p, success)
  PROVE  \E row \in BrowserRow : row.at = "result" /\ browser' = [browser EXCEPT ![p] = row]
<1> DEFINE row == [browser[p] EXCEPT !.at = "result", !.error = ~success]
<1>1. browser[p] \in BrowserRow
  BY Itself
<1>2. row \in BrowserRow /\ row.at = "result"
  BY <1>1 DEF BrowserRow, Page
<1>3. browser' = [browser EXCEPT ![p] = row]
  BY DEF Result
<1> HIDE DEF row
<1> QED
  BY <1>2, <1>3

\* The answer is there: a success is shown, once.
LEMMA AnswerKeeps ==
  ASSUME PayInv, NEW p \in People, NEW c \in payment[p], PaymentAnswered(p, c)
  PROVE  PayInv'
<1>1. /\ c.heard /\ c.at \in {"paid", "refused"} /\ UNCHANGED <<keys, tried, lost>>
      /\ payment' = [payment EXCEPT ![p] = payment[p] \ {c}] /\ c \in PaymentRow
      /\ Sound(browser[p], payment[p], keys[p], tried[p], successes[p], lost[p])
  BY DEF PaymentAnswered, PayInv, PayTypes
<1> DEFINE won == IF c.at = "paid" THEN Append(successes[p], c.key) ELSE successes[p]
           cs == payment[p] \ {c}
<1>2. PICK row \in BrowserRow : row.at = "result" /\ browser' = [browser EXCEPT ![p] = row]
  BY ResultRow DEF PaymentAnswered
<1>3. successes' = [successes EXCEPT ![p] = won] /\ cs \in SUBSET PaymentRow
  BY Itself DEF PaymentAnswered
<1>4. c.key \in Nat /\ successes[p] \in Seq(Nat) /\ \A d \in cs : d.key # c.key
  BY <1>1, Itself DEF PaymentRow, Sound, CallsKnown
<1>5. /\ won \in Seq(Nat) /\ IsInjective(won)
      /\ Range(won) = Range(successes[p]) \cup (IF c.at = "paid" THEN {c.key} ELSE {})
  <2>1. IsInjective(successes[p])
    BY <1>1 DEF Sound, Told
  <2>2. CASE c.at = "paid"
    <3> DEFINE n == Len(successes[p])
    <3>1. c.key \notin Range(successes[p])
      BY <1>1, <2>2 DEF Sound, Told
    <3>2. /\ n \in Nat /\ DOMAIN successes[p] = 1..n /\ won \in Seq(Nat) /\ DOMAIN won = 1..n + 1
          /\ \A i \in 1..n : won[i] = successes[p][i]
          /\ won[n + 1] = c.key
      BY <1>4, <2>2
    <3> HIDE DEF n, won
    <3>3. \A i \in 1..n + 1 : i \in 1..n \/ i = n + 1
      BY <3>2
    <3>4. \A i \in 1..n : i \in 1..n + 1 /\ successes[p][i] \in Range(successes[p])
      BY <3>2 DEF Range
    <3>5. n + 1 \in 1..n + 1
      BY <3>2
    <3>6. IsInjective(won)
      BY <2>1, <3>1, <3>2, <3>3, <3>4 DEF IsInjective
    <3>7. Range(won) = Range(successes[p]) \cup {c.key}
      BY <3>2, <3>3, <3>4, <3>5 DEF Range
    <3> QED
      BY <2>2, <3>2, <3>6, <3>7
  <2>3. CASE c.at # "paid"
    BY <1>4, <2>1, <2>3
  <2> QED
    BY <2>2, <2>3
<1> HIDE DEF won
<1>6. CallsKnown(cs, keys[p], tried[p], lost[p])
  BY <1>1 DEF Sound, CallsKnown
<1>7. KeyIsNew(row, cs, tried[p])
  BY <1>2 DEF KeyIsNew
<1>8. Told(cs, keys[p], tried[p], won, lost[p])
  <2>1. Range(won) \subseteq keys[p]
    BY <1>1, <1>5 DEF Sound, CallsKnown, Told
  <2>2. \A d \in cs : d.at = "paid" => d.key \notin Range(won)
    BY <1>1, <1>4, <1>5 DEF Sound, Told
  <2>3. ASSUME NEW k \in keys[p]
        PROVE  \/ k \in Range(won) \/ k \in lost[p]
               \/ \E d \in cs : d.heard /\ d.at = "paid" /\ d.key = k
    BY <1>1, <1>5, <2>3 DEF Sound, Told
  <2> QED
    BY <1>1, <1>5, <2>1, <2>2, <2>3 DEF Sound, Told
<1> HIDE DEF cs
<1>9. payment' = [payment EXCEPT ![p] = cs]
  BY <1>1 DEF cs
<1> QED
  BY <1>1, <1>2, <1>3, <1>5, <1>6, <1>7, <1>8, <1>9, Itself, OnePays DEF Sound

\* Nobody hears any more of some calls: they are counted as lost.
LEMMA LossKeeps ==
  ASSUME PayInv, NEW p \in People, NEW some \in SUBSET payment[p], Unheard(p, some),
         NEW row \in BrowserRow, browser' = [browser EXCEPT ![p] = row],
         row.at # "wallet" \/ row.key = createIdempotencyKey(p)
  PROVE  PayInv'
<1> DEFINE going == {[c EXCEPT !.heard = FALSE] : c \in {d \in some : d.at = "sent"}}
           cs == (payment[p] \ some) \cup going
           gone == lost[p] \cup {c.key : c \in some}
<1>1. /\ payment' = [payment EXCEPT ![p] = cs] /\ lost' = [lost EXCEPT ![p] = gone]
      /\ UNCHANGED <<keys, tried, successes>>
      /\ Sound(browser[p], payment[p], keys[p], tried[p], successes[p], lost[p])
  BY DEF Unheard, PayInv
<1>2. some \subseteq PaymentRow /\ payment[p] \subseteq PaymentRow /\ lost[p] \subseteq Nat
  BY Itself
<1>3. \A g \in going : \E c \in some : /\ c.at = "sent" /\ g \in PaymentRow /\ g.key = c.key
                                       /\ g.at = "sent" /\ g.heard = FALSE
                                       /\ g = [c EXCEPT !.heard = FALSE]
  BY <1>2 DEF PaymentRow
<1>4. cs \in SUBSET PaymentRow /\ gone \in SUBSET Nat
  BY <1>2, <1>3 DEF PaymentRow
<1>5. /\ lost[p] \subseteq gone /\ \A c \in some : c.key \in gone
  OBVIOUS
<1>6. \A c \in cs : (c \in payment[p] /\ c \notin some) \/ c \in going
  OBVIOUS
<1> HIDE DEF going, gone
<1>7. CallsKnown(cs, keys[p], tried[p], gone)
  <2>1. ASSUME NEW c \in cs
        PROVE  /\ c.key \in 1..tried[p]
               /\ c.at = "sent" => c.key \notin keys[p]
               /\ c.at = "paid" => c.key \in keys[p]
               /\ ~c.heard => c.at = "sent" /\ c.key \in gone
    BY <1>1, <1>3, <1>5, <1>6 DEF Sound, CallsKnown
  <2>2. ASSUME NEW c \in cs, NEW d \in cs, c.key = d.key PROVE c = d
    <3>1. CASE c \in going /\ d \in going
      <4>1. PICK e \in some : e.key = c.key /\ c = [e EXCEPT !.heard = FALSE]
        BY <1>3, <3>1
      <4>2. PICK f \in some : f.key = d.key /\ d = [f EXCEPT !.heard = FALSE]
        BY <1>3, <3>1
      <4>3. e = f
        BY <1>1, <2>2, <4>1, <4>2 DEF Sound, CallsKnown
      <4> QED
        BY <4>1, <4>2, <4>3
    <3>2. CASE c \notin going /\ d \notin going
      BY <1>1, <1>6, <2>2, <3>2 DEF Sound, CallsKnown
    <3>3. CASE c \in going /\ d \notin going
      <4>1. PICK e \in some : e.key = c.key
        BY <1>3, <3>3
      <4>2. d \in payment[p] /\ d \notin some
        BY <1>6, <3>3
      <4> QED
        BY <1>1, <2>2, <4>1, <4>2 DEF Sound, CallsKnown
    <3>4. CASE c \notin going /\ d \in going
      <4>1. PICK e \in some : e.key = d.key
        BY <1>3, <3>4
      <4>2. c \in payment[p] /\ c \notin some
        BY <1>6, <3>4
      <4> QED
        BY <1>1, <2>2, <4>1, <4>2 DEF Sound, CallsKnown
    <3> QED
      BY <3>1, <3>2, <3>3, <3>4
  <2> QED
    BY <2>1, <2>2 DEF CallsKnown
<1>8. KeyIsNew(row, cs, tried[p])
  BY DEF KeyIsNew, createIdempotencyKey
<1>9. Told(cs, keys[p], tried[p], successes[p], gone)
  <2>1. \A c \in cs : c.at = "paid" => c.key \notin Range(successes[p])
    BY <1>1, <1>3, <1>6 DEF Sound, Told
  <2>2. ASSUME NEW k \in keys[p]
        PROVE  \/ k \in Range(successes[p]) \/ k \in gone
               \/ \E c \in cs : c.heard /\ c.at = "paid" /\ c.key = k
    BY <1>1, <1>5, <2>2 DEF Sound, Told
  <2> QED
    BY <1>1, <2>1, <2>2 DEF Sound, Told
<1> HIDE DEF cs
<1> QED
  BY <1>1, <1>4, <1>7, <1>8, <1>9, Itself, OnePays DEF Sound

LEMMA LostKeeps ==
  ASSUME PayInv, NEW p \in People, Reload(p) \/ \E c \in payment[p] : PaymentLost(p, c)
  PROVE  PayInv'
<1>1. ASSUME NEW c \in payment[p], PaymentLost(p, c) PROVE PayInv'
  <2>1. PICK row \in BrowserRow : row.at = "result" /\ browser' = [browser EXCEPT ![p] = row]
    BY <1>1, ResultRow DEF PaymentLost
  <2> QED
    BY <1>1, <2>1, LossKeeps DEF PaymentLost
<1>2. CASE Reload(p)
  <2> DEFINE some == {c \in payment[p] : c.heard}
             key == createIdempotencyKey(p)
  <2>1. Unheard(p, some) /\ some \in SUBSET payment[p]
    BY <1>2 DEF Reload
  <2> HIDE DEF some
  <2>2. browser[p] \in BrowserRow /\ key \in Nat
    BY Itself DEF createIdempotencyKey
  <2>3. CASE browser[p].at = "wallet"
    <3> DEFINE row == [browser[p] EXCEPT !.at = "wallet", !.key = key, !.error = FALSE]
    <3>1. browser' = [browser EXCEPT ![p] = row]
      BY <1>2, <2>3 DEF Reload, OpensWallet
    <3> HIDE DEF key
    <3>2. row \in BrowserRow /\ row.key = key
      BY <2>2 DEF BrowserRow, Page
    <3> HIDE DEF row
    <3> QED
      BY <2>1, <3>1, <3>2, LossKeeps DEF key
  <2>4. CASE browser[p].at # "wallet"
    <3> DEFINE row == [browser[p] EXCEPT !.at = browser[p].at, !.error = FALSE]
    <3>1. browser' = [browser EXCEPT ![p] = row]
      BY <1>2, <2>4 DEF Reload, Navigate
    <3>2. row \in BrowserRow /\ row.at = browser[p].at
      BY <2>2 DEF BrowserRow
    <3> HIDE DEF row
    <3> QED
      BY <2>1, <2>4, <3>1, <3>2, LossKeeps
  <2> QED
    BY <2>3, <2>4
<1> QED
  BY <1>1, <1>2

LEMMA PayInit == UserInit => PayInv
<1> SUFFICES ASSUME UserInit PROVE PayInv
  OBVIOUS
<1>1. PayTypes
  BY DEF UserInit, PayTypes, BrowserRow, Page, PaymentRow
<1>2. IsInjective(<<>>) /\ Range(<<>>) = {}
  BY DEF IsInjective, Range
<1>3. ASSUME NEW p \in People
      PROVE  Sound(browser[p], payment[p], keys[p], tried[p], successes[p], lost[p])
  <2>1. /\ browser[p].at = "signup" /\ payment[p] = {} /\ keys[p] = {} /\ tried[p] = 0
        /\ successes[p] = <<>> /\ lost[p] = {}
    BY DEF UserInit
  <2> QED
    BY <1>2, <2>1 DEF Sound, CallsKnown, KeyIsNew, Told
<1> QED
  BY <1>1, <1>3 DEF PayInv

LEMMA PayStep == PayInv /\ AccountInv /\ [UserNext]_userVars => PayInv'
<1> SUFFICES ASSUME PayInv, AccountInv, [UserNext]_userVars PROVE PayInv'
  OBVIOUS
<1>1. ASSUME UNCHANGED <<browser, payVars>> PROVE PayInv'
  BY <1>1 DEF PayInv, PayTypes, payVars
<1>2. ASSUME NEW a \in Wallets, createAccount(a) PROVE PayInv'
  BY <1>1, <1>2 DEF createAccount
<1>3. CASE UNCHANGED userVars
  BY <1>1, <1>3 DEF userVars
<1>4. {"login", "wallet", "ledger"} \subseteq Page
  BY DEF Page
<1> QED
  BY <1>2, <1>3, <1>4, SessionKeeps, SendKeeps, PaysKeeps, AnswerKeeps, LostKeeps DEF UserNext

-----------------------------------------------------------------------------

LEMMA UserInvariant == Spec => [](AccountInv /\ PayInv)
<1>1. Init => AccountInv /\ PayInv
  BY UsersAtFirst, AccountInit, PayInit
<1>2. (AccountInv /\ PayInv) /\ [Next]_vars => (AccountInv /\ PayInv)'
  BY OnlyUsers, AccountStep, PayStep
<1> QED
  BY <1>1, <1>2, PTL DEF Spec

\* Who has registered keeps the account and can log in, unless two registrations for
\* the account overlapped: registerUser checks and links in two statements.
THEOREM RegisteredCanLogIn == Spec => []RegisteredKeepsAccount
<1>1. AccountInv => RegisteredKeepsAccount
  BY DEF AccountInv
<1> QED
  BY <1>1, UserInvariant, PTL

\* Every success that a page shows is a payment of its own, and besides these only a
\* payment whose answer was lost, or is awaited, has moved money: a new key for every
\* try of handlePayment, and one payment for each key, however many are under way.
THEOREM SuccessIsAPayment == Spec => []EverySuccessIsAPayment
<1>1. ASSUME PayInv PROVE EverySuccessIsAPayment
  <2> SUFFICES ASSUME NEW p \in People
               PROVE  /\ IsInjective(successes[p]) /\ Range(successes[p]) \subseteq keys[p]
                      /\ keys[p] \subseteq Range(successes[p]) \cup lost[p] \cup
                           {c.key : c \in {d \in payment[p] : d.heard /\ d.at = "paid"}}
    BY DEF EverySuccessIsAPayment
  <2>1. Told(payment[p], keys[p], tried[p], successes[p], lost[p])
    BY <1>1 DEF PayInv, Sound
  <2> QED
    BY <2>1 DEF Told
<1> QED
  BY <1>1, UserInvariant, PTL
=============================================================================
