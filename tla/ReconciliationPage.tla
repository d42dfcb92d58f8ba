-------------------------- MODULE ReconciliationPage --------------------------
(***************************************************************************)
(* The page of the audit runs, with what each job saves as the details of  *)
(* its run and what the page makes of them.                                *)
(***************************************************************************)
EXTENDS ListPage

CONSTANT Table       \* Table[t]: the rows the database holds at time t

JOB_TYPE_OPTIONS == {Unset} \cup JobType
STATUS_OPTIONS == {Unset} \cup RunStatus
NoFilters == [jobType |-> Unset, status |-> Unset, hasAnomalies |-> Unset, order |-> "desc"]

Answer(q, found, counted) ==
    getReconciliationRunsForAdminController(q, Table[found], Table[counted])

loadRuns(u, q, page) == Load(u, q, page)
Mounted == [Blank(NoFilters) EXCEPT !.loading = TRUE]
Sent == <<Request(NoFilters, 1)>>

handleJobTypeChange(jobType) ==
    /\ Acts /\ jobType # ui.filters.jobType
    /\ LET q == [ui.filters EXCEPT !.jobType = jobType]
       IN  loadRuns([ui EXCEPT !.filters = q], q, 1)
handleStatusChange(status) ==
    /\ Acts /\ status # ui.filters.status
    /\ LET q == [ui.filters EXCEPT !.status = status]
       IN  loadRuns([ui EXCEPT !.filters = q], q, 1)
handleAnomalyChange(hasAnomalies) ==
    /\ Acts /\ hasAnomalies # ui.filters.hasAnomalies
    /\ LET q == [ui.filters EXCEPT !.hasAnomalies = hasAnomalies]
       IN  loadRuns([ui EXCEPT !.filters = q], q, 1)
handleOrderChange(order) ==
    /\ Acts /\ order # ui.filters.order
    /\ LET q == [ui.filters EXCEPT !.order = order]
       IN  loadRuns([ui EXCEPT !.filters = q], q, 1)
resetFilters ==
    /\ Acts
    /\ loadRuns([ui EXCEPT !.filters = NoFilters, !.expanded = Unset], NoFilters, 1)
paginate(direction) == /\ CanPage(direction) /\ Acts
                       /\ loadRuns(ui, ui.filters, PageTo(direction))

Arrive(i) ==
    /\ Answered(i)
    /\ LET answer == Answer(calls[i].q, calls[i].found, calls[i].counted)
       IN  IF answer.kind = "ok" THEN ShowRowsClosed(answer) ELSE ShowError
    /\ Over(i)
Fail(i) == Fails(i) /\ ShowError /\ Over(i)

User == \/ \E j \in JOB_TYPE_OPTIONS \cap Entered : handleJobTypeChange(j)
        \/ \E s \in STATUS_OPTIONS \cap Entered : handleStatusChange(s)
        \/ \E a \in {Unset, "true", "false"} : handleAnomalyChange(a)
        \/ \E order \in {"asc", "desc"} : handleOrderChange(order)
        \/ resetFilters
        \/ \E direction \in Directions : paginate(direction)
        \/ \E i \in DOMAIN ui.rows : Toggle(ui.rows[i].id)

-----------------------------------------------------------------------------
(* What the jobs save as details: a JSON object, or a JSON array.          *)

Object(fields) == [kind |-> "object", fields |-> fields]
Array(items)   == [kind |-> "array", items |-> items]

Window(previous) == [mode |-> IF previous = Unset THEN "BASELINE" ELSE "INCREMENTAL",
                     previousSuccessfulRunId |-> previous]

consistencyDetails_Bare(anomalies, previous) == Array(anomalies)     \* mutant: as the sweeper does
consistencyDetails(anomalies, previous) == Object(Spread(Window(previous), [anomalies |-> anomalies]))
orphanDetails(anomalies, previous) == Object(Spread(Window(previous), [anomalies |-> anomalies]))
cleanupDetails(cutoff, deleted) == Object([cutoff |-> cutoff, deletedCount |-> deleted])
sanityDetails(anomalies) == Object([anomalies |-> anomalies])
sweeperDetails(anomalies) == Array(anomalies)

\* The row of a finished run.
CompletedRun(id, at, jobType, found, previous) ==
    [id |-> id, at |-> at, jobType |-> jobType, status |-> "SUCCESS",
     anomaliesFound |-> IF jobType = "IDEMPOTENCY_CLEANUP" THEN 0 ELSE Len(found),
     details |-> CASE jobType = "LEDGER_CONSISTENCY" -> consistencyDetails(found, previous)
                   [] jobType = "ORPHAN_DETECTOR" -> orphanDetails(found, previous)
                   [] jobType = "ACCOUNT_SANITY" -> sanityDetails(found)
                   [] jobType = "IDEMPOTENCY_CLEANUP" -> cleanupDetails(at, Len(found))
                   [] jobType = "PENDING_SWEEPER" -> sweeperDetails(found)]
StartedRun(id, at, jobType) ==
    [id |-> id, at |-> at, jobType |-> jobType, status |-> "RUNNING", anomaliesFound |-> 0,
     details |-> Unset]

-----------------------------------------------------------------------------
(* What the page shows.                                                    *)

Badges == {<<f, ui.filters[f]>> : f \in {g \in {"jobType", "status", "hasAnomalies"} :
                                            ui.filters[g] # Unset}}

\* details?.x, which an array does not have.
asRecord(details) == IF details # Unset /\ details.kind = "object" THEN details.fields ELSE <<>>
asArray(record, field) == IF field \in DOMAIN record THEN record[field] ELSE <<>>
OrDash(record, field) == IF field \in DOMAIN record THEN record[field] ELSE "-"

RunSummary(run) == [id |-> run.id, jobType |-> run.jobType, status |-> run.status,
                    anomalies |-> run.anomaliesFound, started |-> run.at]

PendingSweeperDetails(run) == [listed |-> asArray(asRecord(run.details), "anomalies")]
\* A drift that is not an object gets no card.
LedgerDriftCard(anomaly) == [account |-> anomaly, entries |-> Unset]
LedgerConsistencyDetails(run) ==
    LET record == asRecord(run.details)
        listed == asArray(record, "anomalies")
    IN  [mode |-> OrDash(record, "mode"), listed |-> listed,
         cards |-> [i \in DOMAIN listed |-> LedgerDriftCard(listed[i])]]
OrphanDetectorDetails(run) ==
    LET record == asRecord(run.details)
    IN  [mode |-> OrDash(record, "mode"), listed |-> asArray(record, "anomalies")]
IdempotencyCleanupDetails(run) ==
    LET record == asRecord(run.details)
    IN  [cutoff |-> OrDash(record, "cutoff"), listed |-> <<>>,
         deleted |-> IF "deletedCount" \in DOMAIN record THEN record.deletedCount ELSE 0]
AccountSanityDetails(run) == [listed |-> asArray(asRecord(run.details), "anomalies")]
GenericDetails(run) == [listed |-> <<>>, json |-> run.details]

ReconciliationDetails(run) ==
    CASE run.jobType = "PENDING_SWEEPER" -> PendingSweeperDetails(run)
      [] run.jobType = "LEDGER_CONSISTENCY" -> LedgerConsistencyDetails(run)
      [] run.jobType = "ORPHAN_DETECTOR" -> OrphanDetectorDetails(run)
      [] run.jobType = "IDEMPOTENCY_CLEANUP" -> IdempotencyCleanupDetails(run)
      [] run.jobType = "ACCOUNT_SANITY" -> AccountSanityDetails(run)
      [] OTHER -> GenericDetails(run)

MainRow(run) == [started |-> run.at, jobType |-> run.jobType, status |-> run.status,
                 anomalies |-> run.anomaliesFound]
ReconciliationRows ==
    [i \in DOMAIN ui.rows |->
        [row |-> MainRow(ui.rows[i]),
         details |-> IF ui.expanded = ui.rows[i].id
                     THEN [summary |-> RunSummary(ui.rows[i]),
                           report |-> ReconciliationDetails(ui.rows[i])]
                     ELSE Unset]]
=============================================================================
