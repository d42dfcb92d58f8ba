------------------------ MODULE SimulationResultsPage ------------------------
(***************************************************************************)
(* The page of the load tests that have been run: a list, and the result   *)
(* of the one that is selected.  Selecting a run asks for its result, and  *)
(* so does the effect that watches the selection and the list.             *)
(***************************************************************************)
EXTENDS ListPage

CONSTANT Table       \* Table[t]: the status files, and whether there is a result, at time t

\* Requests for the list, and for one run.
Ask(kind, id) == [q |-> [kind |-> kind, id |-> id], found |-> Unset, counted |-> Unset,
                  late |-> FALSE]

Mounted == [runs |-> <<>>, selected |-> Unset, result |-> Unset, loading |-> TRUE,
            loadingResult |-> FALSE, error |-> FALSE]
Sent == <<Ask("runs", Unset)>>

Completed(runs, id) == \E i \in DOMAIN runs : runs[i].id = id /\ runs[i].status = "COMPLETED"

\* openResult, for a completed run.
Opened(u, id) == [u EXCEPT !.selected = id, !.loadingResult = TRUE, !.error = FALSE]

\* A click; when it changes the selection, the effect asks once more.
openResult(id) ==
    /\ Acts /\ Completed(ui.runs, id) /\ Len(calls) + 2 <= MaxCalls
    /\ ui' = Opened(ui, id)
    /\ calls' = calls \o (IF id = ui.selected THEN <<Ask("result", id)>>
                          ELSE <<Ask("result", id), Ask("result", id)>>)

handleRefresh ==
    /\ Acts /\ ~ui.loading
    /\ ui' = [ui EXCEPT !.loading = TRUE, !.error = FALSE]
    /\ calls' = Append(calls, Ask("runs", Unset))

\* The selection stays if its run is still there, or else is the newest that completed.
\* If the selected run is listed as completed the effect asks for its result, or else the
\* result that is shown stays, and remains overtaken if it was.
NewestCompleted(runs) ==
    LET completed == {i \in DOMAIN runs : runs[i].status = "COMPLETED"}
    IN  IF completed = {} THEN Unset ELSE runs[Min(completed)].id
fetchRuns(i) ==
    LET runs == Newest(Table[calls[i].found])
        kept == IF \E j \in DOMAIN runs : runs[j].id = ui.selected THEN ui.selected
                ELSE NewestCompleted(runs)
        shown == [ui EXCEPT !.runs = runs, !.selected = kept, !.loading = FALSE]
    IN  /\ calls[i].q.kind = "runs"
        /\ ui' = IF Completed(runs, kept) THEN Opened(shown, kept) ELSE shown
        /\ calls' = IF Completed(runs, kept) THEN Append(Without(i), Ask("result", kept))
                    ELSE Without(i)
        /\ overtaken' = (calls[i].late \/ (overtaken /\ ~Completed(runs, kept)))
        /\ UNCHANGED <<now, moves>>

\* The status file is read before the result file, which may not be there yet.
getSimulationRun(id, found, counted) ==
    IF ~\E r \in Table[found] : r.id = id THEN [kind |-> "notFound"]
    ELSE Ok([result |-> IF \E r \in Table[counted] : r.id = id /\ r.result THEN id ELSE Unset])
showResult(i) ==
    /\ calls[i].q.kind = "result"
    /\ LET answer == getSimulationRun(calls[i].q.id, calls[i].found, calls[i].counted)
       IN  ui' = IF answer.kind = "ok" /\ answer.result # Unset
                 THEN [ui EXCEPT !.result = answer.result, !.loadingResult = FALSE]
                 ELSE [ui EXCEPT !.result = Unset, !.error = TRUE, !.loadingResult = FALSE]
    /\ Over(i)

Arrive(i) == Answered(i) /\ (fetchRuns(i) \/ showResult(i))
Fail(i) ==
    /\ Fails(i)
    /\ \/ /\ calls[i].q.kind = "runs"
          /\ ui' = [ui EXCEPT !.error = TRUE, !.loading = FALSE]
          /\ calls' = Without(i) /\ overtaken' = (overtaken \/ calls[i].late)
          /\ UNCHANGED <<now, moves>>
       \/ /\ calls[i].q.kind = "result"
          /\ ui' = [ui EXCEPT !.result = Unset, !.error = TRUE, !.loadingResult = FALSE]
          /\ Over(i)

User == \/ \E i \in DOMAIN ui.runs : openResult(ui.runs[i].id)
        \/ handleRefresh

-----------------------------------------------------------------------------
(* What the page shows.                                                    *)

Sidebar == [i \in DOMAIN ui.runs |->
              [id |-> ui.runs[i].id, status |-> ui.runs[i].status, started |-> ui.runs[i].at,
               selected |-> ui.runs[i].id = ui.selected,
               enabled |-> ui.runs[i].status = "COMPLETED"]]
\* The panel on the right, whose badge says "Completed" whatever the run's status is.
Panel == IF ui.loadingResult THEN "loading"
         ELSE IF ~\E i \in DOMAIN ui.runs : ui.runs[i].id = ui.selected THEN "no selection"
         ELSE IF ui.result = Unset THEN "no result" ELSE "result"
Screen == IF ui.loading /\ ui.runs = <<>> THEN [page |-> "loading"]
          ELSE [page |-> IF ui.runs = <<>> THEN "no simulations" ELSE "list",
                error |-> ui.error, sidebar |-> Sidebar, panel |-> Panel]
=============================================================================
