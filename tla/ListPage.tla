------------------------------ MODULE ListPage ------------------------------
(***************************************************************************)
(* What the list pages of the administrator have in common.  A page keeps  *)
(* its filters and the answer it shows; every change of a filter sends a   *)
(* request, which the server answers from two snapshots of a table (the    *)
(* rows, then their count) and whose answer may arrive after that of a     *)
(* later one.  Nothing cancels a request, and the last answer to arrive is *)
(* shown, whichever it is.                                                 *)
(***************************************************************************)
EXTENDS AdminQueries

CONSTANTS
    Limit,       \* rows of a page (20 in the pages)
    Entered,     \* bound: the options and texts a user chooses from
    MaxTime,     \* bound of the clock
    MaxCalls,    \* bound of the requests in flight
    MaxMoves     \* bound of the things a user does on one visit

ASSUME BoundsOfVisits == Limit \in Nat \ {0} /\ MaxTime \in Nat

VARIABLES
    now,         \* the clock of the database
    ui,          \* the state of the mounted page
    calls,       \* the requests in flight, in the order they were sent
    moves,       \* how often the user has done something
    overtaken    \* history: the last answer to arrive was that of a request older
                 \* than one answered before

listVars == <<now, ui, calls, moves, overtaken>>

\* The state of a list page as it is mounted.
Blank(filters) ==
    [filters |-> filters, rows |-> <<>>, pagination |-> Unset, loading |-> FALSE,
     error |-> FALSE, expanded |-> Unset]

\* A request for a page of a list: the filters that are set, page and limit.
Request(q, page) ==
    [q |-> Spread(q, [page |-> page, limit |-> Limit, from |-> Unset, to |-> Unset]),
     found |-> Unset, counted |-> Unset, late |-> FALSE]

\* What loadX does before it waits, on a page whose state is u.
Load(u, q, page) ==
    /\ ui' = [u EXCEPT !.loading = TRUE, !.error = FALSE]
    /\ calls' = Append(calls, Request(q, page))

\* A user acts, on what the page shows; the clock stands still meanwhile.
Acts == /\ moves < MaxMoves /\ Len(calls) < MaxCalls
        /\ moves' = moves + 1
        /\ UNCHANGED <<now, overtaken>>
Looks == Acts /\ UNCHANGED calls

\* Previous and Next are there when there are several pages, and enabled when the
\* page is not loading and not at that end of the list.
CanPage(direction) ==
    /\ ui.pagination # Unset /\ ui.pagination.totalPages > 1 /\ ~ui.loading
    /\ IF direction = "Previous" THEN ui.pagination.page > 1
       ELSE ui.pagination.page < ui.pagination.totalPages
PageTo(direction) == IF direction = "Previous" THEN ui.pagination.page - 1
                     ELSE ui.pagination.page + 1
Directions == {"Previous", "Next"}

\* The server reads the rows, and then counts them.
Find(i) == /\ i \in DOMAIN calls /\ calls[i].found = Unset
           /\ calls' = [calls EXCEPT ![i].found = now]
           /\ UNCHANGED <<now, ui, moves, overtaken>>
Count(i) == /\ i \in DOMAIN calls /\ calls[i].found # Unset /\ calls[i].counted = Unset
            /\ calls' = [calls EXCEPT ![i].counted = now]
            /\ UNCHANGED <<now, ui, moves, overtaken>>

\* The i-th request is over: the requests sent before it have been overtaken.
Without(i) == RemoveAt([j \in DOMAIN calls |-> [calls[j] EXCEPT !.late = @ \/ j < i]], i)
Over(i) ==
    /\ calls' = Without(i)
    /\ overtaken' = calls[i].late
    /\ UNCHANGED <<now, moves>>
Answered(i) == i \in DOMAIN calls /\ calls[i].counted # Unset

\* A request that fails (a network error, or an error of the server) may have got anywhere.
Fails(i) == i \in DOMAIN calls

\* An error clears the list.
ShowError ==
    ui' = [ui EXCEPT !.error = TRUE, !.rows = <<>>, !.pagination = Unset, !.loading = FALSE]
ShowRows(answer) ==
    ui' = [ui EXCEPT !.rows = answer.rows, !.pagination = answer.pagination, !.loading = FALSE]
\* ... and closes the details of a row.
ShowRowsClosed(answer) ==
    ui' = [ui EXCEPT !.rows = answer.rows, !.pagination = answer.pagination, !.loading = FALSE,
                     !.expanded = Unset]

Toggle(id) == /\ Looks /\ ~ui.loading /\ \E i \in DOMAIN ui.rows : ui.rows[i].id = id
              /\ ui' = [ui EXCEPT !.expanded = IF @ = id THEN Unset ELSE id]

Tick == /\ now < MaxTime /\ now' = now + 1
        /\ UNCHANGED <<ui, calls, moves, overtaken>>

\* Typed search text finds accounts by name, e-mail or id; ten are offered.
Offered(index, text) ==
    LET found == SelectSeq(index, LAMBDA a : text \in {a.name, a.id, a.userId})
    IN  SubSeq(found, 1, Min({10, Len(found)}))
=============================================================================
