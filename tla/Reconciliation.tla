--------------------------- MODULE Reconciliation ---------------------------
(***************************************************************************)
(* The audit jobs: ledger consistency, orphan detector and account sanity, *)
(* reading the tables while payments are posted.  The first two examine    *)
(* what was written since their last successful run: a window between two  *)
(* readings of a clock.                                                    *)
(*                                                                         *)
(* A row gets its time when its statement is made and becomes visible with *)
(* the COMMIT of its transaction, which may be later.  Payments are those  *)
(* of Ledger, cut down to the entries of a journal and their times: one    *)
(* unit goes from an account to another, or to the same.                   *)
(***************************************************************************)
EXTENDS Integers, Sequences, FiniteSets

CONSTANTS
    Accounts,
    Txns,      \* rows of the transactions table, all reserved
    Jobs,      \* the audit jobs of the instance
    Workers,   \* slots of the worker, each with at most one job
    Runs,      \* rows of reconciliation_runs (bounds the number of runs)
    MaxTime,   \* bounds the clock
    MaxFaults, \* bounds errors, lost acknowledgements and crashes
    None

Windowed == {"LEDGER_CONSISTENCY", "ORPHAN_DETECTOR"}

ASSUME JobsOK == Jobs \subseteq Windowed \cup {"ACCOUNT_SANITY"}
ASSUME BoundsOK == MaxTime \in Nat /\ MaxFaults \in Nat
ASSUME NoneIsNothing == None \notin Jobs \cup Runs

VARIABLES
    now,     \* the clock, in the unit of the columns: milliseconds
    txn,     \* the transactions and what their executors have written so far
    entry,   \* ledger_entries
    acct,    \* account_balances
    run,     \* reconciliation_runs
    wk,      \* what each slot of the worker is doing
    faults

vars == <<now, txn, entry, acct, run, wk, faults>>

TxnRow == [status : {"PENDING", "POSTING", "SUCCESS", "FAILING", "FAILED"},
           journal : Seq(Accounts), \* who pays, who is paid
           drafted : Seq(Nat),      \* createdAt of the entries written so far
           updatedAt : Nat,         \* 0: not set
           settledAt : Nat]         \* when the final status was committed

\* number: the how-manieth entry of its account; committedAt is no column.
EntryRow == [account : Accounts, txn : Txns, number : Nat, balanceAfter : Int,
             at : Nat, committedAt : Nat]

\* last: the number of the entry lastLedgerEntryId points to, 0 for none.
BalanceRow == [cachedBalance : Int, last : Nat]

RunRow == [job : Jobs \cup {None}, status : {"ABSENT", "RUNNING", "SUCCESS", "FAILED"},
           completedAt : Nat, from : Nat, upto : Nat,
           scanned : SUBSET (Accounts \cup Txns), found : SUBSET (Accounts \cup Txns)]

Task == [pc : {"idle", "started", "scoping", "checking", "closing", "writing", "failing"},
         job : Jobs \cup {None}, run : Runs \cup {None}, from : Nat, upto : Nat,
         scope : SUBSET (Accounts \cup Txns), found : SUBSET (Accounts \cup Txns),
         completedAt : Nat]

NoRun == [job |-> None, status |-> "ABSENT", completedAt |-> 0, from |-> 0, upto |-> 0,
          scanned |-> {}, found |-> {}]
Idle == [pc |-> "idle", job |-> None, run |-> None, from |-> 0, upto |-> 0,
         scope |-> {}, found |-> {}, completedAt |-> 0]

\* BASELINE_START is time 0; everything happens after it.
Init ==
    /\ now = 1
    /\ txn = [x \in Txns |-> [status |-> "PENDING", journal |-> <<>>, drafted |-> <<>>,
                              updatedAt |-> 0, settledAt |-> 0]]
    /\ entry = {}
    /\ acct = [a \in Accounts |-> [cachedBalance |-> 0, last |-> 0]]
    /\ run = [r \in Runs |-> NoRun]
    /\ wk = [w \in Workers |-> Idle]
    /\ faults = 0

Tick ==
    /\ now < MaxTime
    /\ now' = now + 1
    /\ UNCHANGED <<txn, entry, acct, run, wk, faults>>

-----------------------------------------------------------------------------
(* Payments.                                                               *)

EntriesOf(a) == {e \in entry : e.account = a}

Holds_Nothing(x, a) == FALSE                    \* mutant: no FOR UPDATE
Holds(x, a) == txn[x].status = "POSTING" /\ \E i \in 1..2 : txn[x].journal[i] = a

\* The row locks of both accounts.
Begin(x, payer, payee) ==
    /\ txn[x].status = "PENDING"
    /\ \A y \in Txns : ~Holds(y, payer) /\ ~Holds(y, payee)
    /\ txn' = [txn EXCEPT ![x] = [@ EXCEPT !.status = "POSTING", !.journal = <<payer, payee>>]]
    /\ UNCHANGED <<now, entry, acct, run, wk, faults>>

\* createLedgerEntries: one INSERT after the other, each with its own time, which
\* may be that of an earlier entry of the account or of this journal.
WriteEntry(x) ==
    /\ txn[x].status = "POSTING"
    /\ Len(txn[x].drafted) < 2
    /\ txn' = [txn EXCEPT ![x].drafted = Append(@, now)]
    /\ UNCHANGED <<now, entry, acct, run, wk, faults>>

\* markTransactionSuccessful sets updatedAt.
Mark(x) ==
    /\ txn[x].status = "POSTING"
    /\ Len(txn[x].drafted) = 2
    /\ txn[x].updatedAt = 0
    /\ txn' = [txn EXCEPT ![x].updatedAt = now]
    /\ UNCHANGED <<now, entry, acct, run, wk, faults>>

\* Which of the first n entries of x are on account a, and what they add to it.
Own(x, a, n) == {i \in 1..n : txn[x].journal[i] = a}
Added(S, first, second) == (IF 1 \in S THEN first ELSE 0) + (IF 2 \in S THEN second ELSE 0)

PostedEntry(x, i) ==
    LET a == txn[x].journal[i] IN
    [account |-> a, txn |-> x, at |-> txn[x].drafted[i], committedAt |-> now,
     number |-> acct[a].last + Added(Own(x, a, i), 1, 1),
     balanceAfter |-> acct[a].cachedBalance + Added(Own(x, a, i), -1, 1)]

\* The COMMIT, with what updateAccountBalances has written.
Commit(x) ==
    /\ txn[x].status = "POSTING"
    /\ txn[x].updatedAt # 0
    /\ entry' = entry \cup {PostedEntry(x, i) : i \in 1..2}
    /\ acct' = [a \in Accounts |->
                  [cachedBalance |-> acct[a].cachedBalance + Added(Own(x, a, 2), -1, 1),
                   last |-> acct[a].last + Added(Own(x, a, 2), 1, 1)]]
    /\ txn' = [txn EXCEPT ![x] = [@ EXCEPT !.status = "SUCCESS", !.settledAt = now]]
    /\ UNCHANGED <<now, run, wk, faults>>

\* A rollback, or nothing at all, and then failPayment or the sweeper, whose
\* update takes its time here too and is committed later.
Fail(x) ==
    /\ txn[x].status \in {"PENDING", "POSTING"}
    /\ txn' = [txn EXCEPT ![x] = [@ EXCEPT !.status = "FAILING", !.drafted = <<>>,
                                           !.journal = <<>>, !.updatedAt = now]]
    /\ UNCHANGED <<now, entry, acct, run, wk, faults>>

FailCommit(x) ==
    /\ txn[x].status = "FAILING"
    /\ txn' = [txn EXCEPT ![x] = [@ EXCEPT !.status = "FAILED", !.settledAt = now]]
    /\ UNCHANGED <<now, entry, acct, run, wk, faults>>

-----------------------------------------------------------------------------
(* A run of a job.  Each step ends where the handler awaits the database.  *)

InWindow(t, from, upto) == from < t /\ t <= upto

\* The completion time of the last successful run, or BASELINE_START.
Successful_AnyStatus(j) ==                      \* mutant: whether it failed or not
    {r \in Runs : run[r].job = j /\ run[r].completedAt # 0}
Successful(j) == {r \in Runs : run[r].job = j /\ run[r].status = "SUCCESS"}
Checkpoint_NoBaseline(j) ==                     \* mutant: nothing for the first run
    IF Successful(j) = {} THEN {None} ELSE {run[r].completedAt : r \in Successful(j)}
Checkpoint(j) ==
    IF Successful(j) = {} \/ j \notin Windowed THEN {0}
    ELSE {run[r].completedAt : r \in {s \in Successful(j) :
            \A q \in Successful(j) : run[q].completedAt <= run[s].completedAt}}

StartJob(w, j) ==
    /\ wk[w].pc = "idle"
    /\ Cardinality({r \in Runs : run[r].status = "ABSENT"}) >
         Cardinality({v \in Workers : wk[v].pc = "started"})
    /\ \E t \in Checkpoint(j) :
         wk' = [wk EXCEPT ![w] = [Idle EXCEPT !.pc = "started", !.job = j, !.from = t]]
    /\ UNCHANGED <<now, txn, entry, acct, run, faults>>

\* windowEnd is read from the clock, then createRun.
FreezeWindow(w, r) ==
    /\ wk[w].pc = "started"
    /\ run[r].status = "ABSENT"
    /\ run' = [run EXCEPT ![r] = [NoRun EXCEPT !.job = wk[w].job, !.status = "RUNNING"]]
    /\ wk' = [wk EXCEPT ![w] = [@ EXCEPT !.pc = "scoping", !.run = r, !.upto = now]]
    /\ UNCHANGED <<now, txn, entry, acct, faults>>

Settled == {x \in Txns : txn[x].status \in {"SUCCESS", "FAILED"}}

\* What a window is about: entries by createdAt, transactions by updatedAt.
Items(j) ==
    IF j = "LEDGER_CONSISTENCY"
    THEN {[key |-> e.account, at |-> e.at, committedAt |-> e.committedAt] : e \in entry}
    ELSE {[key |-> x, at |-> txn[x].updatedAt, committedAt |-> txn[x].settledAt] :
            x \in Settled}

Changed(j, from, upto) == {i.key : i \in {k \in Items(j) : InWindow(k.at, from, upto)}}

\* The first query: the accounts to check.  The other jobs only count here.
Scope(w) ==
    /\ wk[w].pc = "scoping"
    /\ wk' = [wk EXCEPT ![w] =
                [@ EXCEPT !.pc = "checking",
                          !.scope = IF wk[w].job = "LEDGER_CONSISTENCY"
                                    THEN Changed(wk[w].job, wk[w].from, wk[w].upto)
                                    ELSE {}]]
    /\ UNCHANGED <<now, txn, entry, acct, run, faults>>

\* ORDER BY "createdAt" DESC, id DESC LIMIT 1: ids are random, so that any of
\* the entries with the last time may come first.
LatestByClock_Ascending(a) ==                   \* mutant: without DESC
    {e \in EntriesOf(a) : \A f \in EntriesOf(a) : e.at <= f.at}
LatestByClock(a) == {e \in EntriesOf(a) : \A f \in EntriesOf(a) : f.at <= e.at}

Drift(a, e) == e.balanceAfter # acct[a].cachedBalance
StalePointer(a, e) == e.number # acct[a].last

\* Is it an anomaly if e is taken for the latest entry of a?
Anomaly(j, a, e) == IF j = "ACCOUNT_SANITY" THEN StalePointer(a, e) ELSE Drift(a, e)

\* What the query may return for the accounts in S.
Reports(j, S) ==
    LET may  == {a \in S : \E e \in LatestByClock(a) : Anomaly(j, a, e)}
        must == {a \in may : \A e \in LatestByClock(a) : Anomaly(j, a, e)} IN
    {F \in SUBSET may : must \subseteq F}

Orphaned(x) ==
    \/ txn[x].status = "SUCCESS" /\ ~\E e \in entry : e.txn = x
    \/ txn[x].status = "FAILED" /\ \E e \in entry : e.txn = x

\* The query for anomalies, one statement and thus one snapshot.  The orphan
\* detector applies its window in it, account sanity looks at every account.
Examines(w) ==
    CASE wk[w].job = "LEDGER_CONSISTENCY" -> wk[w].scope
      [] wk[w].job = "ORPHAN_DETECTOR"    -> Changed(wk[w].job, wk[w].from, wk[w].upto)
      [] OTHER                            -> Accounts

Found(j, S) == IF j = "ORPHAN_DETECTOR" THEN {{x \in S : Orphaned(x)}} ELSE Reports(j, S)

Check(w) ==
    /\ wk[w].pc = "checking"
    /\ \E F \in Found(wk[w].job, Examines(w)) :
         wk' = [wk EXCEPT ![w] = [@ EXCEPT !.pc = "closing", !.scope = Examines(w),
                                              !.found = F]]
    /\ UNCHANGED <<now, txn, entry, acct, run, faults>>

\* completeRun reads the clock first and writes the row after another query.
ReadCompletedAt(w) ==
    /\ wk[w].pc = "closing"
    /\ wk' = [wk EXCEPT ![w] = [@ EXCEPT !.pc = "writing", !.completedAt = now]]
    /\ UNCHANGED <<now, txn, entry, acct, run, faults>>

CompletedRow(w) ==
    [job |-> wk[w].job, status |-> "SUCCESS", completedAt |-> wk[w].completedAt,
     from |-> wk[w].from, upto |-> wk[w].upto, scanned |-> wk[w].scope,
     found |-> wk[w].found]

CompleteRun(w) ==
    /\ wk[w].pc = "writing"
    /\ run' = [run EXCEPT ![wk[w].run] = CompletedRow(w)]
    /\ wk' = [wk EXCEPT ![w] = Idle]
    /\ UNCHANGED <<now, txn, entry, acct, faults>>

-----------------------------------------------------------------------------
(* Errors.  BullMQ retries a failed job: the next StartJob.                *)

Fault == faults < MaxFaults /\ faults' = faults + 1

\* A query fails; the details of the run have not been written.
JobError(w) ==
    /\ wk[w].pc \in {"scoping", "checking", "closing", "writing"}
    /\ Fault
    /\ wk' = [wk EXCEPT ![w].pc = "failing"]
    /\ UNCHANGED <<now, txn, entry, acct, run>>

\* completeRun has committed, but its caller sees an error.
CompleteAckLost(w) ==
    /\ wk[w].pc = "writing"
    /\ Fault
    /\ run' = [run EXCEPT ![wk[w].run] = CompletedRow(w)]
    /\ wk' = [wk EXCEPT ![w].pc = "failing"]
    /\ UNCHANGED <<now, txn, entry, acct>>

\* failRun sets status and completedAt of whatever it finds, and leaves the
\* details alone.
FailRun(w) ==
    /\ wk[w].pc = "failing"
    /\ run' = [run EXCEPT ![wk[w].run] = [@ EXCEPT !.status = "FAILED", !.completedAt = now]]
    /\ wk' = [wk EXCEPT ![w] = Idle]
    /\ UNCHANGED <<now, txn, entry, acct, faults>>

\* The worker dies, or failRun fails too; the row stays as it is.
Crash(w) ==
    /\ wk[w].pc # "idle"
    /\ Fault
    /\ wk' = [wk EXCEPT ![w] = Idle]
    /\ UNCHANGED <<now, txn, entry, acct, run>>

-----------------------------------------------------------------------------
Post(x) ==
    \/ \E payer, payee \in Accounts : Begin(x, payer, payee)
    \/ WriteEntry(x) \/ Mark(x) \/ Commit(x) \/ Fail(x) \/ FailCommit(x)

Work(w) ==
    \/ \E j \in Jobs : StartJob(w, j)
    \/ \E r \in Runs : FreezeWindow(w, r)
    \/ Scope(w) \/ Check(w) \/ ReadCompletedAt(w) \/ CompleteRun(w)
    \/ JobError(w) \/ CompleteAckLost(w) \/ FailRun(w) \/ Crash(w)

\* The bounds are used up.
Quiescent ==
    /\ now = MaxTime
    /\ \A x \in Txns : x \in Settled
    /\ \A w \in Workers : wk[w].pc = "idle"
    /\ \A r \in Runs : run[r].status # "ABSENT"
    /\ UNCHANGED vars

Next == Tick \/ Quiescent \/ (\E x \in Txns : Post(x)) \/ (\E w \in Workers : Work(w))

Spec == Init /\ [][Next]_vars

-----------------------------------------------------------------------------
(* Properties.                                                             *)

TypeOK ==
    /\ now \in 1..(MaxTime + 1)
    /\ txn \in [Txns -> TxnRow]
    /\ entry \subseteq EntryRow
    /\ acct \in [Accounts -> BalanceRow]
    /\ run \in [Runs -> RunRow]
    /\ wk \in [Workers -> Task]
    /\ faults \in 0..MaxFaults

\* The rows that say which window was examined, whatever their status: one of
\* them may have been overwritten by failRun.
Recorded(j) == {r \in Runs : run[r].job = j /\ run[r].upto # 0}

\* The time between the end of a window and the completion of its run, at which
\* the next window begins.
InGap(j, t) == \E q \in Recorded(j) : InWindow(t, run[q].upto, run[q].completedAt)

Examined(r, i) ==
    /\ InWindow(i.at, run[r].from, run[r].upto)
    /\ i.committedAt < run[r].upto => i.key \in run[r].scanned

\* Whatever runs overlap, fail, are retried, or are reported as failed after
\* they have succeeded: what was written before the end of some window is in a
\* window and was looked at if it was committed before the end of that, unless
\* it falls between the end of a window and the completion of its run.
NothingElseIsSkipped ==
    \A j \in Jobs \cap Windowed : \A i \in Items(j) : \A q \in Recorded(j) :
        i.at <= run[q].upto =>
            InGap(j, i.at) \/ \E r \in Recorded(j) : Examined(r, i)

Tied(a) == \E e, f \in EntriesOf(a) : e.number # f.number /\ e.at = f.at

\* As long as payments only write the ledger, however posting and auditing
\* interleave, a run reports nothing but accounts with two entries of the same
\* millisecond, among which the queries choose by a random id.
OnlyTiesAreReported ==
    \A r \in Runs : run[r].found \subseteq {a \in Accounts : Tied(a)}

\* The entry an account's pointer names, which was posted last, is one of those
\* with the latest createdAt, although the times are taken before the COMMIT and
\* several executors write entries at once.
LastPostedIsLatest ==
    \A a \in Accounts : acct[a].last # 0 =>
        \E e \in LatestByClock(a) : e.number = acct[a].last

\* ledger-consistency.database.ts: "no reconciliation window is skipped"; and
\* ledger-consistency.job.ts: "Anything committed after this timestamp belongs
\* to the next run."
NoWindowIsSkipped ==
    \A j \in Jobs \cap Windowed : \A i \in Items(j) : \A q \in Recorded(j) :
        i.at <= run[q].upto =>
            \E r \in Recorded(j) : InWindow(i.at, run[r].from, run[r].upto)

\* account-sanity.database.ts: "Independently determine the actual latest ledger
\* entry."  Whatever the query takes for the latest entry of an account is the
\* one that was posted last.
ActualLatestIsFound ==
    \A a \in Accounts : \A e \in LatestByClock(a) : e.number = acct[a].last
=============================================================================
