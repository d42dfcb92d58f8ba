# A verification development of LedgerCore

LedgerCore is a payment backend (TypeScript, Express, Prisma on PostgreSQL) with a worker
that repairs and audits its tables (BullMQ on Redis), a load-test runner and a React
frontend. This directory holds TLA+ modules translated from its source, the TLC
configurations that check them on small instances, and theorems about them checked by TLAPS
for every value of the constants.

- [1. The system](#1-the-system)
- [2. The modules](#2-the-modules)
- [3. What the runs check](#3-what-the-runs-check)
- [4. What is proved](#4-what-is-proved)
- [5. Where the code and what it says disagree](#5-where-the-code-and-what-it-says-disagree)
- [6. What is not modelled, and what is only
  model-checked](#6-what-is-not-modelled-and-what-is-only-model-checked)
- [7. Plan](#7-plan)

## 1. The system

Paths are relative to `src/backend/src` unless they start with `src/`.

| Component | State | Operations | Hard behaviour | Correct when |
|---|---|---|---|---|
| **Payment pipeline** `modules/payments` | `transactions`, `transaction_events` | `createPayment`: transaction A `reservePayment`, B `executePayment`, C `failPayment` | retries race with the first call; the server dies between A and B; the acknowledgement of a COMMIT is lost; B stalls until the sweeper has failed its row | money moves at most once for a key, status, journal and events agree, nobody is told a wrong outcome |
| **Idempotency keys** `modules/idempotency` | `idempotency_keys` | reserve, complete, fail, reclaim, delete when expired | the row is read without a lock and acted on later | a key never contradicts the transaction reserved with it |
| **Ledger** `modules/Ledger` | `ledger_entries`, `account_balances` | `postJournal` | payments race for one account; locks on several rows | entries add up to the cached balances, no wallet is overdrawn, no money appears or disappears, no deadlock |
| **Refunds** `executeReversalTransaction` | the same | lock the original, derive the reverse entries | several refunds of one payment race | refunded at most once, by the amount that was paid |
| **Account administration** `modules/account` | `accounts.status` | create, freeze, unfreeze, close | check, then an unconditional write | closed accounts are empty and stay closed; nothing is posted on an account that is not ACTIVE |
| **Pending sweeper** `jobs/handlers/pending-sweeper.job.ts` | the payment tables | fail what is PENDING for three minutes | concurrent runs, a late executor, one failing row | every payment is settled, once |
| **Idempotency clean-up** | `idempotency_keys` | delete expired COMPLETED and FAILED keys | a retry after the key is gone | no second payment |
| **Consistency, orphan and sanity jobs** | `reconciliation_runs` | audit a time window, or everything | windows computed from clocks; entries written meanwhile | every entry is in some window, no false alarm |
| **Queue, scheduler, worker** `jobs/reconciliation.*` | Redis | run each job every minute, three at a time, three attempts | overlapping runs | — |
| **Simulation runner** `Simulation/simulation.service.ts` | `activeSimulationId`, a folder per run with status, result and log, a k6 process | start, execute, handle spawn, exit and error, finish, fail, list | check before awaits, two writers of one file, promises nobody handles, restart | one run at a time, the slot is freed, a final status is the one k6 has earned |
| **Load tests** `Simulation/*.js` | – | configuration to environment to options of k6; log in, pay, check; the summary and the results page | two formats of the summary, defaults in three places | what was accepted is what runs, what k6 counted is what is shown |
| **List queries** `*.database.ts`, `*.controller.ts` of all modules | read only | filters, order, pages, counts, formatting | rows and count are two statements | the rows and the pages are those of the filters; every entry of a payment is shown once |
| **Users** `modules/users` | `users`, `accounts.userId` | register, log in | two registrations for one account | an account has one owner |
| **Admin pages** `src/frontend/src/pages/admin` | page state | filters, search, paging, details, status changes | answers that overtake each other | a page at rest shows what its controls say |
| **User pages** `src/frontend/src/pages/user`, `auth` | page state, session | sign up, log in, pay, list the own movements | a lost answer, a new key after every attempt, a page that is left while it pays | a success that is shown is one payment |

How they interact: the controllers call the services in process; every service writes
through Prisma transactions at READ COMMITTED, so that processes meet in row locks and
unique indexes only; the worker is a process of its own that works on the same tables.
Clients meet the backend in HTTP and may retry with the idempotency key; the wallet page
does not, it makes a new key after every attempt. The pages hold no subscriptions: each
sends requests from its handlers and shows whichever answer arrives last. The simulation
runner is part of the server, so that what ends the server ends a test as well.

`PROJECT.json` lists every component with its sources and status, and every hazard with the
line where it bites and the properties that would catch it; where the code does go wrong and
a property has the case as its exception, none is named and a note says so.

## 2. The modules

| Module | Models | Kind |
|---|---|---|
| `Payments` | createPayment, the sweeper and the clean-up over `idempotency_keys`, `transactions`, `transaction_events` | state machine |
| `IdempotentPayment` | what POST /payments promises for a key | abstract specification, implemented by `Payments` |
| `MCPayments` | a state constraint for TLC | instance |
| `PaymentsProofs` | theorems about `Payments`, and that it implements `IdempotentPayment` | proofs |
| `Journal` | buildJournalEntries, the refund, validateJournal, validateBalances, prepareLedgerEntries | pure operators |
| `JournalCheck` | the properties of `Journal` over all small inputs | properties |
| `JournalLemmas` | what sums over finite sets and the operators of `Journal` return | lemmas |
| `Ledger` | transaction B in full, refunds and account administration; EXTENDS `Journal` | state machine |
| `MCLedger` | accounts, requests and balances for TLC | instance |
| `LedgerProofs` | theorems about `Ledger`; EXTENDS `JournalLemmas` | proofs |
| `Reconciliation` | the ledger consistency, orphan and sanity jobs over `reconciliation_runs`, while payments are posted | state machine |
| `MCReconciliation` | symmetry and a state constraint for TLC | instance |
| `ReconciliationProofs` | theorems about `Reconciliation` | proofs |
| `SimulationRunner` | the runner of load tests, its files and its k6 processes, and the page that starts and watches them | state machine |
| `MCSimulation` | how many runs are started, for TLC | instance |
| `SimulationProofs` | theorems about `SimulationRunner` | proofs |
| `LoadTest` | configurations, k6 scripts, summaries, metrics and charts | pure operators |
| `Listing` | what all list endpoints share: filters, order, slices, counts | pure operators |
| `AdminQueries` | every list endpoint and every plain read of the backend; EXTENDS `Listing` | pure operators |
| `Money` | amounts as they are typed, parsed, sent and shown; the form of the wallet | pure operators |
| `PureCheck` | `JournalCheck` with `AdminQueries`, `LoadTest` and `Money` over bounded inputs | instance |
| `PureProofs` | all properties of `PureCheck`: journals and lists for all accounts, amounts and charges, the form of the wallet for all texts, load tests for the requests and runs enumerated; EXTENDS `JournalLemmas` | proofs |
| `ListPage` | what the list pages share: the requests in flight, two reads per answer, paging | state machine, in parts |
| `TransactionsPage`, `EventsPage`, `IdempotencyPage`, `LedgerPage`, `AccountsPage`, `ReconciliationPage`, `SimulationResultsPage`, `UserLedgerPage` | one page each: its handlers, its requests, what it shows; EXTEND `ListPage` | state machines |
| `UserApp` | registerUser, loginUser, and the pages Signup, Login, Wallet and TransactionResult | state machine |
| `WebApp` | a visit to any of the pages, over a database that changes; INSTANCEs the pages | composition |
| `MCWeb` | the tables of the database, for TLC | instance |
| `PageProofs` | what holds on a visit to a page that lists rows: lemmas on rows, answers and requests in flight, and the inductive invariant | proofs |
| `WebAppProofs` | theorems about all of `WebApp`: the pages at rest, the details of runs, the page of load tests, the people of `UserApp`; EXTENDS `PageProofs` | proofs |

**The database.** A step of a model is what a process does up to the next row lock it has to
wait for, or up to a COMMIT. The tables hold committed rows only; an open transaction shows
as the row locks it holds and as the program counter of its process. A conditional
`updateMany` evaluates its WHERE on the row found once the lock is owned (what READ
COMMITTED does). Statements that touch only rows locked already, or rows nobody else can
change meanwhile, are part of the step before them.

**Payments.** `key` and `txn` are the two tables (`txn[t]` also holds the events and the
number of journals of the row), `keyLock` and `txnLock` the row locks, `pc`, `req` and
`reply` a call of createPayment, `sess` the database session of its transaction B, which
outlives the call when an acknowledgement is lost, `swPc` and `swTodo` a run of the sweeper.
In order: `Submit`; `ReserveNew`, `ReserveAckLost` and `ReserveDuplicate` for transaction A;
`InspectDuplicate`, `Reclaim` and `InsertAfterReclaim` for handleDuplicateReservation;
`MarkSuccess`, `CompleteKey`, `Commit` (or `CommitNeverArrives`), `CommitAck` and
`CommitAckLost` for transaction B; `FailMark` and `FailCommit` for C; `ReserveError`,
`ExecuteError`, `FailError` for the error paths of the three; `Crash` of the server;
`SweepStart` to `SweepError` for the sweeper; `Cleanup`. Time is two flags: a transactions
row becomes `stale` after three minutes, a key `expired` after fifteen, never before its row
is stale, which the two constants and the common creation of both rows justify. A `Payload`
has a part that generateRequestHash covers, `hashed` (recipient, amount, type and locking
strategy), and a `rest` that it leaves out: fee, tax, the transaction to reverse, and the
user who asks. The stored hash is the first part alone.

**Ledger.** Here a transactions row and its executor have one name, since `Payments` shows
that a row has one executor and is settled once. `acct` is an account with its balance row,
`acctLock` and `txnLock` the row locks, `draft` the journal an executor is about to post,
`seen` the rows it has read under its locks, `adm` what an administrator has decided on but
not yet written. `Build` and `LockOriginal` are the business rules, `LockAccount` takes one
row lock at a time in id order, `Post` and `Refuse` are the rest of postJournal with
markTransactionSuccessful and the COMMIT. `ValidRequest` is what the validation of a request
asks for: any payment may name a transaction to reverse, only a refund has to. `Freeze`,
`Unfreeze` and `Close` read and decide, `UpdateAccountStatus` writes. The administrators'
read of status and balance is one step.

**Reconciliation.** `now` is the clock, in milliseconds; all processes read the same. `txn`,
`entry` and `acct` are the payments of `Ledger` cut down to what the jobs look at: which
account an entry is on, when it was written, what balance it notes. An entry takes its `at`
(createdAt) with its INSERT and becomes visible with the COMMIT; `committedAt` is no column,
it is there to say what a job could have seen. `run` is `reconciliation_runs`, `wk` what
each slot of the worker does. A job goes through `StartJob` (the checkpoint: completion time
of the last successful run), `FreezeWindow` (the end of the window and createRun), `Scope`
(the accounts with entries in the window), `Check` (the anomaly query), `ReadCompletedAt`
and `CompleteRun` (completeRun reads the clock, then the row, then writes). `JobError`,
`CompleteAckLost`, `FailRun` and `Crash` are the ways to end otherwise; a retry of BullMQ is
the next `StartJob`. ids of entries are random, so that which of two entries with the same
time counts as the latest is open (`LatestByClock`, `Reports`). Entries of one journal, or
of journals that follow each other, may carry the same millisecond (`Tied`).

**SimulationRunner.** A run has five program counters, one for each piece of code that takes
turns at its awaits: `starter` (startSimulation), `executor` (executeSimulation), `spawned`
(the handler of the spawn event), `finaliser` (finalizeOnce with the two finalisers) and
`k6`, the process. `file` is the status file: opening it for writing truncates it
(`queueOpens`, `spawnOpens`, `finalOpens`), a later step fills it, and a reader in between
finds no JSON. `finaliser` remembers the verdict, of which only the first counts. `Dies` is
the end of the process: an unhandled rejection (`finaliserGivesUp` after a COMPLETED
verdict, `lateOutput` when the log is closed) or `Restart`; memory and k6 go, the files
stay. `page` and `polls` are Simulation.tsx and its requests: `pollActive` is the timer,
`getActiveSimulation` and `getSimulationRun` the two reads of the server,
`fetchActiveSimulation` the answer. `faults`, `hurried` and `cut` are histories, by which
the properties tell apart what an error has caused.

**LoadTest.** A duration is a sequence of parts with units, of which the code reads the
number of the first and the unit of the last. `defaultConfig`, `validateConfig`,
`K6Environment` and `K6Options` are the way of a configuration to k6; `setup`, `payments`
and `checks` what a script does to the server; `parseK6Summary`, `writeSimulationResult` and
`getEffectiveMetrics` the way back of the numbers. A metric of k6 has its numbers nested
(handleSummary) or flat (`--summary-export`).

**Queries and pages.** `AdminQueries` has one operator per endpoint, from parameters and two
snapshots of a table to the answer: the rows come from the snapshot of the first statement
(`found`), the count from that of the second (`counted`). A page is a record `ui`; a handler
of a page is an action that changes `ui` and appends a request to `calls`; the server is
`Find` and `Count`, in this order, on the table at the time of each; `Arrive` is the answer,
`Fail` an error or a lost answer at any time. Answers arrive in any order. `overtaken` is a
history: the last answer shown was that of a request older than one answered before; on the
page of load tests a result stays overtaken until another one is asked for. The page of
accounts also has `patch`, a change of status under way, which the server checks and writes
in two steps, as `Ledger` has it. What a page displays (`TransactionRows`, `Badges`,
`Screen`, ...) are operators on `ui` that the properties speak of. A behaviour of `WebApp`
is one visit to one page, chosen in `Init`: leaving a page unmounts it, and what arrives
afterwards is dropped. A status may be anything at any time: a simulation that has completed
may be said to run again, since the handler of the spawn event may be late.

**UserApp.** registerUser takes two steps, since addNewUser reads the account
(`checkAccount`) before it links it (`linkAccount`), with nothing locked. `payment` holds
the calls of /payments that a person has under way, any number of them: only the button of
the mounted wallet is disabled (`Processing`), and a person may leave a wallet that is
processing by the browser's Back (`Back`), by loading the page again (`Reload`) or by the
menu of UserLayout (`logout`), and open another with another key. A call that is no longer
`heard` goes on at the server. The answer of one that is heard shows the result wherever the
person is by then, as `navigate` does after the wallet is unmounted. `Pays` is what
`IdempotentPayment` promises: a key that was paid is answered with the stored success, and
anything may be refused; without a session it is. `keys` are the keys a person has paid
with, `successes` the keys of the successes that were shown, `lost` those of the answers
that were not.

**Money.** A text is its rupees and the digits after the point; the operators are those of
the utilities and of the form, whose ticked boxes decide what is sent.

## 3. What the runs check

| Run | Question | Properties | States |
|---|---|---|---|
| `payments` | 3 attempts with 2 hashes and 2 payloads of one hash on 1 key, 2 rows, 2 sweepers, 1 sweeper failure, with fairness; does it implement `IdempotentPayment`? | `TypeOK`, `OneTransferPerKey`, `RecordsAgree`, `KeyMatchesTransaction`, `RepliesTruthful`, `AnswersOneHash`, `FinalStaysFinal`, `KeepsPromise`, `PendingIsSettled` | 418 thousand |
| `payments_payload` | is a key that comes with another payload refused? | `AnswersOnePayload` (violated) | – |
| `payments_reclaim` | can a failed key be retried? | `ReclaimGoesThrough` (violated) | – |
| `pure` | all payments between 5 accounts, amounts 1..3, charges -2..2, balances 0..7, built, posted, refunded and listed; requests for load tests and outcomes of k6; ways to fill in the form | `BuiltJournalsBalance`, `StampsAreRunningBalances`, `DebitCheckSuffices`, `RefundUndoesPayment`, `EveryLegIsShown`, `PayerSeesEveryCharge`, `WhatRunsIsWhatWasAccepted`, `ResultsPageShowsK6Numbers`, `PayerIsChargedWhatWasShown` | 30 thousand inputs |
| `ledger` | 3 payments of 7 kinds on 2 wallets and 3 system accounts, or 2 of them and one administrator, or 3 payments or refunds, with fairness | `TypeOK`, `BalancesMatchLedger`, `MoneyConserved`, `WalletsNeverOverdrawn`, `NoLockCycle`, `PostsOnlyOnActive`, `RefundedAtMostOnce`, `StartedIsSettled` | 146 thousand |
| `recon` | 2 runs of one job on 2 slots, 1 fault, 1 payment, or 1 run and 2 payments that race | `TypeOK`, `NothingElseIsSkipped`, `OnlyTiesAreReported`, `LastPostedIsLatest` | 3.7 million |
| `web` | one visit to each page, 2 things done by the user, 2 requests in flight, one change of the database; or 2 people, 2 wallets, 2 payments between them | `SettledPageShowsItsFilters`, `ShownStatusIsFresh`, `DetailsTellTheAnomalies`, `RegisteredKeepsAccount`, `EverySuccessIsAPayment` | 4.4 million |
| `simulation` | 2 load tests nobody watches, or 1 on a page with 2 requests in flight; 2 faults; with fairness | `TypeOK`, `K6RunsForTheActive`, `HistoryTellsTheEnd`, `SlotIsReleased`, `PageLearnsTheEnd` | 576 thousand |
| `ledger_closed` | is a closed account empty and closed for good? | `ClosureIsRespected` (violated) | – |
| `recon_gap` | does the window of a run begin where the last one ended? | `NoWindowIsSkipped` (violated) | – |
| `recon_ties` | is the actual latest entry of an account determined? | `ActualLatestIsFound` (violated) | – |
| `simulation_two` | does one simulation run at a time when two starts overlap? | `OneSimulationAtATime` (violated) | – |

**What they show.** For one key, the three records of an outcome (status column, journal,
events), the stored answer and what clients are told stay consistent through every order of
retry, lost acknowledgement, crash, sweeper run and clean-up. What holds the design together
is not the check before a write but two guards: `status = IN_PROGRESS` in
completeIdempotencyTx, which alone stops a stalled executor whose payment the sweeper has
failed (markTransactionSuccessful is unconditional), and the unique index on
`transactions.idempotencyKey`, which alone stops a second payment once the key has been
cleaned up. In the ledger, the absolute balances that postJournal writes are right because
of `FOR UPDATE`, no deadlock arises because of `ORDER BY a.id`, and the check of single
debits is enough for the journals that payments and refunds build. A negative fee or tax is
refused only because the journal no longer balances once addEntry has dropped it. The jobs
raise no false alarm however they interleave with payments, because each anomaly query is
one statement and compares rows that one COMMIT wrote, but for accounts with two entries of
one millisecond, between which they choose by a random id; the row locks of postJournal are
what puts the other entries of an account in the order of their times. What a windowed job
can miss has two forms and no third: what falls between the end of a window and the
completion of its run, and what is committed after the end of the window it belongs to.

On the pages, nothing cancels a request, so that the older of two answers may be shown for
the newer filters; apart from that a page at rest shows exactly what its badges and its page
number say, although rows and count come from two snapshots (the count may then be a later
one, never an earlier). A load test does not keep the slot for ever whatever fails: a
finaliser that fails on FAILED frees it, one that fails on COMPLETED takes the server down
and with it the slot. The price is that the status file keeps what it had, RUNNING or
nothing readable: `HistoryTellsTheEnd` holds for the runs that no fault has hit and whose k6
outlived the handling of its spawn event, and for no others. However a person moves between
the pages while payments are under way, each success shown is a payment of its own; one that
was made and never shown has lost its answer, and paying again after that, with the new key
of the page, is the only way to pay twice without wishing to.

**Bounds and why they are enough.**
- `Attempts`: with three, one executes, one retries against it and one retries against what
  the first two have left. The second one may differ from the first in what the hash leaves
  out, the others in the hash (`Canonical`). `Txns` has as many rows as can exist: the
  unique index allows one per key, the spare ones are there so that a missing index would
  show.
- `Sweepers`: two runs overlap; the worker runs up to three jobs at once, and a third finds
  what the second finds.
- `MaxFaults` bounds the sweeper runs that die; one is enough to leave a batch unfinished,
  and without a bound fairness would promise nothing.
- `Txns` of `Ledger` are payments: two race for an account and a third sees the result, or a
  payment and two refunds of it race. `Narrow` is a state constraint of `ledger`: while an
  administrator acts, or an account is not ACTIVE, one of the three payments has not begun,
  and refunds race with each other, with transfers with a fee or none and with deposits, and
  with no administrator.
- `Requests` has the cases that differ in their journal: both directions, to oneself, with
  charges, with a negative fee, a deposit, a withdrawal, refunds of a payment, of a deposit,
  of a refund and of a row that does not exist, and the locking strategy that is not
  implemented. The charges go to one system account, which makes one account occur twice in
  a journal.
- `Opening` balances stand for earlier deposits; they are small, so that payments run out of
  money.
- `Runs` and `Workers` of `Reconciliation`: a window is missed between two runs or by two
  that overlap; `MaxTime` is long enough for a run, a gap and a run after it, and for the
  entries of a payment on both sides of it. One fault leaves a run RUNNING, FAILED, or
  FAILED after its details were written. `Narrow` is a state constraint of `recon`: runs of
  different jobs share no data, so both runs are of one job; and the second payment begins
  only beside the first run and before any fault, since a verdict concerns one run and the
  payments it overlaps. Two payments thus meet one run, and two runs one payment.
- `MaxMoves`, `MaxCalls`, `MaxTime` of the pages: two requests overtake each other, and the
  database changes once between any two steps. A click on a simulation sends two requests,
  for which the bound is doubled. `Limit` is 1 instead of 20, so that there are pages to
  turn. `Entered` are the options and texts chosen from: at least one that matches rows and
  one that does not, and the texts of the search boxes.
- `MaxPays`: a payment and another one, by the same person or another: two payments of one
  person are under way at once, one lost and one answered, or one repeats the other. Two
  people and two wallets race for one wallet.
- `MaxStarts`: two runs after each other without a page, or one with it; what one run leaves
  behind is all that the next one meets. `MaxPolls`: two answers in either order.
  `MaxFaults` of `SimulationRunner`: an error, and another one while it is handled.
  `Overlapping` is FALSE in `simulation` (a start is checked only when the one before it
  holds the slot) and TRUE in `simulation_two`.
- `pure`: the stages and limits of load tests lie on both sides of every comparison in the
  code, k6 makes up to three payments with three logins, a typed amount has none to three
  decimals.
- `Admins` bounds the status changes that are under way at once (a read that has not been
  followed by its write), and `Managed` the accounts they are about.

**Fairness.** `Payments!FairSpec`: a running attempt keeps taking steps, because the
interactive transaction has a timeout that ends every wait; PostgreSQL settles a COMMIT in
doubt; the scheduler starts the sweeper every minute, and a run that has been started goes
on; time passes. No fairness is assumed of clients, of crashes, or of the attempts of a dead
server. `Ledger!FairSpec`: an executor goes on with what it can do. `Abort` (an error or the
timeout) is not part of the fair action, so that `StartedIsSettled` cannot rest on it: it
says that nobody waits for ever. `SimulationRunner!FairSpec`: the next step of each request,
executor, handler and finaliser is taken in the end, because Node.js resumes every awaited
file operation and event; k6 runs for a bounded time, because its options bound it; the
timer of the page goes off, and requests are answered or fail. The rejection that
`lateOutput` is need not happen, and no fault does.

Symmetry is used in the runs of `Reconciliation` only, which check safety and where
accounts, transactions, rows of runs and slots are interchangeable. The state constraints of
`payments` and `ledger`, which check liveness too, cut off only starts of requests and
decisions of administrators, of which no fairness is assumed. The account ids of `Ledger`
are ordered, because the locks are.

## 4. What is proved

Every theorem holds for all values of the constants that satisfy the named assumptions of
its module; TLC evaluates the assumptions in the runs. Each inductive invariant was checked
by TLC on the instance of its run before it was proved; `PageInv`, which speaks of some page
number and of some set of parameters, with these taken from what the instance has. Theorems
that name a property state `Spec => []` of it, unless a hypothesis is given.

| Module | Theorem | Property |
|---|---|---|
| `PaymentsProofs` | `TypeCorrect` | `TypeOK` |
| | `Invariant` | the inductive invariant `IInv` |
| | `NoDoubleTransfer` | `OneTransferPerKey` |
| | `RecordsAlwaysAgree` | `RecordsAgree` |
| | `KeysMatch` | `KeyMatchesTransaction` |
| | `RepliesStayTruthful` | `RepliesTruthful` |
| | `OneHashAnswered` | `AnswersOneHash` |
| | `SettledOnce` | the action property `FinalStaysFinal` |
| | `ReclaimNeverInserts` | in no reachable state does the insert after a reclaim go through |
| | `ImplementsPromise` | `Spec => Promise!Spec`: `KeepsPromise` |
| `PureProofs` | `JournalsBalance` | `BuiltJournalsBalance` |
| | `StampsRun` | `StampsAreRunningBalances` |
| | `DebitsAreCovered` | `DebitCheckSuffices` |
| | `RefundsUndo` | `RefundUndoesPayment` |
| | `ChargedAsShown` | `PayerIsChargedWhatWasShown` |
| | `AcceptedLoadRuns` | `WhatRunsIsWhatWasAccepted` |
| | `LegsAreShown` | `EveryLegIsShown` |
| | `ChargesAreSeen` | `PayerSeesEveryCharge` |
| | `NumbersAreShown` | `ResultsPageShowsK6Numbers` |
| `LedgerProofs` | `TypeCorrect` | `TypeOK` |
| | `BalancesAreRight` | `BalancesMatchLedger` |
| | `MoneyIsConserved` | `MoneyConserved` |
| | `NoOverdraft` | `WalletsNeverOverdrawn` |
| | `RefundsOnce` | `RefundedAtMostOnce` |
| | `NoDeadlock` | `NoLockCycle` |
| | `PostingNeedsActive` | the action property `PostsOnlyOnActive` |
| `ReconciliationProofs` | `TypeCorrect` | `TypeOK` |
| | `OnlyGapsSkip` | `NothingElseIsSkipped` |
| | `LastHasLatestTime` | `LastPostedIsLatest` |
| | `OnlyTiesAlarm` | `OnlyTiesAreReported` |
| `SimulationProofs` | `TypeCorrect` | `TypeOK` |
| | `OnlyTheActiveRuns` | `K6RunsForTheActive`, if `~Overlapping` |
| | `OneAtATime` | `OneSimulationAtATime`, if `~Overlapping` |
| | `HistoryIsTrue` | `HistoryTellsTheEnd` |
| `WebAppProofs` | `PagesKeepTheInvariant` | the inductive invariant `PageInv` |
| | `SettledPagesShow` | `SettledPageShowsItsFilters` |
| | `StatusIsFresh` | `ShownStatusIsFresh` |
| | `DetailsTell` | `DetailsTellTheAnomalies` |
| | `RegisteredCanLogIn` | `RegisteredKeepsAccount` |
| | `SuccessIsAPayment` | `EverySuccessIsAPayment` |

**Payments** (assumed: attempts and sweepers are different processes, `None` is none of the
values, `MaxFaults` is a natural number). None of the properties is inductive: that a row is
still PENDING when transaction B marks it depends on the lock of its key and on the key's
status, which depends on what sweeper and failPayment do to both rows. `IInv` therefore
says, besides `TypeOK`: who holds which lock in which program state, and no other; an
executor, and nobody else, refers to its row, which has its key; a key has at most one row,
and a row that is PENDING has a key IN_PROGRESS; a session that is `completing` holds both
locks, and its row is PENDING; a reply rests on a row that has its outcome, and on a key
whose hash is that of the request that was answered as long as the key exists. Every
property is then a consequence of `IInv`, or of `IInv` in two successive states. The
preservation proof has one case per action; the frame lemmas (`RowsFrame`, `RepliesFrame`,
`HashesFrame`) carry the parts an action does not touch, `Opens` and `Settles` the two ways
a row changes its status.

**The refinement.** Where `IInv` holds, the mapping has a simple value: the status of a key
is that of its one row (`StatusIs`), it has moved money once if that is SUCCESS and else
never (`TransfersAre`), and what was told of it is in the replies (`ToldAre`). A step then
changes the status of one key, or adds one reply, or neither (`StatusFrame`, `ToldFrame`),
and `Progress` and `Answer` say which abstract step it is. A row that a sweeper or a late
executor settles while no client listens is a step of the promise too; the locks, the
statuses of keys, their expiry and deletion are what it does not see (`Unseen`).

**Journal** (assumed: wallets and system accounts are different, FEE_REVENUE and TREASURY
are system accounts, the bounds of the inputs are natural numbers). The amounts of a journal
are sums over sets of entries, by a fold of the community modules. The library's induction
theorems take an operator as a parameter, which the provers cannot instantiate, so that
`JournalLemmas` does induction by least counterexample: a set of naturals with 0 that is
closed under successor holds all of them (`Inductive`), hence a family of subsets of a
finite set that is closed under adding an element holds all of them (`SubsetInduction`).
From that follow the existence and the algebra of the sums, the running balances of
prepareLedgerEntries as a function on the numbers of entries, and what buildJournalEntries
and its refund return. The properties of `JournalCheck` are then equations between sums;
`DebitCheckSuffices` rests on a journal having one debit.

**What the lists show** (assumed besides: `UnsetIsApart`, nothing that is there looks like
something that is not). A list is argued about by ranks. In a strict order of a finite set
each place has exactly one element with so many before it (`Ranks`), so that both the rows
of a table, newest or oldest first (`NewestFirst`, `OldestFirst`), and the legs that a
`filter` leaves (`RowsAtPositions`) are lists of all their elements, each once (`ListOf`).
`EachLegOnce` then counts: the main leg of either side is one of the legs, and the
additional entries are the legs at the other positions, so that no leg is lost or doubled
when payer, payee and system accounts coincide. `LatestTells` rests on the ids, which run
with the positions in the journal: the entry that is listed first for an account is the one
that wrote its balance. The list of a payer has one row for a payment (`PayersMovement`), it
names the credits and no other leg (`RowsAreTheCredits`), and the credits are the amount and
the charges by the sums of `JournalLemmas`.

**The form and the load tests** (assumed: the same). `ShownIsCharged` is about any text in
the three fields of the wallet, of any length: what `formatMoney` writes is what
`parseMoneyToMinorUnits` reads back (`FormattedIsEntered`), at most two decimals of what was
typed count (`TypedIsNat`), and the journal of the payment then moves what was read
(`PaymentFacts`). `FixedLoadRuns` is about any number of users and any duration, of which
validateConfig accepts whole seconds only; a test by stages runs the stages of its script
(`SpikeRuns`, `StressRuns`), whose sums are running totals as in `Journal` (`RunningTotal`).
`AcceptedLoadRuns` is for the requests of `PureCheck`, whose stages are at most two.
`NumbersOfRun` is about every run of k6 with at most fifty requests, whatever their outcome
and latency, in both forms of the summary: the model has rates in whole percents, and up to
fifty requests the count of failures that the page recovers from the rate is the right one
(`PercentTells`). The shares of a chart add up to 99 or 100 for any counts (`SharesAddUp`),
and no bar is higher than the chart (`BarsFit`). `NumbersAreShown` is for the runs of
`PureCheck`, which are such runs.

**Ledger** (assumed: account ids are numbers, DEPOSIT and WITHDRAWAL are system accounts,
requests passed the validation, wallets open with no less than 0, `None` is nothing else,
the tables are finite). `IInv` is `TypeOK`, the properties `RefundedAtMostOnce`,
`BalancesMatchLedger`, `MoneyConserved` and `WalletsNeverOverdrawn`, and: `Rows`, how the
status of a row follows its executor; `Locks`, which rows an executor holds; `Reads`, what
was read under a lock is what the row still says, and accounts are locked in order;
`Journals`, journals balance, have one debit, and those of payments one wallet to receive;
`Refunds`, nobody else has refunded the original of a refund that is under way. The keys:
because of `Reads`, the absolute balances that postJournal writes are the old ones plus what
the journal moves, so that each account changes by the net of the entries it gets
(`BalancesMatchLedger`), and the nets of a journal that balances cancel (`MoneyConserved`);
because of the one debit, the check of each debit is a check of the balance at the end
(`WalletsNeverOverdrawn`); two refunds of one payment both need the lock of its row, and the
second finds the first (`Refunds`). `NoLockCycle` is not inductive but a consequence: of all
accounts somebody in a cycle waits for, the greatest is held by one who waits for a greater
one, since locks are taken in order; and a holder of a row of `transactions` waits for
accounts only.

**Reconciliation** (assumed: the jobs are the three, bounds are natural numbers). Windows
form a chain: `from` of a window is 0 or at most the completion time of a recorded run
(`Slot`), so that a time before the end of a window is in it, or is before its `from` and
then in the window or the gap of an earlier one, or before that (`Covered`). The chain is
followed one link per step of the system, not by induction on time: when a row is completed,
`CoveredKept` needs only that all times before the end of recorded windows were accounted
for already. What makes it inductive: a row without a window is never SUCCESS (`Rows`), a
row belongs to one slot and keeps status RUNNING until that slot closes it (`Slot`,
`Tasks`), recorded rows keep their window and their completion time only grows, even when
failRun overwrites it (`RowsKept`). `Scanned` says that the keys of what was committed
before the end of a window are in its scope from the query on; what becomes visible later
was committed later (`ItemsGrow`, which needs `Shape`).

That no job cries wolf needs what the jobs look at to be in order, `Books`: who posts holds
the rows of its accounts (`Disjoint`); the last entry of an account has its cached balance
(`Numbered`); exactly the transactions that succeeded have entries (`Owned`); the times of
the entries of an account never go back where its numbers go on, and what is drafted is not
earlier than what is there (`Timed`), which `Disjoint` makes true: whoever writes an entry
has the row of its account locked from before its INSERT to the COMMIT. The last entry is
then one of those with the latest time, and the only one unless two are equal (`Tied`). Ties
cannot be excluded, and with them the verdict may be wrong (section 5); no other account is
ever reported. Runs that fail, overlap and are retried play no role, since every query is
one statement on books that are in order; `Quiet` carries its result to the row of the run,
and an account that is tied stays so.

**SimulationRunner** (assumed: at least one request may be in flight, `MaxFaults` is a
natural number, `Unset` is no run and no status). `Phases` says how the five pieces of a run
follow each other: k6 only after the executor has spawned it, the finaliser only after k6
has ended. `Slots` says, as long as starts do not overlap, that a run which is on its way to
k6, has k6, or is being finished is the active one, and that nothing is active while one is
started; this is what a late handler, an early end or a restart would have to break to free
the slot of another run. `~Overlapping` is what the code lacks, and run `simulation_two` is
its absence. `Told` says what is in the status file at every stage of a run that no fault
has hit and whose k6 did not end before the spawn event was handled; it needs no assumption
about overlapping starts, since the handlers of a run write only its own files.

**The pages** (assumed: `TablesAreOrdered`, the tables are finite and no two rows of one
have the same time and id, since ids are keys; `RunsAreSaved`, a row of
`reconciliation_runs` is as createRun made it or as its job saved it; `SimulationsHaveIds`;
`UnsetIsApart`, and `BoundsOfVisits`: a page has a positive number of rows). That a page at
rest shows what its controls say is a fact about the past: `ListInv` remembers it as a fact
about the newest request that was ever sent. Either it is still in flight, and then it is
for the filters and the page that the controls show; or it is over, and then the rows are an
answer to it, or there was an error, or an older request was answered after it
(`overtaken`). `calls` keeps the order of sending, and a request in flight that is older
than one answered is marked `late`, so that the newest is in flight exactly if the last of
`calls` is not late (`Outstanding`, `LateFirst`). Whatever happens on a page is then of a
few kinds: a handler asks for a list with the filters it sets (`Sends`), or changes nothing
that the rows depend on (`Watches`, `Waits`); an answer is shown (`Hears`) or an error
clears the rows (`Misses`); the server finds or counts. `ListStepKeeps` shows once that each
kind keeps `ListInv`; the pages have to show only that all their actions are of these kinds.
What an answer contains is settled by lemmas on lists: `Newest` puts a row at the place that
counts the rows listed before it, and `Ordered` makes that one row for each place, so that
each row of an answer is in the table and passes the filter, whatever the slice. For the
page of accounts, `FreshOK` adds that the newest request found the table after the last
acknowledged change, or has not been served yet: confirmStatusChange reloads after the
acknowledgement, and this is what it is worth. For the list of runs, `RunsInv` says that
every row shown was in the table once; what the details then list is settled by the form in
which each job saves them. On the page of load tests the newest request for a result is for
the selected test (`ResultOK`), although a click asks twice, and a result that is shown
stays the one of the selection when the list no longer says that it has completed.

This proof found an error in the property as it was first stated. An error on the page of
accounts clears its rows and leaves a message. If the administrator then confirms a change
of status, `confirmStatusChange` takes the message away before it sends the change: for as
long as the change is under way the page shows no rows, no spinner and no error, although
the filters match some. It takes three moves of the user, and `Web.cfg` has two.
`SettledPageShowsItsFilters` therefore speaks of pages on which no change is under way
(`patch = Unset`); the reload that follows the acknowledgement fills the page again.

**People** (assumed: `Unset` is no person and no wallet). The pages of the administrators
change nothing of `UserApp` (`OnlyUsers`), so that invariants of `UserNext` are invariants
of `WebApp`. `Registrations` says that an account which a registration has found free still
is, or two had found it free: what the read of addNewUser is worth when its write comes.
`Sound` is what holds of a person's payments: a key has at most one call under way, and a
call nobody hears is at the server with its answer lost (`CallsKnown`); a wallet that is
mounted has a key nobody has sent, or awaits the answer to its own (`KeyIsNew`); and a key
that has paid was shown once, or lost, or is on its way to be shown (`Told`). The last one
is the property; the others are why a new payment cannot have an old key, whatever pages
were opened since.

## 5. Where the code and what it says disagree

- **A failed payment cannot be retried under its key.** handleDuplicateReservation reclaims
  a FAILED key ("Previous attempt failed -> reclaim reservation",
  `modules/payments/payment.service.ts:471`) and inserts a new transactions row, but the row
  of the first attempt still has the key and the column is unique. The insert fails and
  rolls the reclaim back. Run `payments_reclaim`; theorem `ReclaimNeverInserts` says that it
  is never otherwise.
- **A closure is not respected.** "Account cannot be closed while a balance remains."
  (`modules/account/account.controller.ts:227`) and "Closed accounts can not be reopened"
  (`:168`) are checked on an earlier read, and the status is then written by id. Run
  `ledger_closed`: an administrator decides to unfreeze, another closes the account, the
  first one writes; or a deposit commits between the read of the balance and the closure.
- **A window may be skipped.** "Anything committed after this timestamp belongs to the next
  run" (`jobs/handlers/ledger-consistency.job.ts:40`) and "no reconciliation window is
  skipped" (`jobs/database/ledger-consistency.database.ts:31`). The next window begins at
  completedAt of the last successful run, which is later than the end of its window. Run
  `recon_gap`; theorem `OnlyGapsSkip` says that there is no other hole.
- **Two load tests may run at once.** "You cannot start another simulation while this one is
  running." (`src/frontend/src/pages/admin/Simulation.tsx:392`); startSimulation assigns
  `activeSimulationId` after two awaits that follow its check. Run `simulation_two`.

- **A key may be reused with another payload.** "Idempotency key reused with a different
  request payload." (`modules/payments/payment.service.ts:423`) is what the second of two
  requests that differ is told, if they differ in what generateRequestHash covers (`:378`).
  One that has another fee, another tax, another transaction to reverse or another user is
  answered with the outcome of the first. Run `payments_payload`; theorem `OneHashAnswered`
  says what is left of the promise.
- **The actual latest entry may not be found.** "Independently determine the actual latest
  ledger entry." (`jobs/database/account-sanity.database.ts:58`) orders by createdAt and
  then by a random id. The two entries that a payment to oneself writes to one account may
  carry one millisecond and come in the wrong order. Run `recon_ties`; in `recon` such
  accounts may be reported falsely, and no others (theorem `OnlyTiesAlarm`).

Seen while modelling, and without a run of their own:

- A payment that is no refund may carry `transactionIdToReverse`
  (`modules/payments/payment.validation.ts:12` looks at refunds only), which
  `modules/payments/payment.service.ts:404` stores as `reversalOfId` for every type. The
  search for an earlier refund then finds it: once successful, it stands in the way of the
  refund of that transaction. No second refund comes of it (`RefundedAtMostOnce`).
- A payee is shown one row with the amount of the payer's debit, charges included; the
  comment in `modules/Ledger/ledger.database.ts:313` has the credit. A credit whose only
  counterparts are system accounts other than DEPOSIT has no row at all.
- The sweeper saves a bare array as details (`jobs/handlers/pending-sweeper.job.ts:66`), and
  the page looks for an object (`src/frontend/src/pages/admin/Reconciliation.tsx:922`): it
  says that nothing was swept. `DetailsTellTheAnomalies` has this as its exception.
- `formatMoneyString` of the same page shows minor units as rupees.
- The handler of the spawn event may write RUNNING over a final status, or leave a file that
  is no JSON; an error in finalizeSimulation, or output of k6 after the log was closed, is
  an unhandled rejection and ends the server; a poll that reads the status file while it is
  written makes the page stop watching. `HistoryTellsTheEnd` and `PageLearnsTheEnd` have
  these as their exceptions.
- `--summary-export` writes metrics without `values`, where parseK6Summary looks for them:
  the numbers of the server are 0, and the results page computes them again
  (`ResultsPageShowsK6Numbers`).
- payment-spike.js and payment-stress.js do not read `STAGES_JSON`: stages that were chosen
  are not run, and the third stage of the spike lasts 30 s where the server announces 20 s.
- durationToSeconds takes "1m30s" for one second. A receiver is drawn until its account
  differs from the sender's, for ever if all users share one account.
- The index of the search box has accounts and no users under the names the page of
  transactions looks for, so that the choice of a user changes nothing. Its types PAYMENT
  and REFUND are refused with 400, REVERSAL and the status PROCESSING are not offered.
- The message about a status change that failed is erased by the reload that follows it
  (`src/frontend/src/pages/admin/Accounts.tsx:212`). The page has no buttons for the second
  page.
- The page of the own movements keeps its page number when a filter changes, and may show an
  empty page of a shorter list. The session keeps the account of a registration that was
  overtaken.

## 6. What is not modelled, and what is only model-checked

- Only model-checked: `PendingIsSettled`, `StartedIsSettled`, `SlotIsReleased` and
  `PageLearnsTheEnd`. They are liveness properties under fairness, which the prover cannot
  reason about, since it has no ENABLED. All other properties of the runs that pass have a
  theorem. What is proved only where a model has one: `AcceptedLoadRuns` has at most two
  stages, `NumbersOfRun` fifty requests; `OnlyTheActiveRuns` and `OneAtATime` state their
  hypothesis.
- Abstracted in `Payments`: the journal is a counter (`Ledger` has it); the response body is
  its outcome; the batch limit of the sweeper.
- Abstracted in `Ledger`: users (a request names the wallet of its sender), currencies (all
  accounts have the same), missing accounts (one more way to fail, like `Abort`).
- Abstracted in `Reconciliation`: the limit of 100 anomalies per query, the diagnostics and
  counts in the details of a run (`scanned` and `found` are the keys they are about), what a
  job logs. markPartialSuccess has no caller and is left out. An anomaly in the data, which
  the jobs are there to find, is not an input: `Ledger` says there is none.
- Abstracted in `SimulationRunner`: what the files say besides the status, k6 but for its
  exit code and its late output, the pictures of the page. In `LoadTest`: throughput and
  percentiles, which are read and shown like the average; thresholds; the pauses of the
  scripts.
- Abstracted in the pages: layout and wording, the texts of errors (an answer is ok, refused
  or failed), dates as texts, copying to the clipboard. The filters by date are in the
  queries and in no control of a page.
- Abstracted in `UserApp`: passwords, hashes and tokens; a login finds its user or not. A
  result that the browser's history or a reload shows once more is not counted again.
- POST /ledger/journal, which posts a journal as it is sent, is a test route and not
  modelled: `DebitCheckSuffices` is about the journals that payments build. A journal with
  two debits of one wallet would pass the check of each and overdraw it.
- Not modelled: the HTTP server, its middleware and configuration, which are wiring; the
  idempotency stub and the outbox table, which nothing uses; the balance in the header of
  UserLayout, read once when it is mounted and stale after a payment; the read of one
  account; the scripts that set up a database; the internals of BullMQ and Redis, which are
  libraries.

## 7. Plan

All components with behaviour of their own are modelled, and every safety property that is
checked is proved. What is left:

1. `LoadTest`: stages without a bound in `AcceptedLoadRuns`. It takes an induction on the
   number of stages through three definitions that fold, like the one for journals.
2. The hazards without a property (answers that overtake each other, two registrations for
   one account, a second payment after a lost answer, a late spawn handler): each needs a
   run of its own that states what the code promises and finds it violated.

The set of runs is kept small enough to be run after every change: what comes next is merged
with a run that has room.
