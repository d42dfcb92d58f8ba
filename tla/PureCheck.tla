----------------------------- MODULE PureCheck -----------------------------
(***************************************************************************)
(* The pure parts checked over bounded inputs: payments built, posted and  *)
(* refunded (JournalCheck), and what the lists show of them; load tests    *)
(* from their request to the numbers on the results page; the form of the  *)
(* wallet from the typed texts to the journal.                             *)
(***************************************************************************)
EXTENDS JournalCheck, SequencesExt

CONSTANTS
    Unset        \* a parameter or field that is not there

\* Nothing that is there looks like something that is not: neither numbers and accounts
\* nor the entries of a journal, what is shown of them, and the metrics of k6.
ASSUME UnsetIsApart ==
    /\ Unset \notin Nat \cup Accounts \cup EntryType /\ Unset # "invalid"
    /\ Unset \notin [id : Nat, at : Nat, transaction : {"t"}, account : Accounts,
                     direction : EntryType, amount : Int, balanceAfter : Int,
                     type : {"TRANSFER"}, status : {"SUCCESS"}]
    /\ Unset \notin [leg : Nat, account : Accounts, name : Accounts, amount : Int,
                     isSystemAccount : BOOLEAN]
    /\ Unset \notin [count : Nat] \cup [rate : Nat, value : Nat] \cup [avg : Nat, max : Nat]
                    \cup [passes : Nat, fails : Nat]

VARIABLE input   \* what is checked besides the payment: a record, or Unset

SystemType == [a \in Accounts |-> IF a \in SystemAccounts THEN a ELSE Unset]
Owner      == [a \in Accounts |-> IF a \in Wallets THEN a ELSE Unset]

Q == INSTANCE AdminQueries
L == INSTANCE LoadTest
M == INSTANCE Money

Requests ==
    [kind : {"load"}, testType : {"NORMAL", "LOAD"}, vus : {Unset, 0, 1, 1000, 1001},
     durationSeconds : {Unset, 4999, 5000, 5500, 3600000, 3601000}, stages : {Unset}]
    \cup
    [kind : {"load"}, testType : {"SPIKE", "STRESS"}, vus : {Unset}, durationSeconds : {Unset},
     stages : {Unset, <<>>, <<L!Stage(1, 1)>>, <<L!Stage(5, 2000)>>,
               <<[duration |-> <<L!Part(1, "m"), L!Part(30, "s")>>, target |-> 5], L!Stage(4, 1)>>,
               <<[duration |-> <<L!Part(1, "x")>>, target |-> 1]>>,
               <<[duration |-> <<L!Part(4999, "ms")>>, target |-> 1]>>,
               <<[duration |-> <<L!Part(500, "ms")>>, target |-> 1], L!Stage(5, 1)>>}]

\* A run of k6: the accounts its users were logged in with, how its payments were
\* answered, the latency, and the form of the summary that is written.
K6Runs ==
    [kind : {"summary"}, nested : BOOLEAN, logins : [1..3 -> {Unset, "a", "b"}],
     answers : UNION {[1..n -> {"paid", "refused", "garbled"}] : n \in 0..3},
     avg : 0..1, expectedAvg : {Unset, 0, 1}]

Texts == {Unset} \cup [rupees : 0..1, decimals : {<<>>, <<5>>, <<0, 5>>, <<9, 9>>, <<1, 2, 3>>}]
Forms == [kind : {"form"}, amount : Texts, tax : Texts, fee : Texts,
          applyTax : BOOLEAN, applyFee : BOOLEAN]

CheckInit ==
    \/ Init /\ input = Unset
    \/ /\ from = FeeRevenue /\ to = Treasury /\ amount = 1 /\ fee = 0 /\ tax = 0 /\ held = 0
       /\ \/ input \in Requests \cup Forms
          \/ input \in {k \in K6Runs : /\ L!SetupSucceeds(k.logins)
                                      /\ L!payments(L!setup(k.logins)) = {} => k.answers = <<>>}

CheckNext == Next /\ UNCHANGED input
CheckSpec == CheckInit /\ [][CheckNext]_<<vars, input>>

IsInput(kind) == input # Unset /\ input.kind = kind

-----------------------------------------------------------------------------
(* What the lists show of a payment.                                       *)

Legs == {[id |-> i, at |-> i, transaction |-> "t", account |-> Posted.entries[i].account,
          direction |-> Posted.entries[i].type, amount |-> Posted.entries[i].amount,
          balanceAfter |-> Posted.entries[i].balanceAfter,
          type |-> "TRANSFER", status |-> "SUCCESS"] : i \in DOMAIN Posted.entries}

NoFilter == [transactionId |-> Unset, userId |-> Unset, direction |-> Unset, status |-> Unset,
             type |-> Unset, from |-> Unset, to |-> Unset, page |-> Unset, limit |-> Unset,
             order |-> "desc"]

Transaction == [id |-> "t", at |-> 1, user |-> from, type |-> "TRANSFER", status |-> "SUCCESS",
                legs |-> Q!Oldest(Legs)]
ShownTransaction ==
    Head(Q!getTransactionsForAdminController(NoFilter, {Transaction}, {Transaction}).rows)
PartiesShown == {ShownTransaction.from, ShownTransaction.to} \ {Unset}

\* The plain reads of the transaction, which find it by each of its columns, and of its
\* entries, which are listed under the transaction and under their accounts; the latest
\* entry of an account tells its balance (entries are written one after the other).
FoundBy == {Q!getTransactionsByUserId(from, {Transaction}),
            Q!getTransactionsByStatus("SUCCESS", {Transaction}),
            Q!getRecentTransactions(1, {Transaction}),
            <<Q!getTransactionById("t", {Transaction}).transaction>>}
Latest(a) == Q!getLatestLedgerEntry(a, Legs)
ReadsAgree ==
    /\ FoundBy = {<<Transaction>>}
    /\ ShownTransaction.ledgerEntryCount = Len(Q!getLedgerEntriesByTransactionId("t", Legs))
    /\ UNION {Range(Q!getLedgerEntriesByAccountId(a, Legs)) : a \in Accounts} = Legs
    /\ \A a \in Accounts : IF \E l \in Legs : l.account = a
                           THEN Latest(a).entry.balanceAfter = Posted.balance[a]
                           ELSE Latest(a).kind = "notFound"

\* The administrator sees each leg of a transaction exactly once: as the payer,
\* as the payee or among the additional entries, whatever accounts coincide; and
\* the lists of entries show the same legs (getTransactionsForAdmin).
EveryLegIsShown ==
    LET shown == [i \in DOMAIN ShownTransaction.additional |-> ShownTransaction.additional[i].id]
    IN  /\ Range(shown) \cup {p.leg : p \in PartiesShown} = {l.id : l \in Legs}
        /\ Len(shown) + Cardinality(PartiesShown) = Cardinality(Legs)
        /\ ReadsAgree

MyRows(account, direction) ==
    Q!getMyTransactionsController(account, [NoFilter EXCEPT !.direction = direction], Legs, Legs).rows
SumShown(movement) == FoldLeft(LAMBDA sum, row : sum + row.amount, 0, movement.rows)

\* A payer sees where every paisa of a debit went: receiver, fee and tax add up
\* to what has left the wallet.
PayerSeesEveryCharge ==
    ValidateJournal(Payment) =>
        \A i \in DOMAIN MyRows(from, "DEBIT") :
            SumShown(MyRows(from, "DEBIT")[i]) = amount + fee + tax

-----------------------------------------------------------------------------
(* Load tests.                                                             *)

\* A simulation that is accepted runs within the limits, and one of fixed load
\* with exactly the load and the duration that its status file announces.
WhatRunsIsWhatWasAccepted ==
    (IsInput("load") /\ L!Accepted(input)) =>
        LET options == L!K6Options(input)
            planned == L!renderConfiguration(L!defaultConfig(input))
        IN  /\ options.vus \in 1..2000 /\ options.seconds \in L!Seconds
            /\ input.testType \in {"NORMAL", "LOAD"} =>
                 options = [vus |-> planned.vus, seconds |-> planned.seconds]

Counted == L!Measured(input.logins, input.answers)
Rate == (Counted.failed * 100) \div Counted.total
Metric(fields) == IF input.nested THEN [values |-> fields, flat |-> Unset]
                  ELSE [values |-> Unset, flat |-> fields]
Expected == "http_req_duration{expected_response:true}"
Fields(name) ==
    CASE name = "http_reqs" -> [count |-> Counted.total]
      [] name = "http_req_failed" -> [rate |-> Rate, value |-> Rate]
      [] name = "http_req_duration" -> [avg |-> input.avg, max |-> input.avg]
      [] name = "checks" -> [passes |-> Counted.passes, fails |-> Counted.fails]
      [] name = Expected -> [avg |-> input.expectedAvg, max |-> input.expectedAvg]
\* k6 writes no metric that it has no sample of.
Names == {"http_reqs", "http_req_failed", "http_req_duration"}
         \cup (IF input.answers # <<>> THEN {"checks"} ELSE {})
         \cup (IF input.expectedAvg # Unset THEN {Expected} ELSE {})
Summary ==
    [metrics |-> [name \in Names |-> Metric(Fields(name))],
     rootChecks |-> <<[passes |-> Counted.passes, fails |-> 0],
                      [passes |-> 0, fails |-> Counted.fails]>>]

\* The results page shows what k6 has measured, and so how many payments the test has
\* made (three checks each), whether the summary has the form the server expects or that
\* of --summary-export, which the server asks for and whose numbers it takes for zeros.
ResultsPageShowsK6Numbers ==
    IsInput("summary") =>
        LET shown == L!getEffectiveMetrics(
                        L!writeSimulationResult(Unset, [durationMs |-> Unset], Summary))
            latency == IF input.nested \/ input.expectedAvg = Unset THEN input.avg
                       ELSE input.expectedAvg
            health == L!RequestHealthChart(shown.totalRequests, shown.failedRequests)
            checked == L!ChecksChart(shown.checksPassed, shown.checksFailed)
        IN  /\ L!formatNumber(shown.totalRequests) = Len(input.logins) + Len(input.answers)
            /\ L!formatNumber(shown.failedRequests) = Counted.failed
            /\ L!formatNumber(shown.checksPassed) =
                   3 * Cardinality({i \in DOMAIN input.answers : input.answers[i] = "paid"})
            /\ L!formatNumber(shown.checksFailed) = Counted.fails
            /\ L!formatLatency(shown.avgLatencyMs) = IF latency = 0 THEN "-" ELSE latency
            \* The charts: the parts make a whole, but for rounding, and no bar is too high.
            /\ health.successful + health.failed \in 99..100
            /\ checked.passed + checked.failed \in (IF Counted.passes + Counted.fails = 0
                                                    THEN {0} ELSE 99..100)
            /\ Range(L!LatencyChart(<<shown.avgLatencyMs, shown.maxLatencyMs>>)) \subseteq 3..100

-----------------------------------------------------------------------------
\* What the wallet page shows as the total is what the payer is debited, and what it
\* shows as the amount is what the payee is credited, however the form was filled in.
PayerIsChargedWhatWasShown ==
    (IsInput("form") /\ M!Sent(input)) =>
        LET request == M!buildRequest(input)
            Entered(shown) == M!parseMoneyToMinorUnits(M!formatMoney(shown))
        IN  \A payer, payee \in Wallets :
              LET journal == BuildJournalEntries(payer, payee, request.amount, request.fee,
                                                 request.tax)
              IN  payer # payee =>
                    /\ Net(journal, payer, Len(journal)) = - Entered(M!summary(input).total)
                    /\ Net(journal, payee, Len(journal)) = Entered(M!summary(input).amount)
=============================================================================
