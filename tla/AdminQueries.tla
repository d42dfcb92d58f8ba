---------------------------- MODULE AdminQueries ----------------------------
(***************************************************************************)
(* The read side of the backend: for every list endpoint the controller    *)
(* (which parameters it refuses) and the query (which rows it finds, how   *)
(* they are sorted, paged, counted and formatted), and the plain reads.    *)
(* Rows are records; every table is a set of them.                         *)
(***************************************************************************)
EXTENDS Listing

CONSTANTS
    SystemType,     \* SystemType[a]: the system type of account a, or Unset
    Owner           \* Owner[a]: the user of account a, or Unset

TransactionType   == {"TRANSFER", "DEPOSIT", "WITHDRAWAL", "REVERSAL"}
TransactionStatus == {"PENDING", "PROCESSING", "SUCCESS", "FAILED", "REVERSED"}
EventType         == {"PAYMENT_INITIATED", "PAYMENT_SUCCEEDED", "PAYMENT_FAILED",
                      "PAYMENT_REVERSED", "LOCK_ACQUIRED"}
IdempotencyStatus == {"IN_PROGRESS", "COMPLETED", "FAILED"}
AccountStatus     == {"ACTIVE", "FROZEN", "CLOSE"}
AccountType       == {"USER_WALLET", "SYSTEM"}
EntryType         == {"DEBIT", "CREDIT"}
JobType           == {"UNKNOWN", "PENDING_SWEEPER", "LEDGER_CONSISTENCY", "ORPHAN_DETECTOR",
                      "IDEMPOTENCY_CLEANUP", "ACCOUNT_SANITY"}
RunStatus         == {"RUNNING", "SUCCESS", "FAILED", "PARTIAL_SUCCESS"}

\* A parameter is refused with 400 unless it is absent or a member of its enum.
IsOneOf(param, enum) == param = Unset \/ param \in enum
\* A date that JavaScript cannot parse is "invalid"; all endpoints check both.
DatesParse(q) == "invalid" \notin {q.from, q.to}

-----------------------------------------------------------------------------
(* Transactions.                                                           *)

AccountName(a) ==
    IF SystemType[a] # Unset THEN SystemType[a]
    ELSE IF Owner[a] # Unset THEN Owner[a] ELSE "Unknown Account"

InDirection(legs, direction) ==
    Filtered(legs, {i \in DOMAIN legs : legs[i].direction = direction})
OfWallets(legs) == Filtered(legs, {i \in DOMAIN legs : SystemType[legs[i].account] = Unset})

\* The first leg of a wallet, or else the first leg, or else none.
MainLeg(legs) == IF OfWallets(legs) # <<>> THEN Head(OfWallets(legs))
                 ELSE IF legs # <<>> THEN Head(legs) ELSE Unset
MainFrom(t) == MainLeg(InDirection(t.legs, "DEBIT"))
MainTo(t)   == MainLeg(InDirection(t.legs, "CREDIT"))

Party(leg) == IF leg = Unset THEN Unset
              ELSE [leg |-> leg.id, account |-> leg.account, name |-> AccountName(leg.account),
                    amount |-> leg.amount, isSystemAccount |-> SystemType[leg.account] # Unset]

AdditionalEntries_ByAccount(t) ==   \* mutant: the main legs are told by their account
    Filtered(t.legs, {i \in DOMAIN t.legs : \A main \in {MainFrom(t), MainTo(t)} \ {Unset} :
                                               t.legs[i].account # main.account})
AdditionalEntries(t) ==
    Filtered(t.legs, {i \in DOMAIN t.legs : t.legs[i] \notin {MainFrom(t), MainTo(t)}})

FormatTransaction(t) ==
    [id |-> t.id, at |-> t.at, type |-> t.type, status |-> t.status, initiator |-> t.user,
     from |-> Party(MainFrom(t)), to |-> Party(MainTo(t)),
     additional |-> AdditionalEntries(t), ledgerEntryCount |-> Len(t.legs)]

WhereTransaction(q, t) ==
    /\ Given(q.transactionId, t.id) /\ Given(q.userId, t.user)
    /\ Given(q.status, t.status) /\ Given(q.type, t.type)
    /\ InRange(q, t.at)

getTransactionsForAdmin(q, found, counted) ==
    LET page == PageOf({t \in found : WhereTransaction(q, t)},
                       {t \in counted : WhereTransaction(q, t)}, q)
    IN  [page EXCEPT !.rows = [i \in DOMAIN page.rows |-> FormatTransaction(page.rows[i])]]

getTransactionsForAdminController(q, found, counted) ==
    IF IsOneOf(q.status, TransactionStatus) /\ IsOneOf(q.type, TransactionType) /\ DatesParse(q)
    THEN Ok(getTransactionsForAdmin(q, found, counted)) ELSE BadRequest

\* The plain reads.
getTransactionById(id, transactions) ==
    IF \E t \in transactions : t.id = id
    THEN Ok([transaction |-> CHOOSE t \in transactions : t.id = id])
    ELSE [kind |-> "notFound"]
getTransactionsByUserId(user, transactions) == Newest({t \in transactions : t.user = user})
getTransactionsByStatus(status, transactions) == Newest({t \in transactions : t.status = status})
getRecentTransactions(limit, transactions) == Slice(Newest(transactions), 1, limit)

-----------------------------------------------------------------------------
(* Events of transactions.                                                 *)

WhereEvent(q, e) == /\ Given(q.transactionId, e.transaction) /\ Given(q.event, e.event)
                    /\ InRange(q, e.at)

getTransactionEventsForAdmin(q, found, counted) ==
    PageOf({e \in found : WhereEvent(q, e)}, {e \in counted : WhereEvent(q, e)}, q)

getTransactionEventsForAdminController(q, found, counted) ==
    IF IsOneOf(q.event, EventType) /\ DatesParse(q)
    THEN Ok(getTransactionEventsForAdmin(q, found, counted)) ELSE BadRequest

getTransactionEvents(id, events) == Oldest({e \in events : e.transaction = id})

-----------------------------------------------------------------------------
(* Ledger entries.                                                         *)

WhereEntry(q, e) == /\ Given(q.accountId, e.account) /\ Given(q.transactionId, e.transaction)
                    /\ Given(q.direction, e.direction) /\ InRange(q, e.at)

getLedgerEntriesForAdmin(q, found, counted) ==
    PageOf({e \in found : WhereEntry(q, e)}, {e \in counted : WhereEntry(q, e)}, q)

getLedgerEntriesForAdminController(q, found, counted) ==
    IF IsOneOf(q.direction, EntryType) /\ DatesParse(q)
    THEN Ok(getLedgerEntriesForAdmin(q, found, counted)) ELSE BadRequest

getLedgerEntriesByTransactionId(id, entries) == Oldest({e \in entries : e.transaction = id})
getLedgerEntriesByAccountId(account, entries) == Oldest({e \in entries : e.account = account})
getLatestLedgerEntry(account, entries) ==
    LET own == Newest({e \in entries : e.account = account})
    IN  IF own = <<>> THEN [kind |-> "notFound"] ELSE Ok([entry |-> Head(own)])

\* A user's own movements.  A filter on the type carries the one on the status
\* along, because both are conditions on the joined transaction.
WhereMine(account, q, e) == /\ e.account = account /\ Given(q.direction, e.direction)
                            /\ Given(q.status, e.status) /\ Given(q.type, e.type)
                            /\ InRange(q, e.at)

\* The counterparts listed under an entry; who receives money is not shown the
\* system accounts, except the deposit account.
Counterparts_All(entry, legs) ==    \* mutant: the own leg is listed too
    Filtered(legs, {i \in DOMAIN legs : ~ /\ entry.direction = "CREDIT"
                                          /\ SystemType[legs[i].account] \notin {Unset, "DEPOSIT"}})
Counterparts(entry, legs) ==
    Filtered(legs, {i \in DOMAIN legs :
        /\ legs[i].id # entry.id
        /\ ~ /\ entry.direction = "CREDIT"
             /\ SystemType[legs[i].account] \notin {Unset, "DEPOSIT"}})

\* The name, the sign (always that of the user's own entry) and the amount
\* (always that of the counterpart's leg) shown for one counterpart.
ShownRow(entry, l) ==
    [name |-> IF l.account = entry.account THEN "Self Transfer"
              ELSE IF SystemType[l.account] # Unset THEN SystemType[l.account]
              ELSE IF Owner[l.account] # Unset THEN Owner[l.account] ELSE "Unknown",
     accountId |-> IF SystemType[l.account] # Unset THEN Unset ELSE l.account,
     direction |-> entry.direction, amount |-> l.amount]

Movement(entry, legs) ==
    LET others == Counterparts(entry, legs)
    IN  [transaction |-> entry.transaction, at |-> entry.at, type |-> entry.type,
         status |-> entry.status, balanceAfter |-> entry.balanceAfter,
         rows |-> [i \in DOMAIN others |-> ShownRow(entry, others[i])]]

getMyTransactions(account, q, found, counted) ==
    LET page == PageOf({e \in found : WhereMine(account, q, e)},
                       {e \in counted : WhereMine(account, q, e)}, [q EXCEPT !.order = "desc"])
        LegsOf(e) == Oldest({l \in found : l.transaction = e.transaction})
    IN  [page EXCEPT !.rows = [i \in DOMAIN page.rows |-> Movement(page.rows[i],
                                                                LegsOf(page.rows[i]))]]

\* parseEntryType, parseTransactionStatus and parseTransactionType throw, which
\* the handler answers with 500; a date that does not parse fails in the query.
getMyTransactionsController(account, q, found, counted) ==
    IF account = Unset THEN BadRequest
    ELSE IF /\ IsOneOf(q.direction, EntryType) /\ IsOneOf(q.status, TransactionStatus)
            /\ IsOneOf(q.type, TransactionType) /\ DatesParse(q)
    THEN Ok(getMyTransactions(account, q, found, counted)) ELSE Failed

-----------------------------------------------------------------------------
(* Accounts.                                                               *)

WhereAccount(q, a) == /\ Given(q.accountId, a.id) /\ Given(q.status, a.status)
                      /\ Given(q.type, a.type) /\ InRange(q, a.at)

\* Sorted by creation alone: rows of one instant would come in any order.
getAccountsForAdmin(q, found, counted) ==
    PageOf({a \in found : WhereAccount(q, a)}, {a \in counted : WhereAccount(q, a)}, q)

getAccountsForAdminController(q, found, counted) ==
    IF IsOneOf(q.status, AccountStatus) /\ IsOneOf(q.type, AccountType) /\ DatesParse(q)
    THEN Ok(getAccountsForAdmin(q, found, counted)) ELSE BadRequest

\* The search index selects the name and the e-mail of the user, not the id.
getAccountSearchIndexForAdmin(accounts) ==
    LET rows == Newest(accounts)
    IN  [i \in DOMAIN rows |-> [id |-> rows[i].id, name |-> Owner[rows[i].id], userId |-> Unset]]

-----------------------------------------------------------------------------
(* Idempotency keys and reconciliation runs.                               *)

WhereKey(q, k, now) ==
    /\ Given(q.key, k.id) /\ Given(q.status, k.status) /\ InRange(q, k.at)
    /\ q.expired # Unset => (q.expired = "true") = (k.expiresAt < now)

getIdempotencyKeysForAdmin(q, found, counted, now) ==
    PageOf({k \in found : WhereKey(q, k, now)}, {k \in counted : WhereKey(q, k, now)}, q)

getIdempotencyKeysForAdminController(q, found, counted, now) ==
    IF /\ IsOneOf(q.status, IdempotencyStatus) /\ IsOneOf(q.expired, {"true", "false"})
       /\ DatesParse(q)
    THEN Ok(getIdempotencyKeysForAdmin(q, found, counted, now)) ELSE BadRequest

WhereRun(q, r) ==
    /\ Given(q.jobType, r.jobType) /\ Given(q.status, r.status) /\ InRange(q, r.at)
    /\ q.hasAnomalies # Unset => (q.hasAnomalies = "true") = (r.anomaliesFound > 0)

getReconciliationRunsForAdmin(q, found, counted) ==
    PageOf({r \in found : WhereRun(q, r)}, {r \in counted : WhereRun(q, r)}, q)

getReconciliationRunsForAdminController(q, found, counted) ==
    IF /\ IsOneOf(q.jobType, JobType) /\ IsOneOf(q.status, RunStatus)
       /\ IsOneOf(q.hasAnomalies, {"true", "false"}) /\ DatesParse(q)
    THEN Ok(getReconciliationRunsForAdmin(q, found, counted)) ELSE BadRequest
=============================================================================
