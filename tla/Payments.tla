------------------------------ MODULE Payments ------------------------------
(***************************************************************************)
(* The payment pipeline of the backend: createPayment and the three        *)
(* database transactions it runs (A reserve, B execute, C fail), the       *)
(* pending sweeper and the idempotency clean-up of the worker, all over    *)
(* the tables idempotency_keys, transactions, transaction_events and       *)
(* ledger_entries.                                                         *)
(*                                                                         *)
(* A step is what one process does up to the next row lock it has to wait  *)
(* for, or up to a COMMIT.  PostgreSQL runs at READ COMMITTED: the tables  *)
(* below hold committed rows only, an open transaction shows as the row    *)
(* locks it holds, and a conditional updateMany evaluates its WHERE on the *)
(* row it finds once it owns the lock.                                     *)
(***************************************************************************)
EXTENDS Naturals, Sequences, FiniteSets

CONSTANTS
    Keys,       \* idempotency keys clients use
    Attempts,   \* calls of createPayment; a client retry is another attempt
    Txns,       \* ids for rows of the transactions table
    Hashed,     \* what generateRequestHash covers: payee, amount, type, locking
    Unhashed,   \* the rest of a request: who pays, fee, tax, transaction to reverse
    Sweepers,   \* concurrent runs of the pending sweeper (worker concurrency)
    MaxFaults,  \* bound on sweeper runs that die on a database error
    None

ASSUME ProcessesDistinct ==
    /\ Attempts \cap Sweepers = {}
    /\ None \notin Attempts \cup Sweepers \cup Keys \cup Txns \cup Hashed
ASSUME NoneIsNoAnswer == None \notin {"SUCCESS", "FAILED", "ERROR"}
ASSUME MaxFaultsNat == MaxFaults \in Nat

VARIABLES
    key,      \* key[k]: the idempotency_keys row of k (status "ABSENT": no row)
    txn,      \* txn[t]: the transactions row t, its events and its journals
    keyLock,  \* who holds the row lock of an idempotency key
    txnLock,  \* who holds the row lock of a transaction
    pc,       \* where an attempt is in createPayment
    req,      \* what an attempt was called with, and the row it reserved
    sess,     \* the database session of an attempt's transaction B
    reply,    \* what the attempt's client was told
    swPc,     \* where a sweeper run is
    swTodo,   \* the stale rows a sweeper run still has to process
    faults    \* sweeper runs lost to an error so far

keyVars == <<key, keyLock>>
txnVars == <<txn, txnLock>>
attVars == <<pc, req, sess, reply>>
swVars  == <<swPc, swTodo, faults>>
vars    == <<keyVars, txnVars, attVars, swVars>>

-----------------------------------------------------------------------------
(* Rows and states.                                                        *)

KeyStatus == {"ABSENT", "IN_PROGRESS", "COMPLETED", "FAILED"}
TxnStatus == {"ABSENT", "PENDING", "SUCCESS", "FAILED"}
Event     == {"PAYMENT_INITIATED", "PAYMENT_SUCCEEDED", "PAYMENT_FAILED"}
Outcome   == {"SUCCESS", "FAILED"}

KeyRow == [status : KeyStatus, hash : Hashed \cup {None},
           response : Outcome \cup {None}, expired : BOOLEAN]
TxnRow == [status : TxnStatus, key : Keys \cup {None}, stale : BOOLEAN,
           events : Seq(Event), journals : Nat]

\* The body of a request without its key.
Payload == [hashed : Hashed, rest : Unhashed]
NoPayload == [hashed |-> None, rest |-> None]
Request == [key : Keys \cup {None}, payload : Payload \cup {NoPayload},
            txn : Txns \cup {None}]

NoKey == [status |-> "ABSENT", hash |-> None, response |-> None, expired |-> FALSE]
NoTxn == [status |-> "ABSENT", key |-> None, stale |-> FALSE,
          events |-> <<>>, journals |-> 0]

PcState == {"idle", "reserving", "duplicate", "reclaiming", "reclaimed",
            "executing", "committing", "failing", "failMarked", "done", "crashed"}
SessState == {"none", "open", "marked", "completing", "committed"}
SwState == {"idle", "sweeping", "marked"}
Holder == Attempts \cup Sweepers \cup {None}
Reply == Outcome \cup {None, "ERROR"}

Init ==
    /\ key = [k \in Keys |-> NoKey]
    /\ txn = [t \in Txns |-> NoTxn]
    /\ keyLock = [k \in Keys |-> None]
    /\ txnLock = [t \in Txns |-> None]
    /\ pc = [a \in Attempts |-> "idle"]
    /\ req = [a \in Attempts |-> [key |-> None, payload |-> NoPayload, txn |-> None]]
    /\ sess = [a \in Attempts |-> "none"]
    /\ reply = [a \in Attempts |-> None]
    /\ swPc = [s \in Sweepers |-> "idle"]
    /\ swTodo = [s \in Sweepers |-> {}]
    /\ faults = 0

-----------------------------------------------------------------------------
(* Helpers.                                                                *)

RowsOf(k) == {t \in Txns : txn[t].key = k}

\* The hash of a request leaves out the fee, the tax, the transaction to reverse and the user.
generateRequestHash(p) == p.hashed

\* A fresh IN_PROGRESS reservation, and the PENDING row that goes with it.
Reservation(p) == [status |-> "IN_PROGRESS", hash |-> generateRequestHash(p),
                   response |-> None, expired |-> FALSE]
PendingRow(k)  == [status |-> "PENDING", key |-> k, stale |-> FALSE,
                   events |-> <<"PAYMENT_INITIATED">>, journals |-> 0]

\* The unique constraint of transactions.idempotencyKey lets a row with key k in.
UniqueAllows_NoConstraint(k) == TRUE        \* mutant: no @unique in the schema
UniqueAllows(k) == RowsOf(k) = {}

\* An insert with key k waits for the open transactions that touch rows of k.
InsertNeedNotWait(k) == \A t \in RowsOf(k) : txnLock[t] = None

\* Release of every row lock that process p holds.
Unlocked(lock, p) == [x \in DOMAIN lock |-> IF lock[x] = p THEN None ELSE lock[x]]

Finish(a, r) ==
    /\ pc' = [pc EXCEPT ![a] = "done"]
    /\ reply' = [reply EXCEPT ![a] = r]

-----------------------------------------------------------------------------
(* Transaction A: reservePayment, handleDuplicateReservation.              *)

\* The controller calls createPayment; validatePaymentRequest has accepted.
Submit(a, k, p) ==
    /\ pc[a] = "idle"
    /\ pc' = [pc EXCEPT ![a] = "reserving"]
    /\ req' = [req EXCEPT ![a] = [key |-> k, payload |-> p, txn |-> None]]
    /\ UNCHANGED <<keyVars, txnVars, sess, reply, swVars>>

\* The committed effect of transaction A: both rows and the first event.
Reserve(a, t) ==
    LET k == req[a].key IN
    /\ key[k].status = "ABSENT"
    /\ UniqueAllows(k)
    /\ txn[t].status = "ABSENT"
    /\ key' = [key EXCEPT ![k] = Reservation(req[a].payload)]
    /\ txn' = [txn EXCEPT ![t] = PendingRow(k)]

ReserveNew(a, t) ==
    /\ pc[a] = "reserving"
    /\ Reserve(a, t)
    /\ pc' = [pc EXCEPT ![a] = "executing"]
    /\ req' = [req EXCEPT ![a].txn = t]
    /\ sess' = [sess EXCEPT ![a] = "open"]
    /\ UNCHANGED <<keyLock, txnLock, reply, swVars>>

\* The COMMIT of transaction A lands but its acknowledgement does not: the
\* error is no P2002, so createPayment throws with nobody left to execute.
ReserveAckLost(a, t) ==
    /\ pc[a] = "reserving"
    /\ Reserve(a, t)
    /\ Finish(a, "ERROR")
    /\ UNCHANGED <<keyLock, txnLock, req, sess, swVars>>

\* Either insert raises P2002; transaction A is rolled back and
\* handleDuplicateReservation starts in a transaction of its own.
ReserveDuplicate(a) ==
    LET k == req[a].key IN
    /\ pc[a] = "reserving"
    /\ \/ key[k].status # "ABSENT" /\ keyLock[k] = None
       \/ key[k].status = "ABSENT" /\ ~UniqueAllows(k) /\ InsertNeedNotWait(k)
    /\ pc' = [pc EXCEPT ![a] = "duplicate"]
    /\ UNCHANGED <<keyVars, txnVars, req, sess, reply, swVars>>

\* verifyRequestHash.
SameRequest_Unchecked(a) == key[req[a].key].status # "ABSENT"   \* mutant
SameRequest(a) ==
    /\ key[req[a].key].status # "ABSENT"
    /\ key[req[a].key].hash = generateRequestHash(req[a].payload)

\* The WHERE clause of reclaimIdempotencyReservationTx.
Reclaimable(a) ==
    LET row == key[req[a].key] IN
    /\ SameRequest(a)
    /\ row.status = "FAILED" \/ (row.status = "IN_PROGRESS" /\ row.expired)

\* The stored row is read without a lock: what it says may be old news when
\* the reclaim below runs.
InspectDuplicate(a) ==
    LET row == key[req[a].key] IN
    /\ pc[a] = "duplicate"
    /\ \/ /\ ~SameRequest(a) \/ (row.status = "IN_PROGRESS" /\ ~row.expired)
          /\ Finish(a, "ERROR")
       \/ /\ SameRequest(a) /\ row.status = "COMPLETED"
          /\ Finish(a, row.response)
       \/ /\ Reclaimable(a)
          /\ pc' = [pc EXCEPT ![a] = "reclaiming"]
          /\ UNCHANGED reply
    /\ UNCHANGED <<keyVars, txnVars, req, sess, swVars>>

\* The conditional update, evaluated again under the row lock.

Reclaim(a) ==
    LET k == req[a].key IN
    /\ pc[a] = "reclaiming"
    /\ keyLock[k] = None
    /\ \/ /\ Reclaimable(a)
          /\ keyLock' = [keyLock EXCEPT ![k] = a]
          /\ pc' = [pc EXCEPT ![a] = "reclaimed"]
          /\ UNCHANGED reply
       \/ /\ ~Reclaimable(a)
          /\ Finish(a, "ERROR")
          /\ UNCHANGED keyLock
    /\ UNCHANGED <<key, txnVars, req, sess, swVars>>

\* createPendingTransaction after a reclaim: the insert goes through, or the
\* unique constraint rolls the whole transaction back, reclaim included.
InsertAfterReclaim(a) ==
    LET k == req[a].key IN
    /\ pc[a] = "reclaimed"
    /\ InsertNeedNotWait(k)
    /\ keyLock' = Unlocked(keyLock, a)
    /\ IF UniqueAllows(k)
       THEN \E t \in Txns :
            /\ txn[t].status = "ABSENT"
            /\ key' = [key EXCEPT ![k] = Reservation(req[a].payload)]
            /\ txn' = [txn EXCEPT ![t] = PendingRow(k)]
            /\ pc' = [pc EXCEPT ![a] = "executing"]
            /\ req' = [req EXCEPT ![a].txn = t]
            /\ sess' = [sess EXCEPT ![a] = "open"]
            /\ UNCHANGED reply
       ELSE /\ Finish(a, "ERROR")
            /\ UNCHANGED <<key, txn, req, sess>>
    /\ UNCHANGED <<txnLock, swVars>>

\* A database error or the interactive-transaction timeout before anything
\* was committed; only a P2002 would be handled.
ReserveError(a) ==
    /\ pc[a] \in {"reserving", "duplicate", "reclaiming", "reclaimed"}
    /\ Finish(a, "ERROR")
    /\ keyLock' = Unlocked(keyLock, a)
    /\ UNCHANGED <<key, txnVars, req, sess, swVars>>

-----------------------------------------------------------------------------
(* Transaction B: executePayment.                                          *)

\* Business rules passed and the journal is posted (uncommitted; module
\* Ledger has the detail); markTransactionSuccessful updates the row by id,
\* whatever its status.
MarkSuccess(a) ==
    LET t == req[a].txn IN
    /\ pc[a] = "executing" /\ sess[a] = "open"
    /\ txnLock[t] = None
    /\ txnLock' = [txnLock EXCEPT ![t] = a]
    /\ sess' = [sess EXCEPT ![a] = "marked"]
    /\ UNCHANGED <<keyVars, txn, pc, req, reply, swVars>>

\* completeIdempotencyTx: its WHERE status = IN_PROGRESS is the only guard
\* between a stalled attempt and a transaction the sweeper has failed.
CanComplete_AnyStatus(k) == key[k].status # "ABSENT"     \* mutant: no status in the WHERE
CanComplete(k) == key[k].status = "IN_PROGRESS"

CompleteKey(a) ==
    LET k == req[a].key IN
    /\ pc[a] = "executing" /\ sess[a] = "marked"
    /\ keyLock[k] = None
    /\ \/ /\ CanComplete(k)
          /\ keyLock' = [keyLock EXCEPT ![k] = a]
          /\ sess' = [sess EXCEPT ![a] = "completing"]
          /\ pc' = [pc EXCEPT ![a] = "committing"]
          /\ UNCHANGED txnLock
       \/ /\ ~CanComplete(k)
          /\ txnLock' = Unlocked(txnLock, a)
          /\ sess' = [sess EXCEPT ![a] = "none"]
          /\ pc' = [pc EXCEPT ![a] = "failing"]
          /\ UNCHANGED keyLock
    /\ UNCHANGED <<key, txn, req, reply, swVars>>

\* The row of t with its journal and its event, and the key with its response.
PaidRow(t) == [txn[t] EXCEPT !.status = "SUCCESS",
                             !.journals = @ + 1,
                             !.events = Append(@, "PAYMENT_SUCCEEDED")]
CompletedKey(k) == [key[k] EXCEPT !.status = "COMPLETED", !.response = "SUCCESS"]

\* The COMMIT of transaction B takes effect, whether or not the server
\* process still waits for it.
Commit(a) ==
    LET t == req[a].txn
        k == req[a].key IN
    /\ sess[a] = "completing"
    /\ txn' = [txn EXCEPT ![t] = PaidRow(t)]
    /\ key' = [key EXCEPT ![k] = CompletedKey(k)]
    /\ txnLock' = Unlocked(txnLock, a)
    /\ keyLock' = Unlocked(keyLock, a)
    /\ sess' = [sess EXCEPT ![a] = "committed"]
    /\ UNCHANGED <<pc, req, reply, swVars>>

\* Or the connection broke before the COMMIT arrived.
CommitNeverArrives(a) ==
    /\ sess[a] = "completing"
    /\ txnLock' = Unlocked(txnLock, a)
    /\ keyLock' = Unlocked(keyLock, a)
    /\ sess' = [sess EXCEPT ![a] = "none"]
    /\ UNCHANGED <<key, txn, pc, req, reply, swVars>>

CommitAck(a) ==
    /\ pc[a] = "committing" /\ sess[a] = "committed"
    /\ Finish(a, "SUCCESS")
    /\ UNCHANGED <<keyVars, txnVars, req, sess, swVars>>

\* The server sees an error instead of the acknowledgement and goes on to
\* failPayment, with the outcome of transaction B unknown to it.
CommitAckLost(a) ==
    /\ pc[a] = "committing"
    /\ pc' = [pc EXCEPT ![a] = "failing"]
    /\ UNCHANGED <<keyVars, txnVars, req, sess, reply, swVars>>

\* A business rule, a database error or the timeout ends transaction B.
ExecuteError(a) ==
    /\ pc[a] = "executing"
    /\ txnLock' = Unlocked(txnLock, a)
    /\ sess' = [sess EXCEPT ![a] = "none"]
    /\ pc' = [pc EXCEPT ![a] = "failing"]
    /\ UNCHANGED <<keyVars, txn, req, reply, swVars>>

-----------------------------------------------------------------------------
(* Transaction C: failPayment.                                             *)

\* markTransactionFailed: WHERE status = PENDING; no row, nothing to do.
CanFail_AnyStatus(t) == txn[t].status # "ABSENT"         \* mutant: no status in the WHERE
CanFail(t) == txn[t].status = "PENDING"

FailMark(a) ==
    LET t == req[a].txn IN
    /\ pc[a] = "failing"
    /\ txnLock[t] = None
    /\ \/ /\ CanFail(t)
          /\ txnLock' = [txnLock EXCEPT ![t] = a]
          /\ pc' = [pc EXCEPT ![a] = "failMarked"]
          /\ UNCHANGED reply
       \/ /\ ~CanFail(t)
          /\ Finish(a, "ERROR")
          /\ UNCHANGED txnLock
    /\ UNCHANGED <<keyVars, txn, req, sess, swVars>>

\* The row of t as failed, with its event; the key as k's updateMany leaves it.
FailedRow(t) == [txn[t] EXCEPT !.status = "FAILED",
                               !.events = Append(@, "PAYMENT_FAILED")]
FailedKey(k) ==
    IF key[k].status = "IN_PROGRESS" THEN [key[k] EXCEPT !.status = "FAILED"]
                                     ELSE key[k]

FailCommit(a) ==
    LET t == req[a].txn
        k == req[a].key IN
    /\ pc[a] = "failMarked"
    /\ keyLock[k] = None
    /\ txn' = [txn EXCEPT ![t] = FailedRow(t)]
    /\ key' = [key EXCEPT ![k] = FailedKey(k)]
    /\ txnLock' = Unlocked(txnLock, a)
    /\ Finish(a, "ERROR")
    /\ UNCHANGED <<keyLock, req, sess, swVars>>

\* failPayment itself fails: logged, and the first error is rethrown.
FailError(a) ==
    /\ pc[a] \in {"failing", "failMarked"}
    /\ txnLock' = IF pc[a] = "failMarked" THEN Unlocked(txnLock, a) ELSE txnLock
    /\ Finish(a, "ERROR")
    /\ UNCHANGED <<keyVars, txn, req, sess, swVars>>

\* The server process dies with every attempt in flight.  PostgreSQL rolls
\* the open transactions back; one whose COMMIT is under way stays in doubt.
InFlight == {a \in Attempts : pc[a] \notin {"idle", "done", "crashed"}}
LosesLocks(p) == p \in InFlight /\ sess[p] # "completing"

Crash ==
    /\ InFlight # {}
    /\ pc' = [a \in Attempts |-> IF a \in InFlight THEN "crashed" ELSE pc[a]]
    /\ sess' = [a \in Attempts |->
                  IF sess[a] \in {"open", "marked"} THEN "none" ELSE sess[a]]
    /\ keyLock' = [k \in Keys |-> IF LosesLocks(keyLock[k]) THEN None ELSE keyLock[k]]
    /\ txnLock' = [t \in Txns |-> IF LosesLocks(txnLock[t]) THEN None ELSE txnLock[t]]
    /\ UNCHANGED <<key, txn, req, reply, swVars>>

-----------------------------------------------------------------------------
(* The worker: runPendingSweeper and runIdempotencyCleanup.                *)

\* findStalePendingTransactions: PENDING for more than three minutes.
StalePending_Fresh == {t \in Txns : txn[t].status = "PENDING" /\ ~txn[t].stale} \* mutant: gt for lt
StalePending == {t \in Txns : txn[t].status = "PENDING" /\ txn[t].stale}

SweepStart(s) ==
    /\ swPc[s] = "idle"
    /\ StalePending # {}
    /\ swPc' = [swPc EXCEPT ![s] = "sweeping"]
    /\ swTodo' = [swTodo EXCEPT ![s] = StalePending]
    /\ UNCHANGED <<keyVars, txnVars, attVars, faults>>

\* tryMarkTransactionFailed: the row may have been finalised since it was listed.
SweepMark(s, t) ==
    /\ swPc[s] = "sweeping" /\ t \in swTodo[s]
    /\ txnLock[t] = None
    /\ \/ /\ CanFail(t)
          /\ txnLock' = [txnLock EXCEPT ![t] = s]
          /\ swPc' = [swPc EXCEPT ![s] = "marked"]
          /\ UNCHANGED swTodo
       \/ /\ ~CanFail(t)
          /\ swTodo' = [swTodo EXCEPT ![s] = @ \ {t}]
          /\ UNCHANGED <<txnLock, swPc>>
    /\ UNCHANGED <<keyVars, txn, attVars, faults>>

\* completeFailedIdempotency: the key is COMPLETED with a FAILED response, so
\* that a retry is answered from it, unlike the key failPayment leaves behind.
SweptKey_AsSuccess(k) ==        \* mutant: the response of the success path
    IF key[k].status = "IN_PROGRESS"
    THEN [key[k] EXCEPT !.status = "COMPLETED", !.response = "SUCCESS"]
    ELSE key[k]
SweptKey_Reason(k) ==           \* mutant: the reason where the status belongs
    IF key[k].status = "IN_PROGRESS"
    THEN [key[k] EXCEPT !.status = "COMPLETED", !.response = "PENDING_TIMEOUT"]
    ELSE key[k]
SweptKey(k) ==
    IF key[k].status = "IN_PROGRESS"
    THEN [key[k] EXCEPT !.status = "COMPLETED", !.response = "FAILED"]
    ELSE key[k]

SweepCommit(s, t) ==
    LET k == txn[t].key IN
    /\ swPc[s] = "marked" /\ txnLock[t] = s
    /\ keyLock[k] = None
    /\ txn' = [txn EXCEPT ![t] = FailedRow(t)]
    /\ key' = [key EXCEPT ![k] = SweptKey(k)]
    /\ txnLock' = Unlocked(txnLock, s)
    /\ swPc' = [swPc EXCEPT ![s] = "sweeping"]
    /\ swTodo' = [swTodo EXCEPT ![s] = @ \ {t}]
    /\ UNCHANGED <<keyLock, attVars, faults>>

SweepDone(s) ==
    /\ swPc[s] = "sweeping" /\ swTodo[s] = {}
    /\ swPc' = [swPc EXCEPT ![s] = "idle"]
    /\ UNCHANGED <<keyVars, txnVars, attVars, swTodo, faults>>

\* One error ends the run and drops the rest of the batch; a crash of the
\* worker does the same.  Bounded by MaxFaults.
SweepError(s) ==
    /\ swPc[s] # "idle"
    /\ faults < MaxFaults
    /\ faults' = faults + 1
    /\ txnLock' = Unlocked(txnLock, s)
    /\ swPc' = [swPc EXCEPT ![s] = "idle"]
    /\ swTodo' = [swTodo EXCEPT ![s] = {}]
    /\ UNCHANGED <<keyVars, txn, attVars>>

\* deleteExpiredIdempotencyKeys: one statement for all expired terminal keys.
Expired_AnyStatus == {k \in Keys : key[k].expired}      \* mutant: no status in the WHERE
Expired == {k \in Keys : key[k].expired /\ key[k].status \in {"COMPLETED", "FAILED"}}

Cleanup ==
    /\ Expired # {}
    /\ \A k \in Expired : keyLock[k] = None
    /\ key' = [k \in Keys |-> IF k \in Expired THEN NoKey ELSE key[k]]
    /\ UNCHANGED <<keyLock, txnVars, attVars, swVars>>

-----------------------------------------------------------------------------
(* Time.  A row is stale after three minutes (PENDING_TIMEOUT_MINUTES); a  *)
(* key expires after fifteen, when the row written with it is long stale.  *)

BecomeStale(t) ==
    /\ txn[t].status # "ABSENT" /\ ~txn[t].stale
    /\ txn' = [txn EXCEPT ![t].stale = TRUE]
    /\ UNCHANGED <<keyVars, txnLock, attVars, swVars>>

Expire(k) ==
    /\ key[k].status # "ABSENT" /\ ~key[k].expired
    /\ \A t \in RowsOf(k) : txn[t].stale
    /\ key' = [key EXCEPT ![k].expired = TRUE]
    /\ UNCHANGED <<keyLock, txnVars, attVars, swVars>>

-----------------------------------------------------------------------------
AttemptStep(a) ==
    \/ \E t \in Txns : ReserveNew(a, t) \/ ReserveAckLost(a, t)
    \/ ReserveDuplicate(a) \/ InspectDuplicate(a) \/ Reclaim(a)
    \/ InsertAfterReclaim(a) \/ ReserveError(a)
    \/ MarkSuccess(a) \/ CompleteKey(a) \/ CommitAck(a) \/ CommitAckLost(a)
    \/ ExecuteError(a) \/ FailMark(a) \/ FailCommit(a) \/ FailError(a)

CommitResolves(a) == Commit(a) \/ CommitNeverArrives(a)

SweeperStep(s) ==
    \/ SweepStart(s) \/ SweepDone(s)
    \/ \E t \in Txns : SweepMark(s, t) \/ SweepCommit(s, t)

\* Every call has been answered and nothing is left to sweep.
Quiescent ==
    /\ \A a \in Attempts : pc[a] \in {"done", "crashed"} /\ sess[a] # "completing"
    /\ \A s \in Sweepers : swPc[s] = "idle"
    /\ \A t \in Txns : txn[t].status # "PENDING"
    /\ UNCHANGED vars

Next ==
    \/ \E a \in Attempts :
         \/ \E k \in Keys, p \in Payload : Submit(a, k, p)
         \/ AttemptStep(a)
         \/ CommitResolves(a)
    \/ Crash
    \/ \E s \in Sweepers : SweeperStep(s) \/ SweepError(s)
    \/ Cleanup
    \/ \E t \in Txns : BecomeStale(t)
    \/ \E k \in Keys : Expire(k)
    \/ Quiescent

Spec == Init /\ [][Next]_vars

(* Fairness.  An attempt that runs keeps taking steps: every statement and *)
(* every lock wait is cut off by the timeout of the interactive            *)
(* transaction.  PostgreSQL settles a COMMIT in doubt.  The scheduler      *)
(* starts the sweeper every minute, and time passes.                       *)
Fairness ==
    /\ \A a \in Attempts : WF_vars(AttemptStep(a)) /\ WF_vars(CommitResolves(a))
    /\ \A s \in Sweepers : WF_vars(SweeperStep(s))
    /\ \A t \in Txns : WF_vars(BecomeStale(t))

FairSpec == Spec /\ Fairness

-----------------------------------------------------------------------------
(* Properties.                                                             *)

TypeOK ==
    /\ key \in [Keys -> KeyRow]
    /\ txn \in [Txns -> TxnRow]
    /\ keyLock \in [Keys -> Holder]
    /\ txnLock \in [Txns -> Holder]
    /\ pc \in [Attempts -> PcState]
    /\ req \in [Attempts -> Request]
    /\ \A a \in Attempts : pc[a] # "idle" => req[a].key \in Keys
    /\ sess \in [Attempts -> SessState]
    /\ reply \in [Attempts -> Reply]
    /\ swPc \in [Sweepers -> SwState]
    /\ swTodo \in [Sweepers -> SUBSET Txns]
    /\ faults \in 0..MaxFaults

\* However often a key is retried, by however many attempts at once, before or
\* after the sweeper, a crash, a lost acknowledgement or the clean-up of the
\* key, money moves at most once for it.
OneTransferPerKey ==
    \A t, u \in Txns :
        /\ txn[t].journals <= 1
        /\ (txn[t].journals = 1 /\ txn[u].journals = 1 /\ txn[t].key = txn[u].key)
             => t = u

\* The events a transaction of status st has gone through.
History(st) ==
    CASE st = "ABSENT"  -> <<>>
      [] st = "PENDING" -> <<"PAYMENT_INITIATED">>
      [] st = "SUCCESS" -> <<"PAYMENT_INITIATED", "PAYMENT_SUCCEEDED">>
      [] st = "FAILED"  -> <<"PAYMENT_INITIATED", "PAYMENT_FAILED">>

\* The three records of an outcome agree: the status column, the ledger (a
\* journal exactly for SUCCESS) and the event log (one final event, the
\* matching one), although executor, failPayment and sweeper race for the row.
RecordsAgree ==
    \A t \in Txns :
        /\ txn[t].journals = IF txn[t].status = "SUCCESS" THEN 1 ELSE 0
        /\ txn[t].events = History(txn[t].status)

\* What a key row may say, given the status of the transaction reserved with it.
KeyFits(row, st) ==
    /\ st = "PENDING" => row.status = "IN_PROGRESS"
    /\ st = "SUCCESS" => \/ row.status = "ABSENT"
                         \/ row.status = "COMPLETED" /\ row.response = "SUCCESS"
    /\ st = "FAILED"  => \/ row.status \in {"ABSENT", "FAILED"}
                         \/ row.status = "COMPLETED" /\ row.response = "FAILED"

\* The idempotency table and the transactions table never contradict each
\* other in a committed state: no payment in progress whose key could be
\* cleaned up or replayed, no stored answer that the transaction row denies.
KeyMatchesTransaction ==
    /\ \A t \in Txns : txn[t].status # "ABSENT" => KeyFits(key[txn[t].key], txn[t].status)
    /\ \A k \in Keys : key[k].status # "ABSENT" => RowsOf(k) # {}

\* A client that is told an outcome, by its own attempt or by the replay of a
\* stored response, is told the one the database holds, also much later.
RepliesTruthful ==
    \A a \in Attempts : reply[a] \in Outcome =>
        \E t \in RowsOf(req[a].key) : txn[t].status = reply[a]

\* Requests that are told the outcome of one key agree in every field that
\* verifyRequestHash compares, also when they raced for the reservation, for the
\* reclaim of a failed one, or came back after it was swept.
AnswersOneHash ==
    \A a, b \in Attempts :
        (/\ reply[a] \in Outcome /\ reply[b] \in Outcome
         /\ req[a].key = req[b].key)
            => generateRequestHash(req[a].payload) = generateRequestHash(req[b].payload)

\* What verifyRequestHash says it refuses, "Idempotency key reused with a
\* different request payload.": requests that are told the outcome of one key
\* were the same request.
AnswersOnePayload ==
    \A a, b \in Attempts :
        (/\ reply[a] \in Outcome /\ reply[b] \in Outcome
         /\ req[a].key = req[b].key) => req[a].payload = req[b].payload

Final(st) == st \in {"SUCCESS", "FAILED"}

\* A finalised transaction is never finalised again, by anyone: neither the
\* unconditional markTransactionSuccessful of a stalled attempt nor a late
\* sweeper or failPayment changes its status, its events or its journals.
FinalStaysFinal ==
    [][\A t \in Txns : Final(txn[t].status) =>
          [txn[t] EXCEPT !.stale = TRUE] = [txn'[t] EXCEPT !.stale = TRUE]]_vars

\* No payment stays PENDING for ever, whatever happened to the server that
\* started it: the sweeper gets to it (this needs FairSpec).
PendingIsSettled ==
    \A t \in Txns : (txn[t].status = "PENDING") ~> Final(txn[t].status)

\* What payment.service.ts says at "Previous attempt failed -> reclaim
\* reservation": once the reclaim of a failed key is done, the insert of the new
\* transaction row can go through, so that the retry is a payment of its own.
ReclaimGoesThrough ==
    \A a \in Attempts :
        pc[a] = "reclaimed" /\ key[req[a].key].status = "FAILED"
            => UniqueAllows(req[a].key)

-----------------------------------------------------------------------------
(* The promise of POST /payments, and how the tables represent it.         *)

Statuses(k) == {txn[t].status : t \in RowsOf(k)}

StatusOf(k) == IF RowsOf(k) = {} THEN "ABSENT" ELSE CHOOSE st \in Statuses(k) : TRUE

\* Every posting of a journal for k counts, on one row or on several.
TransfersOf(k) == Cardinality(UNION {{t} \X (1..txn[t].journals) : t \in RowsOf(k)})

ToldFor(k) == {reply[a] : a \in {b \in Attempts : req[b].key = k}} \cap Outcome

Promise == INSTANCE IdempotentPayment WITH
    status    <- [k \in Keys |-> StatusOf(k)],
    transfers <- [k \in Keys |-> TransfersOf(k)],
    told      <- [k \in Keys |-> ToldFor(k)]

\* The payment pipeline implements IdempotentPayment.
KeepsPromise == Promise!Spec
=============================================================================
