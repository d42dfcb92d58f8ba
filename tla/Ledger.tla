------------------------------- MODULE Ledger -------------------------------
(***************************************************************************)
(* Transaction B of a payment in full: the business rules, the row locks   *)
(* on the accounts, postJournal, and the refund of an earlier payment,     *)
(* racing with each other and with the administrators who freeze, unfreeze *)
(* and close accounts.                                                     *)
(*                                                                         *)
(* A transactions row is executed by one process (module Payments says why *)
(* and how it is reserved and settled); here the row and its executor have *)
(* one name.  A step is what a process does up to the next row lock it has *)
(* to wait for; the tables hold committed rows only.                       *)
(***************************************************************************)
EXTENDS Journal

CONSTANTS
    Deposit,     \* SYSTEM_ACCOUNTS.DEPOSIT, the payer of every deposit
    Withdrawal,  \* SYSTEM_ACCOUNTS.WITHDRAWAL, the recipient of every withdrawal
    Txns,        \* rows of the transactions table
    Requests,    \* what createPayment may be called with
    Admins,      \* status changes that may be under way at once
    Managed,     \* accounts administrators change (bounds the status changes)
    Opening,     \* Opening[a]: the balance of a that older entries add up to
    None

RequestRow == [type : {"TRANSFER", "DEPOSIT", "WITHDRAWAL", "REVERSAL"},
               from : Wallets, to : Accounts \cup {None}, amount : Int,
               fee : Int, tax : Int, of : Txns \cup {None},
               locking : {"PESSIMISTIC", "OPTIMISTIC"}]

ASSUME AccountsOrdered == Accounts \subseteq Nat
ASSUME SystemRows == {Deposit, Withdrawal} \subseteq SystemAccounts
\* validatePaymentRequest: nothing forbids a payment that is no refund to name a
\* transaction to reverse.
ValidRequest(r) == IF r.type = "REVERSAL" THEN r.of \in Txns
                                          ELSE r.amount > 0 /\ r.to \in Accounts

ASSUME RequestsOK == Requests \subseteq {r \in RequestRow : ValidRequest(r)}
ASSUME ManagedOK == Managed \subseteq Accounts
ASSUME OpeningOK == Opening \in [Accounts -> Int] /\ \A w \in Wallets : Opening[w] >= 0
ASSUME NoneIsNobody == None \notin Txns \cup Accounts /\ None \notin Requests
ASSUME FiniteTables == IsFiniteSet(Accounts) /\ IsFiniteSet(Txns)

VARIABLES
    acct,      \* acct[a]: status, cachedBalance and lastLedgerEntryId of a
    acctLock,  \* who holds the row locks of an account and its balance
    txn,       \* txn[x]: status and amount of row x, and its ledger entries
    txnLock,   \* who holds the row lock of a transaction
    pc,        \* where the executor of x is
    req,       \* what it was called with
    draft,     \* the journal it is going to post
    seen,      \* the account rows it has read under its locks
    adm        \* what an administrator has read and is about to write

vars == <<acct, acctLock, txn, txnLock, pc, req, draft, seen, adm>>

AccountStatus == {"ACTIVE", "FROZEN", "CLOSE"}
NoPointer == <<None, 0>>
AccountRow == [status : AccountStatus, balance : Int,
               last : ((Txns \cup {None}) \X Nat)]
Posting == [account : Accounts, type : EntryType, amount : Int, balanceAfter : Int]
TxnRow == [status : {"ABSENT", "PENDING", "SUCCESS", "FAILED"}, amount : Int,
           entries : Seq(Posting)]
PcState == {"idle", "building", "locking", "failing", "done"}
Change == [account : Managed, to : AccountStatus]
Idle == [account |-> None]

Init ==
    /\ acct = [a \in Accounts |-> [status |-> "ACTIVE", balance |-> Opening[a],
                                   last |-> NoPointer]]
    /\ acctLock = [a \in Accounts |-> None]
    /\ txn = [x \in Txns |-> [status |-> "ABSENT", amount |-> 0, entries |-> <<>>]]
    /\ txnLock = [x \in Txns |-> None]
    /\ pc = [x \in Txns |-> "idle"]
    /\ req = [x \in Txns |-> None]
    /\ draft = [x \in Txns |-> <<>>]
    /\ seen = [x \in Txns |-> <<>>]
    /\ adm = [m \in Admins |-> Idle]

-----------------------------------------------------------------------------
(* Payments.                                                               *)

\* The committed reservation.  Nothing checks yet that the transaction to be
\* reversed exists; it is not this one, whose id nobody knows before.
Start(x, r) ==
    /\ pc[x] = "idle"
    /\ r.of # x
    /\ pc' = [pc EXCEPT ![x] = "building"]
    /\ req' = [req EXCEPT ![x] = r]
    /\ txn' = [txn EXCEPT ![x].status = "PENDING", ![x].amount = r.amount]
    /\ UNCHANGED <<acct, acctLock, txnLock, draft, seen, adm>>

Payer(r) == IF r.type = "DEPOSIT" THEN Deposit ELSE r.from
Payee(r) == IF r.type = "WITHDRAWAL" THEN Withdrawal ELSE r.to

\* validateJournal and loadLockedAccounts accept the journal.
Postable(r, es) == ValidateJournal(es) /\ r.locking = "PESSIMISTIC"

\* Business rules of payment, deposit and withdrawal, on rows read without a
\* lock; then the journal is built.
Build(x) ==
    LET r  == req[x]
        es == BuildJournalEntries(Payer(r), Payee(r), r.amount, r.fee, r.tax) IN
    /\ pc[x] = "building" /\ r.type # "REVERSAL"
    /\ \/ /\ acct[Payer(r)].status = "ACTIVE" /\ acct[Payee(r)].status = "ACTIVE"
          /\ Postable(r, es)
          /\ draft' = [draft EXCEPT ![x] = es]
          /\ pc' = [pc EXCEPT ![x] = "locking"]
       \/ /\ ~(acct[Payer(r)].status = "ACTIVE" /\ acct[Payee(r)].status = "ACTIVE"
               /\ Postable(r, es))
          /\ pc' = [pc EXCEPT ![x] = "failing"]
          /\ UNCHANGED draft
    /\ UNCHANGED <<acct, acctLock, txn, txnLock, req, seen, adm>>

\* SELECT ... FOR UPDATE of the original serialises its refunds.
OriginalFree_NoLock(o) == TRUE                  \* mutant: a plain SELECT
OriginalFree(o) == txnLock[o] = None

\* The original may be refunded: it succeeded, is no refund itself, has no
\* successful refund, and its entries allow it.
CanRefund(o) ==
    /\ txn[o].status = "SUCCESS"
    /\ req[o].type # "REVERSAL"
    /\ ~\E y \in Txns : req[y] # None /\ req[y].of = o /\ txn[y].status = "SUCCESS"
    /\ Refundable(txn[o].entries, txn[o].amount)

\* The refund also writes its own row: the amount is that of the original.
LockOriginal(x) ==
    LET o  == req[x].of
        es == RefundEntries(txn[o].entries) IN
    /\ pc[x] = "building" /\ req[x].type = "REVERSAL"
    /\ OriginalFree(o)
    /\ \/ /\ CanRefund(o)
          /\ Postable(req[x], es)
          /\ txnLock' = [txnLock EXCEPT ![o] = x, ![x] = x]
          /\ draft' = [draft EXCEPT ![x] = es]
          /\ pc' = [pc EXCEPT ![x] = "locking"]
       \/ /\ ~(CanRefund(o) /\ Postable(req[x], es))
          /\ pc' = [pc EXCEPT ![x] = "failing"]
          /\ UNCHANGED <<txnLock, draft>>
    /\ UNCHANGED <<acct, acctLock, txn, req, seen, adm>>

-----------------------------------------------------------------------------
(* postJournal.                                                            *)

\* loadAndLockAccounts: one row after the other, ORDER BY a.id, each read once
\* its lock is granted.
Unlocked(x) == AccountsOf(draft[x]) \ DOMAIN seen[x]

NextToLock_AnyOrder(x) == Unlocked(x)           \* mutant: no ORDER BY
NextToLock(x) == {a \in Unlocked(x) : \A b \in Unlocked(x) : a <= b}

Granted_NoWait(a) == TRUE                       \* mutant: no FOR UPDATE
Granted(a) == acctLock[a] = None

LockAccount(x, a) ==
    /\ pc[x] = "locking"
    /\ a \in NextToLock(x)
    /\ Granted(a)
    /\ acctLock' = [acctLock EXCEPT ![a] = x]
    /\ seen' = [seen EXCEPT ![x] = [b \in DOMAIN @ \cup {a} |->
                                        IF b = a THEN acct[a] ELSE @[b]]]
    /\ UNCHANGED <<acct, txn, txnLock, pc, req, draft, adm>>

\* The end of transaction B: locks and memory of the executor are gone.
Released(lock, x) == [i \in DOMAIN lock |-> IF lock[i] = x THEN None ELSE lock[i]]

Leave(x, where) ==
    /\ pc' = [pc EXCEPT ![x] = where]
    /\ acctLock' = Released(acctLock, x)
    /\ txnLock' = Released(txnLock, x)
    /\ draft' = [draft EXCEPT ![x] = <<>>]
    /\ seen' = [seen EXCEPT ![x] = <<>>]

\* validateBalances, on the rows read under the locks.
MayPost_Balances(x) ==                          \* mutant: the statuses are not looked at
    SufficientBalances(draft[x], [a \in DOMAIN seen[x] |-> seen[x][a].balance])
MayPost(x) ==
    /\ \A a \in DOMAIN seen[x] : seen[x][a].status = "ACTIVE"
    /\ SufficientBalances(draft[x], [a \in DOMAIN seen[x] |-> seen[x][a].balance])

Prepared_Unstamped(x) ==                        \* mutant: the entries as they were requested
    [PrepareLedgerEntries(draft[x], [a \in DOMAIN seen[x] |-> seen[x][a].balance])
        EXCEPT !.entries = draft[x]]
Prepared(x) ==
    PrepareLedgerEntries(draft[x], [a \in DOMAIN seen[x] |-> seen[x][a].balance])

LastEntryOf(es, a) == CHOOSE i \in DOMAIN es :
                        es[i].account = a /\ \A j \in DOMAIN es : es[j].account = a => j <= i

\* Entries, balances and outcome are written and committed; a refund takes its
\* amount from the original.
Post(x) ==
    LET done == Prepared(x) IN
    /\ pc[x] = "locking"
    /\ Unlocked(x) = {}
    /\ txnLock[x] \in {None, x}
    /\ MayPost(x)
    /\ txn' = [txn EXCEPT ![x] =
                 [status |-> "SUCCESS", entries |-> done.entries,
                  amount |-> IF req[x].type = "REVERSAL" THEN txn[req[x].of].amount
                                                         ELSE @.amount]]
    /\ acct' = [a \in Accounts |->
                  IF a \in DOMAIN seen[x]
                  THEN [acct[a] EXCEPT !.balance = done.balance[a],
                                       !.last = <<x, LastEntryOf(draft[x], a)>>]
                  ELSE acct[a]]
    /\ Leave(x, "done")
    /\ UNCHANGED <<req, adm>>

\* validateBalances refuses.
Refuse(x) ==
    /\ pc[x] = "locking"
    /\ Unlocked(x) = {}
    /\ ~MayPost(x)
    /\ Leave(x, "failing")
    /\ UNCHANGED <<acct, txn, req, adm>>

\* Anything else goes wrong before the COMMIT: an error, the timeout, the death
\* of the server.  Nothing was written.
Abort(x) ==
    /\ pc[x] \in {"building", "locking"}
    /\ Leave(x, "failing")
    /\ UNCHANGED <<acct, txn, req, adm>>

\* failPayment, or the pending sweeper in its place.
Fail(x) ==
    /\ pc[x] = "failing"
    /\ txnLock[x] = None
    /\ txn' = [txn EXCEPT ![x].status = "FAILED"]
    /\ pc' = [pc EXCEPT ![x] = "done"]
    /\ UNCHANGED <<acct, acctLock, txnLock, req, draft, seen, adm>>

-----------------------------------------------------------------------------
(* Administrators.  Each controller reads the account, decides, and writes *)
(* the new status in a second statement, by id and unconditionally.        *)

MayFreeze(a)   == acct[a].status = "ACTIVE" /\ a \in Wallets
MayUnfreeze(a) == acct[a].status = "FROZEN"
MayClose(a)    == acct[a].status # "CLOSE" /\ acct[a].balance = 0

Decide(m, a, to) ==
    /\ adm[m] = Idle
    /\ adm' = [adm EXCEPT ![m] = [account |-> a, to |-> to]]
    /\ UNCHANGED <<acct, acctLock, txn, txnLock, pc, req, draft, seen>>

Freeze(m, a)   == MayFreeze(a) /\ Decide(m, a, "FROZEN")
Unfreeze(m, a) == MayUnfreeze(a) /\ Decide(m, a, "ACTIVE")
Close(m, a)    == MayClose(a) /\ Decide(m, a, "CLOSE")

\* updateAccountStatus waits for the row lock, and for nothing else.
UpdateAccountStatus(m) ==
    LET a == adm[m].account IN
    /\ adm[m] # Idle
    /\ Granted(a)
    /\ acct' = [acct EXCEPT ![a].status = adm[m].to]
    /\ adm' = [adm EXCEPT ![m] = Idle]
    /\ UNCHANGED <<acctLock, txn, txnLock, pc, req, draft, seen>>

-----------------------------------------------------------------------------
ExecutorStep(x) ==
    \/ Build(x) \/ LockOriginal(x)
    \/ \E a \in Accounts : LockAccount(x, a)
    \/ Post(x) \/ Refuse(x) \/ Fail(x)

Quiescent ==
    /\ \A x \in Txns : pc[x] = "done"
    /\ \A m \in Admins : adm[m] = Idle
    /\ UNCHANGED vars

Next ==
    \/ \E x \in Txns : (\E r \in Requests : Start(x, r)) \/ ExecutorStep(x) \/ Abort(x)
    \/ \E m \in Admins :
         \/ \E a \in Managed : Freeze(m, a) \/ Unfreeze(m, a) \/ Close(m, a)
         \/ UpdateAccountStatus(m)
    \/ Quiescent

Spec == Init /\ [][Next]_vars

\* An executor that runs goes on with what it can do; that something goes wrong
\* is never assumed, and neither is anything of administrators.
FairSpec == Spec /\ \A x \in Txns : WF_vars(ExecutorStep(x))

-----------------------------------------------------------------------------
(* Properties.                                                             *)

TypeOK ==
    /\ acct \in [Accounts -> AccountRow]
    /\ acctLock \in [Accounts -> Txns \cup {None}]
    /\ txn \in [Txns -> TxnRow]
    /\ txnLock \in [Txns -> Txns \cup {None}]
    /\ pc \in [Txns -> PcState]
    /\ req \in [Txns -> Requests \cup {None}]
    /\ draft \in [Txns -> Seq(Entry)]
    /\ DOMAIN seen = Txns
    /\ \A x \in Txns : seen[x] \in [DOMAIN seen[x] -> AccountRow] /\ DOMAIN seen[x] \subseteq Accounts
    /\ adm \in [Admins -> Change \cup {Idle}]

Entries(a) ==
    UNION {{x} \X {i \in DOMAIN txn[x].entries : txn[x].entries[i].account = a} : x \in Txns}

\* The cached balance of an account is what its ledger entries add up to, and
\* its pointer names an entry stamped with that balance, although the balance
\* is written as an absolute value computed from an earlier read.
BalancesMatchLedger ==
    \A a \in Accounts :
        /\ acct[a].balance = Opening[a] +
             SumFunctionOnSet([x \in Txns |-> Net(txn[x].entries, a, Len(txn[x].entries))], Txns)
        /\ acct[a].last = NoPointer => Entries(a) = {}
        /\ acct[a].last # NoPointer =>
             /\ acct[a].last \in Entries(a)
             /\ txn[acct[a].last[1]].entries[acct[a].last[2]].balanceAfter = acct[a].balance

\* Payments move money and never make or lose any, whatever fee and tax the
\* client sends.
MoneyConserved ==
    SumFunctionOnSet([a \in Accounts |-> acct[a].balance], Accounts)
        = SumFunctionOnSet(Opening, Accounts)

\* No wallet is ever overdrawn by payments that race for it, not even between
\* two entries of one journal.
WalletsNeverOverdrawn ==
    /\ \A w \in Wallets : acct[w].balance >= 0
    /\ \A x \in Txns : \A i \in DOMAIN txn[x].entries :
         txn[x].entries[i].account \in Wallets => txn[x].entries[i].balanceAfter >= 0

Succeeded == {x \in Txns : txn[x].status = "SUCCESS"}

\* A payment is refunded at most once, however many refunds of it race; only
\* payments are refunded, and the payer gets the amount it had sent.
RefundedAtMostOnce ==
    \A x \in Succeeded : req[x].type = "REVERSAL" =>
        /\ req[x].of \in Succeeded
        /\ req[req[x].of].type # "REVERSAL"
        /\ txn[x].amount = txn[req[x].of].amount
        /\ \A y \in Succeeded :
             req[y].type = "REVERSAL" /\ req[y].of = req[x].of => y = x

\* Who the executor of x waits for.
WaitsFor(x) ==
    CASE pc[x] = "locking" /\ Unlocked(x) # {} -> {acctLock[a] : a \in NextToLock(x)} \ {None}
      [] pc[x] = "locking" /\ Unlocked(x) = {} -> {txnLock[x]} \ {None, x}
      [] pc[x] = "building" /\ req[x].type = "REVERSAL" -> {txnLock[req[x].of]} \ {None}
      [] OTHER -> {}

\* Executors never wait for each other in a cycle: between the locks on
\* accounts and on transactions, PostgreSQL never has to break a deadlock.
NoLockCycle ==
    \A S \in SUBSET Txns : S # {} => \E x \in S : WaitsFor(x) \cap S = {}

\* A journal is posted only while every account it touches is ACTIVE in the
\* database, however an administrator's change races with it.
PostsOnlyOnActive ==
    [][\A x \in Txns : (txn'[x].status = "SUCCESS" /\ txn[x].status # "SUCCESS") =>
          \A i \in DOMAIN txn'[x].entries :
              acct[txn'[x].entries[i].account].status = "ACTIVE"]_vars

\* Every payment that was started is settled, without a timeout or a deadlock
\* victim to help it along.
StartedIsSettled ==
    \A x \in Txns : (pc[x] # "idle") ~> (txn[x].status \in {"SUCCESS", "FAILED"})

\* account.controller.ts: "Account cannot be closed while a balance remains.", and
\* "Closed accounts can not be reopened".
ClosureIsRespected ==
    [][\A a \in Accounts : acct'[a].status # acct[a].status =>
          /\ acct[a].status # "CLOSE"
          /\ acct'[a].status = "CLOSE" => acct[a].balance = 0]_vars
=============================================================================
