---------------------------- MODULE LedgerProofs ----------------------------
(***************************************************************************)
(* Proofs about Ledger, for every number of accounts, transactions,        *)
(* requests and administrators.                                            *)
(***************************************************************************)
EXTENDS Ledger, JournalLemmas

-----------------------------------------------------------------------------
(* The inductive invariant.                                                *)

\* A row is PENDING while its executor runs, and has entries once it succeeded.
Rows ==
    \A x \in Txns :
        /\ txn[x].status = "ABSENT" <=> pc[x] = "idle"
        /\ txn[x].status = "PENDING" <=> pc[x] \in {"building", "locking", "failing"}
        /\ IF pc[x] = "idle" THEN req[x] = None ELSE req[x] \in Requests
        /\ txn[x].status # "SUCCESS" => txn[x].entries = <<>>

\* An executor holds the locks of the accounts it has read, and a refund in addition
\* those of its own row and of the original.
Locks ==
    /\ \A x \in Txns : pc[x] # "locking" => draft[x] = <<>> /\ DOMAIN seen[x] = {}
    /\ \A x \in Txns, a \in Accounts : acctLock[a] = x <=> a \in DOMAIN seen[x]
    /\ \A x, o \in Txns :
         txnLock[o] = x <=> /\ pc[x] = "locking" /\ req[x].type = "REVERSAL"
                            /\ o \in {x, req[x].of}

\* What was read under a lock is still true; the accounts are locked in order.
Reads ==
    \A x \in Txns :
        /\ DOMAIN seen[x] \subseteq AccountsOf(draft[x])
        /\ \A a \in DOMAIN seen[x] : seen[x][a] = acct[a]
        /\ \A a \in DOMAIN seen[x], b \in Unlocked(x) : a < b

\* The journals that are on their way, and what payments have posted.
Journals ==
    /\ \A x \in Txns : pc[x] = "locking" =>
         /\ ValidateJournal(draft[x])
         /\ \A i, j \in Debits(draft[x]) : i = j
         /\ req[x].type # "REVERSAL" => \A i, j \in ReceivedBy(draft[x]) : i = j
    /\ \A x \in Txns : txn[x].status = "SUCCESS" /\ req[x].type # "REVERSAL" =>
         \A i, j \in ReceivedBy(txn[x].entries) : i = j

\* The original of a refund under way can still be refunded.
Refunds ==
    \A x \in Txns : pc[x] = "locking" /\ req[x].type = "REVERSAL" =>
        /\ req[x].of \in Succeeded
        /\ req[req[x].of].type # "REVERSAL"
        /\ \A y \in Succeeded : ~(req[y].type = "REVERSAL" /\ req[y].of = req[x].of)

IInv ==
    /\ TypeOK /\ Rows /\ Locks /\ Reads /\ Journals
    /\ Refunds /\ RefundedAtMostOnce
    /\ BalancesMatchLedger /\ MoneyConserved /\ WalletsNeverOverdrawn

-----------------------------------------------------------------------------
(* What the operators of the actions give.                                 *)

LEMMA RequestFacts ==
  ASSUME NEW r \in Requests
  PROVE  /\ r \in RequestRow
         /\ r # None
         /\ r.type = "REVERSAL" => r.of \in Txns
         /\ r.type # "REVERSAL" => /\ r.amount > 0
                                   /\ Payer(r) \in Accounts /\ Payee(r) \in Accounts
<1>1. r \in RequestRow /\ ValidRequest(r) /\ r # None
  BY RequestsOK, NoneIsNobody
<1>2. r.from \in Accounts /\ Deposit \in Accounts /\ Withdrawal \in Accounts
  BY <1>1, SystemRows DEF RequestRow, Accounts
<1> QED
  BY <1>1, <1>2 DEF ValidRequest, Payer, Payee

\* A journal with one debit.
OneDebit(es) == \A i, j \in Debits(es) : i = j
OneRecipient(es) == \A i, j \in ReceivedBy(es) : i = j

LEMMA PaymentDraft ==
  ASSUME NEW r \in Requests, r.type # "REVERSAL",
         NEW es, es = BuildJournalEntries(Payer(r), Payee(r), r.amount, r.fee, r.tax)
  PROVE  es \in Seq(Entry) /\ OneDebit(es) /\ OneRecipient(es)
<1> DEFINE total == r.amount + r.fee + r.tax
<1>1. /\ Payer(r) \in Accounts /\ Payee(r) \in Accounts /\ r.amount \in Int /\ r.amount > 0
      /\ r.fee \in Int /\ r.tax \in Int /\ total \in Int
  BY RequestFacts DEF RequestRow
<1>2. es \in Seq(Entry)
  BY <1>1, PaymentTotals
<1>3. IsPayment(es, Payer(r), Payee(r), r.amount, total)
  BY <1>1, PaymentShape
<1> HIDE DEF total
<1>4. /\ Debits(es) = IF total > 0 THEN {1} ELSE {}
      /\ ReceivedBy(es) = IF Payee(r) \in Wallets THEN {(IF total > 0 THEN 1 ELSE 0) + 1} ELSE {}
  BY <1>1, <1>3, PaymentSides
<1> QED
  BY <1>2, <1>4 DEF OneDebit, OneRecipient

LEMMA PostedJournal ==
  ASSUME NEW es \in Seq(Posting)
  PROVE  IsJournal(es)
<1>1. Len(es) \in Nat /\ DOMAIN es = 1..Len(es)
  OBVIOUS
<1>2. \A i \in DOMAIN es : es[i] \in Posting
  OBVIOUS
<1> QED
  BY <1>1, <1>2 DEF IsJournal, Posting

LEMMA RefundDraft ==
  ASSUME NEW es, IsJournal(es), OneRecipient(es), NEW amount, Refundable(es, amount)
  PROVE  RefundEntries(es) \in Seq(Entry) /\ OneDebit(RefundEntries(es))
<1>1. PICK j \in ReceivedBy(es) : TRUE
  BY DEF Refundable
<1>2. ReceivedBy(es) = {j}
  BY <1>1 DEF OneRecipient
<1>3. PaidBy(es) # {}
  BY DEF Refundable
<1> DEFINE d == [account |-> es[j].account, type |-> "DEBIT", amount |-> es[j].amount]
           c(p) == [account |-> es[p].account, type |-> "CREDIT", amount |-> es[j].amount]
<1>4. PICK p \in PaidBy(es) : RefundEntries(es) = <<d, c(p)>>
  BY <1>2, <1>3, RefundShape
<1>5. d \in Entry /\ c(p) \in Entry
  BY <1>1, <1>4 DEF IsJournal, ReceivedBy, PaidBy, Credits, Debits, Entry, EntryType
<1>6. d.type = "DEBIT" /\ c(p).type = "CREDIT"
  OBVIOUS
<1> HIDE DEF d, c
<1> DEFINE rs == <<d, c(p)>>
<1>7. rs \in Seq(Entry) /\ DOMAIN rs = 1..2 /\ rs[1] = d /\ rs[2] = c(p)
  BY <1>5
<1> HIDE DEF rs
<1>8. \A i \in Debits(rs) : i = 1
  BY <1>6, <1>7 DEF Debits
<1>9. RefundEntries(es) = rs
  BY <1>4 DEF rs
<1> QED
  BY <1>7, <1>8, <1>9 DEF OneDebit

-----------------------------------------------------------------------------
(* The steps.                                                              *)

Core == <<acct, acctLock, txn, txnLock, pc, req, draft, seen>>

\* Administrators that decide, and steps that stutter, leave the tables alone.
LEMMA Steps ==
  ASSUME TypeOK, [Next]_vars
  PROVE  \/ UNCHANGED Core /\ adm' \in [Admins -> Change \cup {Idle}]
         \/ \E m \in Admins : UpdateAccountStatus(m)
         \/ \E x \in Txns : \/ \E r \in Requests : Start(x, r)
                            \/ Build(x) \/ LockOriginal(x)
                            \/ \E a \in Accounts : LockAccount(x, a)
                            \/ Post(x) \/ Refuse(x) \/ Abort(x) \/ Fail(x)
<1>1. CASE UNCHANGED vars
  BY <1>1 DEF vars, Core, TypeOK
<1>2. ASSUME NEW m \in Admins, NEW a \in Managed, Freeze(m, a) \/ Unfreeze(m, a) \/ Close(m, a)
      PROVE  UNCHANGED Core /\ adm' \in [Admins -> Change \cup {Idle}]
  <2>1. PICK to \in AccountStatus : Decide(m, a, to)
    BY <1>2 DEF Freeze, Unfreeze, Close, AccountStatus
  <2>2. [account |-> a, to |-> to] \in Change
    BY DEF Change
  <2> QED
    BY <2>1, <2>2 DEF Decide, Core, TypeOK
<1>3. CASE Quiescent
  BY <1>1, <1>3 DEF Quiescent
<1>4. CASE \E m \in Admins : \/ \E a \in Managed : Freeze(m, a) \/ Unfreeze(m, a) \/ Close(m, a)
                             \/ UpdateAccountStatus(m)
  BY <1>2, <1>4
<1>5. CASE \E x \in Txns : (\E r \in Requests : Start(x, r)) \/ ExecutorStep(x) \/ Abort(x)
  <2>1. PICK x \in Txns : (\E r \in Requests : Start(x, r)) \/ ExecutorStep(x) \/ Abort(x)
    BY <1>5
  <2> QED
    BY <2>1 DEF ExecutorStep
<1>6. Next \/ UNCHANGED vars
  OBVIOUS
<1> QED
  BY <1>1, <1>3, <1>4, <1>5, <1>6 DEF Next

-----------------------------------------------------------------------------
(* Posting.                                                                *)

Before(x) == [a \in DOMAIN seen[x] |-> seen[x][a].balance]
After(x, a) == Prepared(x).balance[a]

LEMMA LastEntryFacts ==
  ASSUME NEW es, IsJournal(es), NEW a \in AccountsOf(es)
  PROVE  /\ LastEntryOf(es, a) \in DOMAIN es
         /\ es[LastEntryOf(es, a)].account = a
         /\ Net(es, a, LastEntryOf(es, a)) = Net(es, a, Len(es))
<1> DEFINE I == {i \in DOMAIN es : es[i].account = a}
           n == LastEntryOf(es, a)
<1>1. I \subseteq Nat /\ IsFiniteSet(I) /\ I # {}
  <2>1. Len(es) \in Nat /\ DOMAIN es = 1..Len(es)
    BY DEF IsJournal
  <2>2. I \in SUBSET (1..Len(es)) /\ I # {}
    BY <2>1 DEF AccountsOf
  <2>3. IsFiniteSet(I)
    BY <2>1, <2>2, SomePositions
  <2> QED
    BY <2>1, <2>2, <2>3
<1>2. \E i \in I : \A j \in I : j <= i
  BY <1>1, GreatestNumber
<1>3. n \in DOMAIN es /\ es[n].account = a /\ \A j \in DOMAIN es : es[j].account = a => j <= n
  BY <1>2 DEF LastEntryOf
<1> HIDE DEF n
<1>4. {i \in 1..n : es[i].account = a} = {i \in 1..Len(es) : es[i].account = a}
  BY <1>3 DEF IsJournal
<1>5. Net(es, a, n) = Net(es, a, Len(es))
  BY <1>4 DEF Net
<1> QED
  BY <1>3, <1>5 DEF n

\* All accounts of the journal are locked, and their rows are as they were read.
LEMMA LockedRows ==
  ASSUME IInv, NEW x \in Txns, pc[x] = "locking", Unlocked(x) = {}
  PROVE  /\ IsJournal(draft[x]) /\ draft[x] \in Seq(Entry)
         /\ DOMAIN seen[x] = AccountsOf(draft[x])
         /\ AccountsOf(draft[x]) \subseteq Accounts
         /\ Before(x) \in [AccountsOf(draft[x]) -> Int]
         /\ \A a \in AccountsOf(draft[x]) : seen[x][a] = acct[a] /\ Before(x)[a] = acct[a].balance
<1>1. draft[x] \in Seq(Entry) /\ IsJournal(draft[x])
  BY EntriesAreJournals DEF IInv, TypeOK
<1>2. DOMAIN seen[x] = AccountsOf(draft[x])
  BY DEF IInv, Reads, Unlocked
<1>3. AccountsOf(draft[x]) \subseteq Accounts
  BY <1>1 DEF AccountsOf, IsJournal
<1>4. \A a \in DOMAIN seen[x] : seen[x][a] = acct[a]
  BY DEF IInv, Reads
<1>5. \A a \in Accounts : acct[a].balance \in Int
  BY DEF IInv, TypeOK, AccountRow
<1> QED
  BY <1>1, <1>2, <1>3, <1>4, <1>5 DEF Before

\* What postJournal writes.
LEMMA PostFacts ==
  ASSUME IInv, NEW x \in Txns, pc[x] = "locking", Unlocked(x) = {}
  PROVE  /\ Prepared(x).entries \in Seq(Posting)
         /\ Len(Prepared(x).entries) = Len(draft[x])
         /\ DOMAIN Prepared(x).entries = DOMAIN draft[x]
         /\ \A i \in DOMAIN draft[x] :
              /\ Prepared(x).entries[i].account = draft[x][i].account
              /\ Prepared(x).entries[i].type = draft[x][i].type
              /\ Prepared(x).entries[i].amount = draft[x][i].amount
              /\ Prepared(x).entries[i].balanceAfter
                   = acct[draft[x][i].account].balance + Net(draft[x], draft[x][i].account, i)
         /\ \A a \in AccountsOf(draft[x]) :
              After(x, a) = acct[a].balance + Net(draft[x], a, Len(draft[x]))
<1> DEFINE es == draft[x]
           D == AccountsOf(es)
           b == Before(x)
           fs == Prepared(x).entries
<1>1. IsJournal(es) /\ es \in Seq(Entry) /\ D \subseteq Accounts /\ b \in [D -> Int]
      /\ \A a \in D : b[a] = acct[a].balance
  BY LockedRows
<1>2. DOMAIN es = 1..Len(es) /\ Len(es) \in Nat /\ \A i \in DOMAIN es : i \in 0..Len(es) /\ es[i].account \in D
  BY <1>1 DEF IsJournal, AccountsOf
<1>3. /\ fs = [i \in DOMAIN es |->
                  [account |-> es[i].account, type |-> es[i].type, amount |-> es[i].amount,
                   balanceAfter |-> BalancesAfter(es, b)[i][es[i].account]]]
      /\ Prepared(x).balance = BalancesAfter(es, b)[Len(es)]
  BY DEF Prepared, PrepareLedgerEntries, Before
<1> HIDE DEF es, b, fs
<1>4. \A i \in 0..Len(es) : /\ BalancesAfter(es, b)[i] \in [D -> Int]
                            /\ \A a \in D : BalancesAfter(es, b)[i][a] = b[a] + Net(es, a, i)
  <2>1. IsJournal(es) /\ AccountsOf(es) \subseteq D /\ b \in [D -> Int]
    BY <1>1
  <2> HIDE DEF D
  <2>2. RunsFrom(es, D, b)
    BY <2>1, BalancesAreNet
  <2> QED
    BY <2>2 DEF RunsFrom
<1> HIDE DEF D
<1>5. ASSUME NEW i \in DOMAIN es
      PROVE  /\ BalancesAfter(es, b)[i][es[i].account] \in Int
             /\ BalancesAfter(es, b)[i][es[i].account]
                   = acct[es[i].account].balance + Net(es, es[i].account, i)
  BY <1>1, <1>2, <1>4
<1>6. fs \in Seq(Posting) /\ DOMAIN fs = DOMAIN es /\ Len(fs) = Len(es)
  <2>1. \A i \in 1..Len(es) : fs[i] \in Posting
    BY <1>1, <1>2, <1>3, <1>5 DEF Posting, IsJournal
  <2>2. fs \in [1..Len(es) -> Posting]
    BY <1>2, <1>3, <2>1
  <2> QED
    BY <1>2, <2>2
<1>7. \A i \in DOMAIN es : /\ fs[i].account = es[i].account
                           /\ fs[i].type = es[i].type
                           /\ fs[i].amount = es[i].amount
                           /\ fs[i].balanceAfter = acct[es[i].account].balance + Net(es, es[i].account, i)
  BY <1>3, <1>5
<1>8. \A a \in D : Prepared(x).balance[a] = acct[a].balance + Net(es, a, Len(es))
  BY <1>1, <1>2, <1>3, <1>4
<1> QED
  BY <1>6, <1>7, <1>8 DEF es, fs, D, After

-----------------------------------------------------------------------------
(* Types.                                                                  *)

SeenOK == /\ DOMAIN seen = Txns
          /\ \A x \in Txns : seen[x] \in [DOMAIN seen[x] -> AccountRow]
                             /\ DOMAIN seen[x] \subseteq Accounts

LEMMA LeaveType ==
  ASSUME TypeOK, NEW x \in Txns, NEW where \in PcState, Leave(x, where)
  PROVE  /\ acctLock' \in [Accounts -> Txns \cup {None}]
         /\ txnLock' \in [Txns -> Txns \cup {None}]
         /\ pc' \in [Txns -> PcState]
         /\ draft' \in [Txns -> Seq(Entry)]
         /\ SeenOK'
<1>1. acctLock' \in [Accounts -> Txns \cup {None}]
  BY DEF Leave, Released, TypeOK
<1>2. txnLock' \in [Txns -> Txns \cup {None}]
  BY DEF Leave, Released, TypeOK
<1>3. pc' \in [Txns -> PcState]
  BY DEF Leave, TypeOK
<1>4. draft' \in [Txns -> Seq(Entry)]
  <2>1. <<>> \in Seq(Entry)
    OBVIOUS
  <2> QED
    BY <2>1 DEF Leave, TypeOK
<1>5. SeenOK'
  <2>1. DOMAIN seen = Txns /\ seen' = [seen EXCEPT ![x] = <<>>]
    BY DEF Leave, TypeOK
  <2>2. DOMAIN seen' = Txns
    BY <2>1
  <2>3. ASSUME NEW y \in Txns
        PROVE  seen'[y] \in [DOMAIN seen'[y] -> AccountRow] /\ DOMAIN seen'[y] \subseteq Accounts
    <3>1. CASE y = x
      <4>1. seen'[y] = <<>> /\ DOMAIN <<>> = {}
        BY <2>1, <3>1
      <4> QED
        BY <4>1
    <3>2. CASE y # x
      <4>1. seen'[y] = seen[y]
        BY <2>1, <3>2
      <4> QED
        BY <4>1 DEF TypeOK
    <3> QED
      BY <3>1, <3>2
  <2> QED
    BY <2>2, <2>3 DEF SeenOK
<1> QED
  BY <1>1, <1>2, <1>3, <1>4, <1>5

LEMMA TypeInductive ==
  ASSUME IInv, [Next]_vars
  PROVE  TypeOK'
<1> USE DEF IInv
<1>0. TypeOK /\ Rows
  OBVIOUS
<1>1. CASE UNCHANGED Core /\ adm' \in [Admins -> Change \cup {Idle}]
  BY <1>0, <1>1 DEF Core, TypeOK
<1>2. ASSUME NEW m \in Admins, UpdateAccountStatus(m) PROVE TypeOK'
  <2>1. adm[m] \in Change
    BY <1>0, <1>2 DEF UpdateAccountStatus, TypeOK
  <2>2. adm[m].to \in AccountStatus /\ adm[m].account \in Accounts
    BY <2>1, ManagedOK DEF Change
  <2>3. acct' \in [Accounts -> AccountRow]
    BY <1>0, <1>2, <2>2 DEF UpdateAccountStatus, TypeOK, AccountRow
  <2>4. adm' \in [Admins -> Change \cup {Idle}]
    BY <1>0, <1>2 DEF UpdateAccountStatus, TypeOK
  <2> QED
    BY <1>0, <1>2, <2>3, <2>4 DEF UpdateAccountStatus, TypeOK
<1>3. ASSUME NEW x \in Txns, NEW r \in Requests, Start(x, r) PROVE TypeOK'
  <2>1. r.amount \in Int
    BY RequestFacts DEF RequestRow
  <2>2. txn' \in [Txns -> TxnRow]
    BY <1>0, <1>3, <2>1 DEF Start, TypeOK, TxnRow
  <2>3. pc' \in [Txns -> PcState] /\ req' \in [Txns -> Requests \cup {None}]
    BY <1>0, <1>3 DEF Start, TypeOK, PcState
  <2> QED
    BY <1>0, <1>3, <2>2, <2>3 DEF Start, TypeOK
<1>4. ASSUME NEW x \in Txns, Build(x) PROVE TypeOK'
  <2>1. req[x] \in Requests /\ req[x].type # "REVERSAL"
    BY <1>0, <1>4 DEF Build, Rows
  <2> DEFINE es == BuildJournalEntries(Payer(req[x]), Payee(req[x]), req[x].amount, req[x].fee, req[x].tax)
  <2>2. es \in Seq(Entry)
    BY <2>1, PaymentDraft
  <2>3. (draft' = [draft EXCEPT ![x] = es] \/ draft' = draft) /\ pc' \in [Txns -> PcState]
    BY <1>0, <1>4 DEF Build, TypeOK, PcState
  <2> HIDE DEF es
  <2>4. draft' \in [Txns -> Seq(Entry)]
    BY <1>0, <2>2, <2>3 DEF TypeOK
  <2> QED
    BY <1>0, <1>4, <2>3, <2>4 DEF Build, TypeOK
<1>5. ASSUME NEW x \in Txns, LockOriginal(x) PROVE TypeOK'
  <2> DEFINE o == req[x].of
             es == RefundEntries(txn[o].entries)
  <2>1. req[x] \in Requests /\ req[x].type = "REVERSAL" /\ o \in Txns
    BY <1>0, <1>5, RequestFacts DEF LockOriginal, Rows
  <2>2. CanRefund(o) => es \in Seq(Entry)
    <3> HAVE CanRefund(o)
    <3>1. OneRecipient(txn[o].entries) /\ Refundable(txn[o].entries, txn[o].amount)
      BY <2>1 DEF CanRefund, Journals, OneRecipient
    <3>2. IsJournal(txn[o].entries)
      BY <1>0, <2>1, PostedJournal DEF TypeOK, TxnRow
    <3> QED
      BY <3>1, <3>2, RefundDraft
  <2>3. /\ (CanRefund(o) /\ draft' = [draft EXCEPT ![x] = es]) \/ draft' = draft
        /\ txnLock' = [txnLock EXCEPT ![o] = x, ![x] = x] \/ txnLock' = txnLock
        /\ pc' \in [Txns -> PcState]
    BY <1>0, <1>5 DEF LockOriginal, TypeOK, PcState
  <2> HIDE DEF es
  <2>4. draft' \in [Txns -> Seq(Entry)]
    BY <1>0, <2>2, <2>3 DEF TypeOK
  <2>5. txnLock' \in [Txns -> Txns \cup {None}]
    BY <1>0, <2>1, <2>3 DEF TypeOK
  <2> QED
    BY <1>0, <1>5, <2>3, <2>4, <2>5 DEF LockOriginal, TypeOK
<1>6. ASSUME NEW x \in Txns, NEW a \in Accounts, LockAccount(x, a) PROVE TypeOK'
  <2> DEFINE row == [b \in DOMAIN seen[x] \cup {a} |-> IF b = a THEN acct[a] ELSE seen[x][b]]
  <2>1. row \in [DOMAIN row -> AccountRow] /\ DOMAIN row \subseteq Accounts
    BY <1>0 DEF TypeOK
  <2>2. seen' = [seen EXCEPT ![x] = row] /\ acctLock' \in [Accounts -> Txns \cup {None}]
    BY <1>0, <1>6 DEF LockAccount, TypeOK
  <2> HIDE DEF row
  <2>3. SeenOK'
    BY <1>0, <2>1, <2>2 DEF SeenOK, TypeOK
  <2> QED
    BY <1>0, <1>6, <2>2, <2>3 DEF LockAccount, TypeOK, SeenOK
<1>7. ASSUME NEW x \in Txns, Post(x) PROVE TypeOK'
  <2>1. pc[x] = "locking" /\ Unlocked(x) = {} /\ Leave(x, "done")
    BY <1>7 DEF Post
  <2>2. /\ acctLock' \in [Accounts -> Txns \cup {None}] /\ txnLock' \in [Txns -> Txns \cup {None}]
        /\ pc' \in [Txns -> PcState] /\ draft' \in [Txns -> Seq(Entry)] /\ SeenOK'
    BY <1>0, <2>1, LeaveType DEF PcState
  <2>3. req[x] \in Requests /\ (req[x].type = "REVERSAL" => req[x].of \in Txns)
    BY <1>0, <2>1, RequestFacts DEF Rows
  <2>4. Prepared(x).entries \in Seq(Posting) /\ \A a \in AccountsOf(draft[x]) : After(x, a) \in Int
    <3>1. Prepared(x).entries \in Seq(Posting)
      BY <2>1, PostFacts
    <3>2. ASSUME NEW a \in AccountsOf(draft[x]) PROVE After(x, a) \in Int
      <4>1. After(x, a) = acct[a].balance + Net(draft[x], a, Len(draft[x]))
        BY <2>1, PostFacts
      <4>2. IsJournal(draft[x]) /\ a \in Accounts
        BY <2>1, LockedRows
      <4>3. Len(draft[x]) \in 0..Len(draft[x])
        BY <4>2 DEF IsJournal
      <4>4. Net(draft[x], a, Len(draft[x])) \in Int
        BY <4>2, <4>3, NetType
      <4> QED
        BY <1>0, <4>1, <4>2, <4>4 DEF TypeOK, AccountRow
    <3> QED
      BY <3>1, <3>2
  <2>5. txn' \in [Txns -> TxnRow]
    <3>1. (IF req[x].type = "REVERSAL" THEN txn[req[x].of].amount ELSE txn[x].amount) \in Int
      BY <1>0, <2>3 DEF TypeOK, TxnRow
    <3> DEFINE n == IF req[x].type = "REVERSAL" THEN txn[req[x].of].amount ELSE txn[x].amount
               fs == Prepared(x).entries
    <3>2. txn' = [txn EXCEPT ![x] = [status |-> "SUCCESS", entries |-> fs, amount |-> n]]
      BY <1>7 DEF Post
    <3> HIDE DEF n, fs
    <3>3. [status |-> "SUCCESS", entries |-> fs, amount |-> n] \in TxnRow
      BY <2>4, <3>1 DEF TxnRow, n, fs
    <3> QED
      BY <1>0, <3>2, <3>3 DEF TypeOK
  <2>6. acct' \in [Accounts -> AccountRow]
    <3>1. DOMAIN seen[x] = AccountsOf(draft[x]) /\ IsJournal(draft[x])
      BY <2>1, LockedRows
    <3>2. ASSUME NEW a \in Accounts PROVE acct'[a] \in AccountRow
      <4>1. CASE a \notin DOMAIN seen[x]
        BY <1>0, <1>7, <4>1 DEF Post, TypeOK
      <4>2. CASE a \in DOMAIN seen[x]
        <5> DEFINE b == After(x, a)
                   n == LastEntryOf(draft[x], a)
                   l == <<x, n>>
        <5>1. acct'[a] = [acct[a] EXCEPT !.balance = b, !.last = l]
          BY <1>7, <4>2 DEF Post, After
        <5>2. l \in (Txns \cup {None}) \X Nat
          <6>1. n \in DOMAIN draft[x]
            BY <3>1, <4>2, LastEntryFacts
          <6>2. n \in Nat
            BY <3>1, <6>1 DEF IsJournal
          <6> HIDE DEF n
          <6> QED
            BY <6>2
        <5>3. b \in Int /\ acct[a] \in AccountRow
          BY <1>0, <2>4, <3>1, <4>2 DEF TypeOK
        <5> HIDE DEF b, l
        <5> QED
          BY <5>1, <5>2, <5>3 DEF AccountRow
      <4> QED
        BY <4>1, <4>2
    <3>3. acct' = [a \in Accounts |-> acct'[a]]
      BY <1>7 DEF Post
    <3> QED
      BY <3>2, <3>3
  <2> QED
    BY <1>0, <1>7, <2>2, <2>5, <2>6 DEF Post, TypeOK, SeenOK
<1>8. ASSUME NEW x \in Txns, Refuse(x) \/ Abort(x) PROVE TypeOK'
  <2>1. Leave(x, "failing") /\ UNCHANGED <<acct, txn, req, adm>>
    BY <1>8 DEF Refuse, Abort
  <2>2. /\ acctLock' \in [Accounts -> Txns \cup {None}] /\ txnLock' \in [Txns -> Txns \cup {None}]
        /\ pc' \in [Txns -> PcState] /\ draft' \in [Txns -> Seq(Entry)] /\ SeenOK'
    BY <1>0, <2>1, LeaveType DEF PcState
  <2> QED
    BY <1>0, <2>1, <2>2 DEF TypeOK, SeenOK
<1>9. ASSUME NEW x \in Txns, Fail(x) PROVE TypeOK'
  <2>1. txn' \in [Txns -> TxnRow]
    BY <1>0, <1>9 DEF Fail, TypeOK, TxnRow
  <2>2. pc' \in [Txns -> PcState]
    BY <1>0, <1>9 DEF Fail, TypeOK, PcState
  <2> QED
    BY <1>0, <1>9, <2>1, <2>2 DEF Fail, TypeOK
<1> QED
  BY <1>0, <1>1, <1>2, <1>3, <1>4, <1>5, <1>6, <1>7, <1>8, <1>9, Steps

-----------------------------------------------------------------------------
(* Rows, locks and reads.                                                  *)

LEMMA RowsInductive ==
  ASSUME IInv, [Next]_vars
  PROVE  Rows'
<1>0. TypeOK /\ Rows
  BY DEF IInv
<1> USE DEF Rows
<1>1. CASE UNCHANGED Core
  BY <1>0, <1>1 DEF Core
<1>2. ASSUME NEW m \in Admins, UpdateAccountStatus(m) PROVE Rows'
  BY <1>0, <1>2 DEF UpdateAccountStatus
<1>3. ASSUME NEW x \in Txns, NEW r \in Requests, Start(x, r) PROVE Rows'
  BY <1>0, <1>3 DEF Start, TypeOK, TxnRow
<1>4. ASSUME NEW x \in Txns, Build(x) PROVE Rows'
  BY <1>0, <1>4 DEF Build, TypeOK
<1>5. ASSUME NEW x \in Txns, LockOriginal(x) PROVE Rows'
  BY <1>0, <1>5 DEF LockOriginal, TypeOK
<1>6. ASSUME NEW x \in Txns, NEW a \in Accounts, LockAccount(x, a) PROVE Rows'
  BY <1>0, <1>6 DEF LockAccount
<1>7. ASSUME NEW x \in Txns, Post(x) PROVE Rows'
  <2>1. /\ pc[x] = "locking" /\ pc' = [pc EXCEPT ![x] = "done"]
        /\ txn'[x].status = "SUCCESS" /\ \A y \in Txns : y # x => txn'[y] = txn[y]
        /\ req' = req
    BY <1>0, <1>7 DEF Post, Leave, TypeOK
  <2> QED
    BY <1>0, <2>1 DEF TypeOK
<1>8. ASSUME NEW x \in Txns, Refuse(x) \/ Abort(x) PROVE Rows'
  <2>1. /\ pc[x] \in {"building", "locking"} /\ pc' = [pc EXCEPT ![x] = "failing"]
        /\ txn' = txn /\ req' = req
    BY <1>8 DEF Refuse, Abort, Leave
  <2> QED
    BY <1>0, <2>1 DEF TypeOK
<1>9. ASSUME NEW x \in Txns, Fail(x) PROVE Rows'
  BY <1>0, <1>9 DEF Fail, TypeOK, TxnRow
<1> QED
  BY <1>0, <1>1, <1>2, <1>3, <1>4, <1>5, <1>6, <1>7, <1>8, <1>9, Steps

\* The executor of x has no draft and no locks.
Free(x) ==
    /\ draft[x] = <<>> /\ DOMAIN seen[x] = {}
    /\ \A a \in Accounts : acctLock[a] # x
    /\ \A o \in Txns : txnLock[o] # x

\* Nothing of what the other executors hold changes.
Others(x) ==
    \A y \in Txns : y # x =>
        /\ pc'[y] = pc[y] /\ req'[y] = req[y] /\ draft'[y] = draft[y] /\ seen'[y] = seen[y]
        /\ \A a \in Accounts : acctLock'[a] = y <=> acctLock[a] = y
        /\ \A o \in Txns : txnLock'[o] = y <=> txnLock[o] = y

LEMMA LeaveFrees ==
  ASSUME TypeOK, NEW x \in Txns, NEW where, Leave(x, where), req' = req
  PROVE  pc'[x] = where /\ Free(x)' /\ Others(x)
<1>0. x # None
  BY NoneIsNobody
<1>1. pc'[x] = where /\ draft'[x] = <<>> /\ seen'[x] = <<>>
  BY DEF Leave, TypeOK
<1>2. DOMAIN seen'[x] = {}
  BY <1>1
<1>3. /\ \A a \in Accounts : acctLock'[a] = IF acctLock[a] = x THEN None ELSE acctLock[a]
      /\ \A o \in Txns : txnLock'[o] = IF txnLock[o] = x THEN None ELSE txnLock[o]
  BY DEF Leave, Released, TypeOK
<1>4. \A y \in Txns : y # x => /\ pc'[y] = pc[y] /\ draft'[y] = draft[y] /\ seen'[y] = seen[y]
  BY DEF Leave, TypeOK
<1>5. Free(x)'
  BY <1>0, <1>1, <1>2, <1>3 DEF Free
<1>6. Others(x)
  BY <1>3, <1>4, NoneIsNobody DEF Others
<1> QED
  BY <1>1, <1>5, <1>6

\* The part of Locks that is about one executor.
HoldsOwn(x) ==
    /\ pc[x] # "locking" => draft[x] = <<>> /\ DOMAIN seen[x] = {}
    /\ \A a \in Accounts : acctLock[a] = x <=> a \in DOMAIN seen[x]
    /\ \A o \in Txns :
         txnLock[o] = x <=> /\ pc[x] = "locking" /\ req[x].type = "REVERSAL"
                            /\ o \in {x, req[x].of}

LEMMA OneByOne ==
  ASSUME Locks, NEW x \in Txns, Others(x), HoldsOwn(x)'
  PROVE  Locks'
<1>1. \A y \in Txns : HoldsOwn(y)
  BY DEF Locks, HoldsOwn
<1>2. ASSUME NEW y \in Txns PROVE HoldsOwn(y)'
  <2>1. CASE y = x
    BY <2>1
  <2>2. CASE y # x
    <3>1. HoldsOwn(y)
      BY <1>1
    <3> QED
      BY <2>2, <3>1 DEF HoldsOwn, Others
  <2> QED
    BY <2>1, <2>2
<1> QED
  BY <1>2 DEF Locks, HoldsOwn

\* The original of a refund is another row, and nobody holds the row of the refund.
LEMMA OriginalRow ==
  ASSUME IInv, NEW x \in Txns, pc[x] = "building", req[x].type = "REVERSAL",
         NEW o, o = req[x].of, CanRefund(o), OriginalFree(o)
  PROVE  /\ o \in Txns /\ o # x /\ txn[o].status = "SUCCESS"
         /\ txnLock[o] \notin Txns /\ txnLock[x] \notin Txns
<1>1. req[x] \in Requests /\ txn[x].status = "PENDING"
  BY DEF IInv, Rows
<1>2. o \in Txns
  BY <1>1, RequestFacts
<1>3. o # x /\ txn[o].status = "SUCCESS"
  BY <1>1 DEF CanRefund
<1>4. txnLock[o] \notin Txns
  BY NoneIsNobody DEF OriginalFree
<1>5. ASSUME NEW y \in Txns, txnLock[x] = y PROVE FALSE
  <2>1. pc[y] = "locking" /\ req[y].type = "REVERSAL" /\ x \in {y, req[y].of}
    BY <1>5 DEF IInv, Locks
  <2>2. req[y].of = x
    BY <2>1
  <2>3. x \in Succeeded
    BY <2>1, <2>2 DEF IInv, Refunds
  <2> QED
    BY <1>1, <2>3 DEF Succeeded
<1> QED
  BY <1>2, <1>3, <1>4, <1>5

LEMMA LocksInductive ==
  ASSUME IInv, [Next]_vars
  PROVE  Locks'
<1>0. TypeOK /\ Locks /\ \A x \in Txns : HoldsOwn(x) /\ x # None
  BY NoneIsNobody DEF IInv, Locks, HoldsOwn
<1>1. CASE UNCHANGED Core
  BY <1>0, <1>1 DEF Core, Locks
<1>2. ASSUME NEW m \in Admins, UpdateAccountStatus(m) PROVE Locks'
  BY <1>0, <1>2 DEF UpdateAccountStatus, Locks
<1>3. ASSUME NEW x \in Txns, NEW r \in Requests, Start(x, r) PROVE Locks'
  <2>1. HoldsOwn(x)'
    BY <1>0, <1>3 DEF Start, HoldsOwn, TypeOK
  <2>2. Others(x)
    BY <1>0, <1>3 DEF Start, Others, TypeOK
  <2> QED
    BY <1>0, <2>1, <2>2, OneByOne
<1>4. ASSUME NEW x \in Txns, Build(x) PROVE Locks'
  <2>1. /\ pc[x] = "building" /\ req[x].type # "REVERSAL"
        /\ \/ pc' = [pc EXCEPT ![x] = "locking"]
           \/ pc' = [pc EXCEPT ![x] = "failing"] /\ draft' = draft
        /\ UNCHANGED <<acctLock, txnLock, req, seen>>
        /\ \A y \in Txns : y # x => draft'[y] = draft[y]
    BY <1>0, <1>4 DEF Build, TypeOK
  <2>2. HoldsOwn(x)'
    BY <1>0, <2>1 DEF HoldsOwn, TypeOK
  <2>3. Others(x)
    BY <1>0, <2>1 DEF Others, TypeOK
  <2> QED
    BY <1>0, <2>2, <2>3, OneByOne
<1>5. ASSUME NEW x \in Txns, LockOriginal(x) PROVE Locks'
  <2> DEFINE o == req[x].of
  <2>1. pc[x] = "building" /\ req[x].type = "REVERSAL" /\ OriginalFree(o)
    BY <1>5 DEF LockOriginal
  <2>2. CASE CanRefund(o) /\ txnLock' = [txnLock EXCEPT ![o] = x, ![x] = x]
             /\ pc' = [pc EXCEPT ![x] = "locking"]
    <3>1. /\ o \in Txns /\ o # x /\ txnLock[o] \notin Txns /\ txnLock[x] \notin Txns
      BY <2>1, <2>2, OriginalRow
    <3>2. /\ UNCHANGED <<acctLock, req, seen>>
          /\ \A y \in Txns : y # x => draft'[y] = draft[y]
      BY <1>0, <1>5 DEF LockOriginal, TypeOK
    <3>3. \A q \in Txns : txnLock'[q] = IF q \in {o, x} THEN x ELSE txnLock[q]
      BY <1>0, <2>2, <3>1 DEF TypeOK
    <3>4. HoldsOwn(x)'
      BY <1>0, <2>1, <2>2, <3>1, <3>2, <3>3 DEF HoldsOwn, TypeOK
    <3>5. Others(x)
      BY <1>0, <2>2, <3>1, <3>2, <3>3 DEF Others, TypeOK
    <3> QED
      BY <1>0, <3>4, <3>5, OneByOne
  <2>3. CASE pc' = [pc EXCEPT ![x] = "failing"] /\ UNCHANGED <<txnLock, draft>>
    <3>1. UNCHANGED <<acctLock, req, seen>>
      BY <1>5 DEF LockOriginal
    <3>2. HoldsOwn(x)'
      BY <1>0, <2>1, <2>3, <3>1 DEF HoldsOwn, TypeOK
    <3>3. Others(x)
      BY <1>0, <2>3, <3>1 DEF Others, TypeOK
    <3> QED
      BY <1>0, <3>2, <3>3, OneByOne
  <2> QED
    BY <1>5, <2>2, <2>3 DEF LockOriginal
<1>6. ASSUME NEW x \in Txns, NEW a \in Accounts, LockAccount(x, a) PROVE Locks'
  <2>1. /\ pc[x] = "locking" /\ acctLock[a] = None /\ acctLock' = [acctLock EXCEPT ![a] = x]
        /\ DOMAIN seen'[x] = DOMAIN seen[x] \cup {a}
        /\ \A y \in Txns : y # x => seen'[y] = seen[y]
        /\ UNCHANGED <<txnLock, pc, req, draft>>
    BY <1>0, <1>6 DEF LockAccount, Granted, TypeOK
  <2>2. HoldsOwn(x)'
    BY <1>0, <2>1 DEF HoldsOwn, TypeOK
  <2>3. Others(x)
    BY <1>0, <2>1 DEF Others, TypeOK
  <2> QED
    BY <1>0, <2>2, <2>3, OneByOne
<1>7. ASSUME NEW x \in Txns, Post(x) \/ Refuse(x) \/ Abort(x) PROVE Locks'
  <2>1. PICK where \in {"done", "failing"} : Leave(x, where) /\ req' = req
    BY <1>7 DEF Post, Refuse, Abort
  <2>2. pc'[x] = where /\ Free(x)' /\ Others(x)
    BY <1>0, <2>1, LeaveFrees
  <2>3. HoldsOwn(x)'
    BY <2>2 DEF Free, HoldsOwn
  <2> QED
    BY <1>0, <2>2, <2>3, OneByOne
<1>8. ASSUME NEW x \in Txns, Fail(x) PROVE Locks'
  <2>1. HoldsOwn(x)'
    BY <1>0, <1>8 DEF Fail, HoldsOwn, TypeOK
  <2>2. Others(x)
    BY <1>0, <1>8 DEF Fail, Others, TypeOK
  <2> QED
    BY <1>0, <2>1, <2>2, OneByOne
<1> QED
  BY <1>0, <1>1, <1>2, <1>3, <1>4, <1>5, <1>6, <1>7, <1>8, Steps

\* The part of Reads that is about one executor.
ReadsOwn(x) ==
    /\ DOMAIN seen[x] \subseteq AccountsOf(draft[x])
    /\ \A a \in DOMAIN seen[x] : seen[x][a] = acct[a]
    /\ \A a \in DOMAIN seen[x], b \in Unlocked(x) : a < b

\* The rows an executor has locked stay as they are.
LEMMA ReadsKept ==
  ASSUME NEW y, ReadsOwn(y), draft'[y] = draft[y], seen'[y] = seen[y],
         \A a \in DOMAIN seen[y] : acct'[a] = acct[a]
  PROVE  ReadsOwn(y)'
<1>1. DOMAIN seen'[y] = DOMAIN seen[y] /\ AccountsOf(draft'[y]) = AccountsOf(draft[y])
  OBVIOUS
<1>2. Unlocked(y)' = Unlocked(y)
  BY <1>1 DEF Unlocked
<1> QED
  BY <1>1, <1>2 DEF ReadsOwn

LEMMA ReadsInductive ==
  ASSUME IInv, [Next]_vars
  PROVE  Reads'
<1>0. TypeOK /\ Locks /\ \A x \in Txns : ReadsOwn(x) /\ x # None
  BY NoneIsNobody DEF IInv, Reads, ReadsOwn
<1> SUFFICES \A x \in Txns : ReadsOwn(x)'
  BY DEF Reads, ReadsOwn
<1>a. ASSUME acct' = acct, draft' = draft, seen' = seen
      PROVE  \A x \in Txns : ReadsOwn(x)'
  BY <1>0, <1>a, ReadsKept
<1>b. ASSUME NEW x \in Txns, DOMAIN seen'[x] = {} PROVE ReadsOwn(x)'
  BY <1>b DEF ReadsOwn
<1>c. ASSUME NEW x \in Txns, Others(x), acct' = acct, ReadsOwn(x)'
      PROVE  \A y \in Txns : ReadsOwn(y)'
  <2> TAKE y \in Txns
  <2>1. CASE y = x
    BY <1>c, <2>1
  <2>2. CASE y # x
    <3>1. draft'[y] = draft[y] /\ seen'[y] = seen[y]
      BY <1>c, <2>2 DEF Others
    <3> QED
      BY <1>0, <1>c, <3>1, ReadsKept
  <2> QED
    BY <2>1, <2>2
<1>1. CASE UNCHANGED Core
  BY <1>1, <1>a DEF Core
<1>2. ASSUME NEW m \in Admins, UpdateAccountStatus(m) PROVE \A x \in Txns : ReadsOwn(x)'
  <2> DEFINE c == adm[m].account
  <2> TAKE x \in Txns
  <2>1. adm[m] \in Change /\ acctLock[c] = None /\ draft' = draft /\ seen' = seen
    BY <1>0, <1>2 DEF UpdateAccountStatus, Granted, TypeOK
  <2>2. c \in Accounts
    BY <2>1, ManagedOK DEF Change
  <2>3. c \notin DOMAIN seen[x]
    BY <1>0, <2>1, <2>2 DEF Locks
  <2>4. \A a \in DOMAIN seen[x] : acct'[a] = acct[a]
    BY <1>0, <1>2, <2>3 DEF UpdateAccountStatus, TypeOK
  <2> QED
    BY <1>0, <2>1, <2>4, ReadsKept
<1>3. ASSUME NEW x \in Txns, NEW r \in Requests, Start(x, r) PROVE \A y \in Txns : ReadsOwn(y)'
  BY <1>3, <1>a DEF Start
<1>4. ASSUME NEW x \in Txns, Build(x) \/ LockOriginal(x) PROVE \A y \in Txns : ReadsOwn(y)'
  <2>1. pc[x] = "building" /\ acct' = acct /\ seen' = seen
    BY <1>4 DEF Build, LockOriginal
  <2>2. \A y \in Txns : y # x => draft'[y] = draft[y]
    BY <1>0, <1>4 DEF Build, LockOriginal, TypeOK
  <2>3. DOMAIN seen'[x] = {}
    BY <1>0, <2>1 DEF Locks
  <2> TAKE y \in Txns
  <2>4. CASE y = x
    BY <1>b, <2>3, <2>4
  <2>5. CASE y # x
    BY <1>0, <2>1, <2>2, <2>5, ReadsKept
  <2> QED
    BY <2>4, <2>5
<1>5. ASSUME NEW x \in Txns, NEW a \in Accounts, LockAccount(x, a) PROVE \A y \in Txns : ReadsOwn(y)'
  <2>1. /\ a \in Unlocked(x) /\ \A b \in Unlocked(x) : a <= b
        /\ acct' = acct /\ draft' = draft
    BY <1>5 DEF LockAccount, NextToLock
  <2>2. /\ seen'[x] = [b \in DOMAIN seen[x] \cup {a} |-> IF b = a THEN acct[a] ELSE seen[x][b]]
        /\ \A y \in Txns : y # x => seen'[y] = seen[y]
    BY <1>0, <1>5 DEF LockAccount, TypeOK
  <2>3. DOMAIN seen'[x] = DOMAIN seen[x] \cup {a}
    BY <2>2
  <2>4. Unlocked(x)' = Unlocked(x) \ {a}
    BY <2>1, <2>3 DEF Unlocked
  <2>5. ReadsOwn(x)'
    <3>1. DOMAIN seen'[x] \subseteq AccountsOf(draft'[x])
      BY <1>0, <2>1, <2>3 DEF ReadsOwn, Unlocked
    <3>2. \A b \in DOMAIN seen'[x] : seen'[x][b] = acct'[b]
      BY <1>0, <2>1, <2>2, <2>3 DEF ReadsOwn
    <3>3. ASSUME NEW b \in DOMAIN seen'[x], NEW c \in Unlocked(x)' PROVE b < c
      <4>1. c \in Unlocked(x) /\ c # a /\ a <= c
        BY <2>1, <2>4
      <4>2. draft[x] \in Seq(Entry)
        BY <1>0 DEF TypeOK
      <4>3. IsJournal(draft[x])
        BY <4>2, EntriesAreJournals
      <4>4. AccountsOf(draft[x]) \subseteq Nat
        BY <4>3, AccountsOrdered DEF IsJournal, AccountsOf
      <4>5. a \in Nat /\ c \in Nat
        BY <2>1, <4>1, <4>4 DEF Unlocked
      <4>6. CASE b = a
        BY <4>1, <4>5, <4>6
      <4>7. CASE b \in DOMAIN seen[x]
        BY <1>0, <4>1, <4>7 DEF ReadsOwn
      <4> QED
        BY <2>3, <4>6, <4>7
    <3> QED
      BY <3>1, <3>2, <3>3 DEF ReadsOwn
  <2> TAKE y \in Txns
  <2>6. CASE y # x
    BY <1>0, <2>1, <2>2, <2>6, ReadsKept
  <2> QED
    BY <2>5, <2>6
<1>6. ASSUME NEW x \in Txns, Post(x) PROVE \A y \in Txns : ReadsOwn(y)'
  <2>1. Leave(x, "done") /\ req' = req
    BY <1>6 DEF Post
  <2>2. Free(x)' /\ Others(x)
    BY <1>0, <2>1, LeaveFrees
  <2> TAKE y \in Txns
  <2>3. CASE y = x
    BY <1>b, <2>2, <2>3 DEF Free
  <2>4. CASE y # x
    <3>1. draft'[y] = draft[y] /\ seen'[y] = seen[y]
      BY <2>2, <2>4 DEF Others
    <3>2. ASSUME NEW a \in DOMAIN seen[y] PROVE acct'[a] = acct[a]
      <4>1. a \in Accounts
        BY <1>0 DEF TypeOK
      <4>2. a \notin DOMAIN seen[x]
        BY <1>0, <2>4, <4>1 DEF Locks
      <4> QED
        BY <1>6, <4>1, <4>2 DEF Post
    <3> QED
      BY <1>0, <3>1, <3>2, ReadsKept
  <2> QED
    BY <2>3, <2>4
<1>7. ASSUME NEW x \in Txns, Refuse(x) \/ Abort(x) PROVE \A y \in Txns : ReadsOwn(y)'
  <2>1. Leave(x, "failing") /\ req' = req /\ acct' = acct
    BY <1>7 DEF Refuse, Abort
  <2>2. Free(x)' /\ Others(x)
    BY <1>0, <2>1, LeaveFrees
  <2>3. ReadsOwn(x)'
    BY <1>b, <2>2 DEF Free
  <2> QED
    BY <1>c, <2>1, <2>2, <2>3
<1>8. ASSUME NEW x \in Txns, Fail(x) PROVE \A y \in Txns : ReadsOwn(y)'
  BY <1>8, <1>a DEF Fail
<1> QED
  BY <1>0, <1>1, <1>2, <1>3, <1>4, <1>5, <1>6, <1>7, <1>8, Steps

-----------------------------------------------------------------------------
(* Journals on their way, and refunds.                                     *)

\* The part of Journals that is about one executor.
JournalsOwn(x) ==
    /\ pc[x] = "locking" =>
         /\ ValidateJournal(draft[x])
         /\ OneDebit(draft[x])
         /\ req[x].type # "REVERSAL" => OneRecipient(draft[x])
    /\ txn[x].status = "SUCCESS" /\ req[x].type # "REVERSAL" => OneRecipient(txn[x].entries)

\* The rows of all executors but x stay as they are.
OtherRows(x) ==
    \A y \in Txns : y # x => /\ pc'[y] = pc[y] /\ req'[y] = req[y] /\ draft'[y] = draft[y]
                             /\ txn'[y] = txn[y]

LEMMA SameRecipients ==
  ASSUME NEW es, NEW fs, DOMAIN fs = DOMAIN es,
         \A i \in DOMAIN es : fs[i].account = es[i].account /\ fs[i].type = es[i].type
  PROVE  ReceivedBy(fs) = ReceivedBy(es)
<1>1. Credits(fs) = Credits(es) /\ OnWallets(fs) = OnWallets(es)
  BY DEF Credits, OnWallets
<1> QED
  BY <1>1 DEF ReceivedBy

LEMMA JournalsInductive ==
  ASSUME IInv, [Next]_vars
  PROVE  Journals'
<1>0. TypeOK /\ Rows /\ \A x \in Txns : JournalsOwn(x)
  BY DEF IInv, Journals, JournalsOwn, OneDebit, OneRecipient
<1> SUFFICES \A x \in Txns : JournalsOwn(x)'
  BY DEF Journals, JournalsOwn, OneDebit, OneRecipient
<1>a. ASSUME NEW x \in Txns, OtherRows(x), JournalsOwn(x)'
      PROVE  \A y \in Txns : JournalsOwn(y)'
  <2> TAKE y \in Txns
  <2>1. CASE y # x
    BY <1>0, <1>a, <2>1 DEF OtherRows, JournalsOwn
  <2> QED
    BY <1>a, <2>1
<1>1. CASE UNCHANGED Core
  BY <1>0, <1>1 DEF Core, JournalsOwn
<1>2. ASSUME NEW m \in Admins, UpdateAccountStatus(m) PROVE \A x \in Txns : JournalsOwn(x)'
  BY <1>0, <1>2 DEF UpdateAccountStatus, JournalsOwn
<1>3. ASSUME NEW x \in Txns, NEW r \in Requests, Start(x, r) PROVE \A y \in Txns : JournalsOwn(y)'
  <2>1. pc'[x] = "building" /\ txn'[x].status = "PENDING" /\ OtherRows(x)
    BY <1>0, <1>3 DEF Start, TypeOK, OtherRows, TxnRow
  <2> QED
    BY <1>a, <2>1 DEF JournalsOwn
<1>4. ASSUME NEW x \in Txns, Build(x) PROVE \A y \in Txns : JournalsOwn(y)'
  <2> DEFINE r == req[x]
             es == BuildJournalEntries(Payer(r), Payee(r), r.amount, r.fee, r.tax)
  <2>1. r \in Requests /\ r.type # "REVERSAL" /\ txn[x].status = "PENDING"
    BY <1>0, <1>4 DEF Build, Rows
  <2>2. OneDebit(es) /\ OneRecipient(es)
    BY <2>1, PaymentDraft
  <2>3. \/ draft'[x] = es /\ ValidateJournal(es)
        \/ pc'[x] = "failing"
    BY <1>0, <1>4 DEF Build, Postable, TypeOK
  <2> HIDE DEF es
  <2>4. OtherRows(x) /\ txn' = txn
    BY <1>0, <1>4 DEF Build, OtherRows, TypeOK
  <2>5. JournalsOwn(x)'
    BY <2>1, <2>2, <2>3, <2>4 DEF JournalsOwn
  <2> QED
    BY <1>a, <2>4, <2>5
<1>5. ASSUME NEW x \in Txns, LockOriginal(x) PROVE \A y \in Txns : JournalsOwn(y)'
  <2> DEFINE o == req[x].of
             es == RefundEntries(txn[o].entries)
  <2>1. req[x] \in Requests /\ req[x].type = "REVERSAL" /\ o \in Txns /\ txn[x].status = "PENDING"
    BY <1>0, <1>5, RequestFacts DEF LockOriginal, Rows
  <2>2. CanRefund(o) => OneDebit(es)
    <3> HAVE CanRefund(o)
    <3>1. OneRecipient(txn[o].entries) /\ Refundable(txn[o].entries, txn[o].amount)
      BY <1>0, <2>1 DEF CanRefund, JournalsOwn
    <3>2. IsJournal(txn[o].entries)
      BY <1>0, <2>1, PostedJournal DEF TypeOK, TxnRow
    <3> QED
      BY <3>1, <3>2, RefundDraft
  <2>3. \/ CanRefund(o) /\ draft'[x] = es /\ ValidateJournal(es)
        \/ pc'[x] = "failing"
    BY <1>0, <1>5 DEF LockOriginal, Postable, TypeOK
  <2>4. OtherRows(x) /\ txn' = txn /\ req' = req
    BY <1>0, <1>5 DEF LockOriginal, OtherRows, TypeOK
  <2> HIDE DEF es
  <2>5. JournalsOwn(x)'
    BY <2>1, <2>2, <2>3, <2>4 DEF JournalsOwn
  <2> QED
    BY <1>a, <2>4, <2>5
<1>6. ASSUME NEW x \in Txns, NEW a \in Accounts, LockAccount(x, a) PROVE \A y \in Txns : JournalsOwn(y)'
  BY <1>0, <1>6 DEF LockAccount, JournalsOwn
<1>7. ASSUME NEW x \in Txns, Post(x) PROVE \A y \in Txns : JournalsOwn(y)'
  <2> DEFINE fs == Prepared(x).entries
  <2>1. /\ pc[x] = "locking" /\ Unlocked(x) = {} /\ Leave(x, "done") /\ req' = req
        /\ txn'[x].entries = fs /\ \A y \in Txns : y # x => txn'[y] = txn[y]
    BY <1>0, <1>7 DEF Post, TypeOK
  <2>2. /\ DOMAIN fs = DOMAIN draft[x]
        /\ \A i \in DOMAIN draft[x] : fs[i].account = draft[x][i].account /\ fs[i].type = draft[x][i].type
    BY <2>1, PostFacts
  <2> HIDE DEF fs
  <2>3. ReceivedBy(fs) = ReceivedBy(draft[x])
    BY <2>2, SameRecipients
  <2>4. req[x].type # "REVERSAL" => OneRecipient(fs)
    BY <1>0, <2>1, <2>3 DEF JournalsOwn, OneRecipient
  <2>5. pc'[x] = "done" /\ OtherRows(x)
    BY <1>0, <2>1 DEF Leave, OtherRows, TypeOK
  <2>6. JournalsOwn(x)'
    BY <2>1, <2>4, <2>5 DEF JournalsOwn
  <2> QED
    BY <1>a, <2>5, <2>6
<1>8. ASSUME NEW x \in Txns, Refuse(x) \/ Abort(x) PROVE \A y \in Txns : JournalsOwn(y)'
  <2>1. Leave(x, "failing") /\ req' = req /\ txn' = txn
    BY <1>8 DEF Refuse, Abort
  <2>2. pc'[x] = "failing" /\ OtherRows(x)
    BY <1>0, <2>1 DEF Leave, OtherRows, TypeOK
  <2>3. JournalsOwn(x)'
    BY <1>0, <2>1, <2>2 DEF JournalsOwn
  <2> QED
    BY <1>a, <2>2, <2>3
<1>9. ASSUME NEW x \in Txns, Fail(x) PROVE \A y \in Txns : JournalsOwn(y)'
  <2>1. pc'[x] = "done" /\ txn'[x].status = "FAILED" /\ OtherRows(x)
    BY <1>0, <1>9 DEF Fail, OtherRows, TypeOK, TxnRow
  <2> QED
    BY <1>a, <2>1 DEF JournalsOwn
<1> QED
  BY <1>0, <1>1, <1>2, <1>3, <1>4, <1>5, <1>6, <1>7, <1>8, <1>9, Steps

\* The refund x, under way or done, is of a payment that succeeded.
OfPayment(x) ==
    /\ req[x].of \in Succeeded
    /\ req[req[x].of].type # "REVERSAL"

RefundUnderWay(x) == pc[x] = "locking" /\ req[x].type = "REVERSAL"
RefundDone(x) == x \in Succeeded /\ req[x].type = "REVERSAL"

RefundsOK ==
    /\ \A x \in Txns : RefundUnderWay(x) =>
         OfPayment(x) /\ \A y \in Txns : RefundDone(y) => req[y].of # req[x].of
    /\ \A x \in Txns : RefundDone(x) =>
         /\ OfPayment(x)
         /\ txn[x].amount = txn[req[x].of].amount
         /\ \A y \in Txns : RefundDone(y) /\ req[y].of = req[x].of => y = x

LEMMA RefundsRestated == RefundsOK <=> Refunds /\ RefundedAtMostOnce
BY DEF RefundsOK, Refunds, RefundedAtMostOnce, OfPayment, RefundUnderWay, RefundDone, Succeeded

\* No refund starts or ends in the step, and what succeeded is left alone.
LEMMA RefundsKept ==
  ASSUME RefundsOK, Succeeded' = Succeeded,
         \A x \in Succeeded : req'[x] = req[x] /\ txn'[x].amount = txn[x].amount,
         \A x \in Txns : RefundUnderWay(x)' => RefundUnderWay(x) /\ req'[x] = req[x]
  PROVE  RefundsOK'
<1>1. \A x \in Txns : RefundDone(x)' <=> RefundDone(x)
  BY DEF RefundDone
<1>2. ASSUME NEW x \in Txns, req'[x] = req[x], OfPayment(x) PROVE OfPayment(x)'
  BY <1>2 DEF OfPayment
<1>3. ASSUME NEW x \in Txns, RefundUnderWay(x)'
      PROVE  OfPayment(x)' /\ \A y \in Txns : RefundDone(y)' => req'[y].of # req'[x].of
  <2>1. RefundUnderWay(x) /\ req'[x] = req[x]
    BY <1>3
  <2>2. OfPayment(x) /\ \A y \in Txns : RefundDone(y) => req[y].of # req[x].of
    BY <2>1 DEF RefundsOK
  <2>3. \A y \in Txns : RefundDone(y) => req'[y] = req[y]
    BY DEF RefundDone
  <2> QED
    BY <1>1, <1>2, <2>1, <2>2, <2>3
<1>4. ASSUME NEW x \in Txns, RefundDone(x)'
      PROVE  /\ OfPayment(x)'
             /\ txn'[x].amount = txn'[req'[x].of].amount
             /\ \A y \in Txns : RefundDone(y)' /\ req'[y].of = req'[x].of => y = x
  <2>1. RefundDone(x) /\ x \in Succeeded
    BY <1>1, <1>4 DEF RefundDone
  <2>2. req'[x] = req[x] /\ txn'[x].amount = txn[x].amount
    BY <2>1
  <2>3. /\ OfPayment(x) /\ txn[x].amount = txn[req[x].of].amount
        /\ \A y \in Txns : RefundDone(y) /\ req[y].of = req[x].of => y = x
    BY <2>1 DEF RefundsOK
  <2>4. txn'[req[x].of].amount = txn[req[x].of].amount
    BY <2>3 DEF OfPayment
  <2>5. \A y \in Txns : RefundDone(y) => req'[y] = req[y]
    BY DEF RefundDone
  <2> QED
    BY <1>1, <1>2, <2>2, <2>3, <2>4, <2>5
<1> QED
  BY <1>3, <1>4 DEF RefundsOK

LEMMA RefundsInductive ==
  ASSUME IInv, [Next]_vars
  PROVE  Refunds' /\ RefundedAtMostOnce'
<1>0. TypeOK /\ Rows /\ RefundsOK
  BY RefundsRestated DEF IInv
<1> SUFFICES RefundsOK'
  <2>1. (RefundsOK <=> Refunds /\ RefundedAtMostOnce)'
    BY DEF RefundsOK, Refunds, RefundedAtMostOnce, OfPayment, RefundUnderWay, RefundDone, Succeeded
  <2> QED
    BY <2>1
<1>a. ASSUME txn' = txn, req' = req, \A x \in Txns : pc'[x] = "locking" => pc[x] = "locking"
      PROVE  RefundsOK'
  <2>1. Succeeded' = Succeeded
    BY <1>a DEF Succeeded
  <2> QED
    BY <1>0, <1>a, <2>1, RefundsKept DEF RefundUnderWay
<1>b. ASSUME NEW x \in Txns, txn[x].status # "SUCCESS", txn'[x].status # "SUCCESS", pc'[x] # "locking",
             \A y \in Txns : y # x => pc'[y] = pc[y] /\ req'[y] = req[y] /\ txn'[y] = txn[y]
      PROVE  RefundsOK'
  <2>1. Succeeded' = Succeeded
    BY <1>b DEF Succeeded
  <2>2. \A y \in Succeeded : req'[y] = req[y] /\ txn'[y].amount = txn[y].amount
    BY <1>b DEF Succeeded
  <2>3. \A y \in Txns : RefundUnderWay(y)' => RefundUnderWay(y) /\ req'[y] = req[y]
    BY <1>b DEF RefundUnderWay
  <2> QED
    BY <1>0, <2>1, <2>2, <2>3, RefundsKept
<1>1. CASE UNCHANGED Core
  BY <1>1, <1>a DEF Core
<1>2. ASSUME NEW m \in Admins, UpdateAccountStatus(m) PROVE RefundsOK'
  BY <1>2, <1>a DEF UpdateAccountStatus
<1>3. ASSUME NEW x \in Txns, NEW r \in Requests, Start(x, r) PROVE RefundsOK'
  <2>1. txn[x].status = "ABSENT" /\ txn'[x].status = "PENDING" /\ pc'[x] = "building"
    BY <1>0, <1>3 DEF Start, Rows, TypeOK, TxnRow
  <2>2. \A y \in Txns : y # x => pc'[y] = pc[y] /\ req'[y] = req[y] /\ txn'[y] = txn[y]
    BY <1>0, <1>3 DEF Start, TypeOK
  <2> QED
    BY <1>b, <2>1, <2>2
<1>4. ASSUME NEW x \in Txns, Build(x) PROVE RefundsOK'
  <2>1. Succeeded' = Succeeded /\ txn' = txn /\ req' = req
    BY <1>4 DEF Build, Succeeded
  <2>2. \A y \in Txns : RefundUnderWay(y)' => RefundUnderWay(y)
    BY <1>0, <1>4 DEF Build, RefundUnderWay, TypeOK
  <2> QED
    BY <1>0, <2>1, <2>2, RefundsKept
<1>5. ASSUME NEW x \in Txns, LockOriginal(x) PROVE RefundsOK'
  <2> DEFINE o == req[x].of
  <2>1. /\ pc[x] = "building" /\ req[x].type = "REVERSAL" /\ OriginalFree(o)
        /\ txn' = txn /\ req' = req
    BY <1>5 DEF LockOriginal
  <2>2. Succeeded' = Succeeded
    BY <2>1 DEF Succeeded
  <2>3. CASE pc' = [pc EXCEPT ![x] = "failing"]
    <3>1. \A y \in Txns : pc'[y] = "locking" => pc[y] = "locking"
      BY <1>0, <2>3 DEF TypeOK
    <3> QED
      BY <1>a, <2>1, <3>1
  <2>4. CASE CanRefund(o) /\ pc' = [pc EXCEPT ![x] = "locking"]
    <3>1. o \in Txns /\ o \in Succeeded /\ req[o].type # "REVERSAL"
      BY <2>1, <2>4, OriginalRow DEF CanRefund, Succeeded
    <3>2. ASSUME NEW y \in Txns, RefundDone(y) PROVE req[y].of # o
      <4>1. req[y] # None
        BY <1>0, <3>2, RequestFacts DEF RefundDone, Succeeded, Rows
      <4> QED
        BY <2>4, <3>2, <4>1 DEF CanRefund, RefundDone, Succeeded
    <3>3. OfPayment(x)
      BY <3>1 DEF OfPayment
    <3>4. /\ \A y \in Txns : RefundDone(y)' <=> RefundDone(y)
          /\ \A y \in Txns : OfPayment(y)' <=> OfPayment(y)
          /\ \A y \in Txns : RefundUnderWay(y)' <=> y = x \/ RefundUnderWay(y)
      <4>1. \A y \in Txns : RefundUnderWay(y)' <=> y = x \/ RefundUnderWay(y)
        BY <1>0, <2>1, <2>4 DEF RefundUnderWay, TypeOK
      <4> QED
        BY <2>1, <2>2, <4>1 DEF RefundDone, OfPayment
    <3> QED
      BY <1>0, <2>1, <3>2, <3>3, <3>4 DEF RefundsOK
  <2> QED
    BY <1>5, <2>3, <2>4 DEF LockOriginal
<1>6. ASSUME NEW x \in Txns, NEW a \in Accounts, LockAccount(x, a) PROVE RefundsOK'
  BY <1>6, <1>a DEF LockAccount
<1>7. ASSUME NEW x \in Txns, Post(x) PROVE RefundsOK'
  <2>1. /\ pc[x] = "locking" /\ txn[x].status = "PENDING" /\ x \notin Succeeded
        /\ pc' = [pc EXCEPT ![x] = "done"] /\ req' = req
    BY <1>0, <1>7 DEF Post, Leave, Rows, Succeeded
  <2>2. /\ \A y \in Txns : y # x => txn'[y] = txn[y]
        /\ txn'[x].status = "SUCCESS"
        /\ req[x].type = "REVERSAL" => txn'[x].amount = txn[req[x].of].amount
    BY <1>0, <1>7 DEF Post, TypeOK
  <2>3. Succeeded' = Succeeded \cup {x}
    BY <2>2 DEF Succeeded
  <2>4. \A y \in Txns : RefundDone(y)' <=> RefundDone(y) \/ (y = x /\ RefundUnderWay(x))
    BY <2>1, <2>3 DEF RefundDone, RefundUnderWay
  <2>5. \A y \in Txns : RefundUnderWay(y)' <=> RefundUnderWay(y) /\ y # x
    BY <1>0, <2>1 DEF RefundUnderWay, TypeOK
  <2>6. \A y \in Txns : OfPayment(y) => OfPayment(y)' /\ req[y].of # x /\ req[y].of \in Txns
    BY <2>1, <2>3 DEF OfPayment, Succeeded
  <2>7. ASSUME NEW y \in Txns, y # x, RefundUnderWay(y), RefundUnderWay(x)
        PROVE  req[y].of # req[x].of
    <3>1. req[x].of \in Txns /\ req[y].of \in Txns
      BY <1>0, <2>6, <2>7 DEF RefundsOK
    <3>2. txnLock[req[x].of] = x /\ txnLock[req[y].of] = y
      BY <2>7, <3>1 DEF IInv, Locks, RefundUnderWay
    <3> QED
      BY <2>7, <3>2
  <2>8. ASSUME NEW y \in Txns, RefundUnderWay(y)'
        PROVE  OfPayment(y)' /\ \A z \in Txns : RefundDone(z)' => req'[z].of # req'[y].of
    <3>1. y # x /\ RefundUnderWay(y)
      BY <2>5, <2>8
    <3>2. OfPayment(y) /\ \A z \in Txns : RefundDone(z) => req[z].of # req[y].of
      BY <1>0, <3>1 DEF RefundsOK
    <3> QED
      BY <2>1, <2>4, <2>6, <2>7, <3>1, <3>2
  <2>9. ASSUME NEW y \in Txns, RefundDone(y)'
        PROVE  /\ OfPayment(y)'
               /\ txn'[y].amount = txn'[req'[y].of].amount
               /\ \A z \in Txns : RefundDone(z)' /\ req'[z].of = req'[y].of => z = y
    <3>1. OfPayment(y)
      BY <1>0, <2>4, <2>9 DEF RefundsOK
    <3>2. req[y].of # x /\ req[y].of \in Txns /\ txn'[req[y].of] = txn[req[y].of]
      BY <2>2, <2>6, <3>1
    <3>3. txn'[y].amount = txn[req[y].of].amount
      <4>1. CASE y = x
        BY <2>1, <2>2, <2>4, <2>9, <4>1 DEF RefundUnderWay, RefundDone
      <4>2. CASE y # x
        BY <1>0, <2>2, <2>4, <2>9, <4>2 DEF RefundsOK
      <4> QED
        BY <4>1, <4>2
    <3>4. ASSUME NEW z \in Txns, RefundDone(z)', req[z].of = req[y].of PROVE z = y
      BY <1>0, <2>4, <2>9, <3>4 DEF RefundsOK
    <3> QED
      BY <2>1, <2>6, <3>1, <3>2, <3>3, <3>4
  <2> QED
    BY <2>8, <2>9 DEF RefundsOK
<1>8. ASSUME NEW x \in Txns, Refuse(x) \/ Abort(x) PROVE RefundsOK'
  <2>1. Leave(x, "failing") /\ req' = req /\ txn' = txn
    BY <1>8 DEF Refuse, Abort
  <2>2. \A y \in Txns : pc'[y] = "locking" => pc[y] = "locking"
    BY <1>0, <2>1 DEF Leave, TypeOK
  <2> QED
    BY <1>a, <2>1, <2>2
<1>9. ASSUME NEW x \in Txns, Fail(x) PROVE RefundsOK'
  <2>1. txn[x].status = "PENDING" /\ txn'[x].status = "FAILED" /\ pc'[x] = "done"
    BY <1>0, <1>9 DEF Fail, Rows, TypeOK, TxnRow
  <2>2. \A y \in Txns : y # x => pc'[y] = pc[y] /\ req'[y] = req[y] /\ txn'[y] = txn[y]
    BY <1>0, <1>9 DEF Fail, TypeOK
  <2> QED
    BY <1>b, <2>1, <2>2
<1> QED
  BY <1>0, <1>1, <1>2, <1>3, <1>4, <1>5, <1>6, <1>7, <1>8, <1>9, Steps

-----------------------------------------------------------------------------
(* Balances and money.                                                     *)

Money == BalancesMatchLedger /\ MoneyConserved /\ WalletsNeverOverdrawn

\* What the entries of x move on account a.
Moved(x, a) == Net(txn[x].entries, a, Len(txn[x].entries))

\* A step that leaves balances, pointers and entries alone.
LEMMA MoneyKept ==
  ASSUME Money, FiniteTables,
         \A x \in Txns : txn'[x].entries = txn[x].entries,
         \A a \in Accounts : acct'[a].balance = acct[a].balance /\ acct'[a].last = acct[a].last
  PROVE  Money'
<1>1. MoneyConserved'
  <2>1. [a \in Accounts |-> acct'[a].balance] = [a \in Accounts |-> acct[a].balance]
    OBVIOUS
  <2> QED
    BY <2>1 DEF Money, MoneyConserved
<1>2. WalletsNeverOverdrawn'
  BY DEF Money, WalletsNeverOverdrawn, Accounts
<1>3. ASSUME NEW a \in Accounts
      PROVE  Entries(a)' = Entries(a) /\ [x \in Txns |-> Moved(x, a)'] = [x \in Txns |-> Moved(x, a)]
  BY DEF Entries, Moved
<1>4. ASSUME NEW a \in Accounts, acct[a].last # NoPointer
      PROVE  acct[a].last[1] \in Txns
  <2>1. acct[a].last \in Entries(a)
    BY <1>4 DEF Money, BalancesMatchLedger
  <2>2. PICK x \in Txns : acct[a].last \in {x} \X {i \in DOMAIN txn[x].entries : txn[x].entries[i].account = a}
    BY <2>1 DEF Entries
  <2> QED
    BY <2>2
<1>5. BalancesMatchLedger'
  BY <1>3, <1>4 DEF Money, BalancesMatchLedger, Moved, NoPointer
<1> QED
  BY <1>1, <1>2, <1>5 DEF Money

\* What Post changes, as the lemmas below need it.
Posted(x) ==
    /\ IsJournal(draft[x]) /\ AccountsOf(draft[x]) \subseteq Accounts
    /\ txn[x].entries = <<>>
    /\ \A y \in Txns : y # x => txn'[y] = txn[y]
    /\ IsJournal(txn'[x].entries)
    /\ Len(txn'[x].entries) = Len(draft[x])
    /\ \A i \in 1..Len(draft[x]) :
         /\ txn'[x].entries[i].account = draft[x][i].account
         /\ txn'[x].entries[i].type = draft[x][i].type
         /\ txn'[x].entries[i].amount = draft[x][i].amount
         /\ txn'[x].entries[i].balanceAfter
              = acct[draft[x][i].account].balance + Net(draft[x], draft[x][i].account, i)
    /\ \A a \in Accounts :
         /\ acct'[a].balance = acct[a].balance + Net(draft[x], a, Len(draft[x]))
         /\ acct'[a].last = IF a \in AccountsOf(draft[x]) THEN <<x, LastEntryOf(draft[x], a)>>
                                                          ELSE acct[a].last

LEMMA PostPosts ==
  ASSUME IInv, NEW x \in Txns, Post(x)
  PROVE  Posted(x)
<1> DEFINE es == draft[x]
           fs == Prepared(x).entries
<1>0. TypeOK /\ Rows
  BY DEF IInv
<1>1. pc[x] = "locking" /\ Unlocked(x) = {}
  BY DEF Post
<1>2. /\ txn[x].entries = <<>> /\ \A y \in Txns : y # x => txn'[y] = txn[y]
      /\ txn'[x].entries = fs
  BY <1>0, <1>1 DEF Post, TypeOK, Rows
<1>3. /\ fs \in Seq(Posting) /\ Len(fs) = Len(es)
      /\ \A i \in DOMAIN es :
              /\ fs[i].account = es[i].account
              /\ fs[i].type = es[i].type
              /\ fs[i].amount = es[i].amount
              /\ fs[i].balanceAfter = acct[es[i].account].balance + Net(es, es[i].account, i)
      /\ \A a \in AccountsOf(es) : After(x, a) = acct[a].balance + Net(es, a, Len(es))
  BY <1>1, PostFacts
<1>4. /\ IsJournal(es) /\ DOMAIN seen[x] = AccountsOf(es) /\ AccountsOf(es) \subseteq Accounts
  BY <1>1, LockedRows
<1>5. IsJournal(fs)
  BY <1>3, PostedJournal
<1>6. ASSUME NEW a \in Accounts
      PROVE  /\ acct'[a].balance = acct[a].balance + Net(es, a, Len(es))
             /\ acct'[a].last = IF a \in AccountsOf(es) THEN <<x, LastEntryOf(es, a)>>
                                                        ELSE acct[a].last
  <2>1. CASE a \notin AccountsOf(es)
    <3>1. Net(es, a, Len(es)) = 0
      BY <1>4, <2>1, NetElsewhere
    <3>2. acct'[a] = acct[a]
      BY <1>4, <2>1 DEF Post
    <3>3. acct[a].balance \in Int
      BY <1>0 DEF TypeOK, AccountRow
    <3> QED
      BY <2>1, <3>1, <3>2, <3>3
  <2>2. CASE a \in AccountsOf(es)
    <3> DEFINE b == After(x, a)
               l == <<x, LastEntryOf(es, a)>>
    <3>1. acct'[a] = [acct[a] EXCEPT !.balance = b, !.last = l]
      BY <1>4, <2>2 DEF Post, After
    <3>2. b = acct[a].balance + Net(es, a, Len(es)) /\ acct[a] \in AccountRow
      BY <1>0, <1>3, <2>2 DEF TypeOK
    <3> HIDE DEF b, l
    <3>3. acct'[a].balance = b /\ acct'[a].last = l
      BY <3>1, <3>2 DEF AccountRow
    <3> QED
      BY <2>2, <3>2, <3>3 DEF l
  <2> QED
    BY <2>1, <2>2
<1>7. DOMAIN es = 1..Len(es)
  BY <1>4 DEF IsJournal
<1> HIDE DEF es, fs
<1> QED
  BY <1>2, <1>3, <1>4, <1>5, <1>6, <1>7 DEF Posted, es

LEMMA PostMoves ==
  ASSUME NEW x \in Txns, Posted(x), NEW a
  PROVE  /\ Moved(x, a) = 0
         /\ Moved(x, a)' = Net(draft[x], a, Len(draft[x]))
         /\ Moved(x, a)' \in Int
<1> DEFINE es == draft[x]
           fs == txn'[x].entries
<1>1. /\ IsJournal(es) /\ IsJournal(fs) /\ Len(fs) = Len(es) /\ Len(es) \in 0..Len(es)
      /\ \A i \in 1..Len(es) : /\ fs[i].account = es[i].account
                               /\ fs[i].type = es[i].type
                               /\ fs[i].amount = es[i].amount
  BY DEF Posted, IsJournal
<1> HIDE DEF es, fs
<1>2. Len(es) <= Len(fs)
  BY <1>1
<1>3. Net(fs, a, Len(es)) = Net(es, a, Len(es))
  BY <1>1, <1>2, NetSame
<1>4. Net(es, a, Len(es)) \in Int
  BY <1>1, NetType
<1>5. Len(<<>>) = 0
  OBVIOUS
<1>6. Moved(x, a) = 0
  BY <1>5, NetZero DEF Moved, Posted
<1> QED
  BY <1>1, <1>3, <1>4, <1>6 DEF Moved, es, fs

LEMMA PostConserves ==
  ASSUME TypeOK, MoneyConserved, NEW x \in Txns, Posted(x), ValidateJournal(draft[x])
  PROVE  MoneyConserved'
<1> DEFINE es == draft[x]
           f == [a \in Accounts |-> acct[a].balance]
           g == [a \in Accounts |-> Net(es, a, Len(es))]
           h == [a \in Accounts |-> acct'[a].balance]
<1>1. IsJournal(es) /\ TotalOf(es, Debits(es)) = TotalOf(es, Credits(es)) /\ IsFiniteSet(Accounts)
  BY FiniteTables DEF Posted, ValidateJournal
<1>2. SumFunctionOnSet(g, Accounts) = 0
  BY <1>1, NetBalances
<1>3. \A a \in Accounts : f[a] \in Int /\ g[a] \in Int /\ h[a] = f[a] + g[a]
  <2> TAKE a \in Accounts
  <2>1. acct[a].balance \in Int
    BY DEF TypeOK, AccountRow
  <2>2. Len(es) \in 0..Len(es)
    BY <1>1 DEF IsJournal
  <2>3. Net(es, a, Len(es)) \in Int
    BY <1>1, <2>2, NetType
  <2>4. acct'[a].balance = acct[a].balance + Net(es, a, Len(es))
    BY DEF Posted
  <2> QED
    BY <2>1, <2>3, <2>4
<1>4. SumFunctionOnSet(f, Accounts) \in Int
  <2>1. \A a \in Accounts : f[a] \in Int
    BY <1>3
  <2> HIDE DEF f
  <2> QED
    BY <1>1, <2>1, SumType
<1>5. SumFunctionOnSet(f, Accounts) = SumFunctionOnSet(Opening, Accounts)
  BY DEF MoneyConserved
<1> HIDE DEF f, g
<1>6. SumFunctionOnSet(h, Accounts) = SumFunctionOnSet(f, Accounts) + SumFunctionOnSet(g, Accounts)
  <2> HIDE DEF h
  <2> QED
    BY <1>1, <1>3, SumPlus
<1>7. SumFunctionOnSet(h, Accounts) = SumFunctionOnSet(Opening, Accounts)
  BY <1>2, <1>4, <1>5, <1>6
<1> QED
  BY <1>7 DEF MoneyConserved

LEMMA PostMatches ==
  ASSUME TypeOK, BalancesMatchLedger, NEW x \in Txns, Posted(x), NEW a \in Accounts
  PROVE  acct'[a].balance = Opening[a] + SumFunctionOnSet([y \in Txns |-> Moved(y, a)'], Txns)
<1> DEFINE f == [y \in Txns |-> Moved(y, a)]
           g == [y \in Txns |-> Moved(y, a)']
<1>1. acct[a].balance = Opening[a] + SumFunctionOnSet(f, Txns) /\ Opening[a] \in Int
  BY OpeningOK DEF BalancesMatchLedger, Moved
<1>2. acct'[a].balance = acct[a].balance + Net(draft[x], a, Len(draft[x]))
  BY DEF Posted
<1>3. f[x] = 0 /\ g[x] = Net(draft[x], a, Len(draft[x])) /\ g[x] \in Int
  BY PostMoves
<1>4. \A y \in Txns : f[y] \in Int
  <2> TAKE y \in Txns
  <2>1. IsJournal(txn[y].entries)
    BY PostedJournal DEF TypeOK, TxnRow
  <2>2. Len(txn[y].entries) \in 0..Len(txn[y].entries)
    BY <2>1 DEF IsJournal
  <2>3. Moved(y, a) \in Int
    BY <2>1, <2>2, NetType DEF Moved
  <2> QED
    BY <2>3
<1>5. \A y \in Txns \ {x} : g[y] = f[y]
  BY DEF Posted, Moved
<1>6. IsFiniteSet(Txns)
  BY FiniteTables
<1> HIDE DEF f, g
<1>7. SumFunctionOnSet(g, Txns) = SumFunctionOnSet(f, Txns) + g[x] - f[x]
  BY <1>3, <1>4, <1>5, <1>6, SumUpdate
<1>8. SumFunctionOnSet(f, Txns) \in Int
  BY <1>4, <1>6, SumType
<1>9. acct'[a].balance = Opening[a] + SumFunctionOnSet(g, Txns)
  BY <1>1, <1>2, <1>3, <1>7, <1>8
<1> QED
  BY <1>9 DEF g

LEMMA PostPoints ==
  ASSUME TypeOK, BalancesMatchLedger, NEW x \in Txns, Posted(x), NEW a \in Accounts
  PROVE  /\ acct'[a].last = NoPointer => Entries(a)' = {}
         /\ acct'[a].last # NoPointer =>
              /\ acct'[a].last \in Entries(a)'
              /\ txn'[acct'[a].last[1]].entries[acct'[a].last[2]].balanceAfter = acct'[a].balance
<1> DEFINE es == draft[x]
           fs == txn'[x].entries
           At(ys, y) == {y} \X {i \in DOMAIN ys : ys[i].account = a}
<1>1. /\ DOMAIN es = 1..Len(es) /\ DOMAIN fs = 1..Len(es) /\ IsJournal(es)
      /\ \A i \in 1..Len(es) : fs[i].account = es[i].account
  BY DEF Posted, IsJournal
<1>2. /\ Entries(a) = UNION {At(txn[y].entries, y) : y \in Txns}
      /\ Entries(a)' = UNION {At(txn'[y].entries, y) : y \in Txns}
  BY DEF Entries
<1>3. /\ \A y \in Txns \ {x} : txn'[y].entries = txn[y].entries
      /\ txn[x].entries = <<>>
      /\ acct'[a].balance = acct[a].balance + Net(es, a, Len(es))
      /\ acct'[a].last = IF a \in AccountsOf(es) THEN <<x, LastEntryOf(es, a)>> ELSE acct[a].last
  BY DEF Posted
<1>4. CASE a \in AccountsOf(es)
  <2> DEFINE n == LastEntryOf(es, a)
  <2>1. n \in DOMAIN es /\ es[n].account = a /\ Net(es, a, n) = Net(es, a, Len(es))
    BY <1>1, <1>4, LastEntryFacts
  <2>2. acct'[a].last = <<x, n>> /\ n \in 1..Len(es)
    BY <1>1, <1>3, <1>4, <2>1
  <2> HIDE DEF n, es, fs
  <2>3. <<x, n>> \in At(fs, x)
    BY <1>1, <2>1, <2>2
  <2>4. <<x, n>> \in Entries(a)'
    <3> HIDE DEF At
    <3> QED
      BY <1>2, <2>3 DEF fs
  <2>5. fs[n].balanceAfter = acct[a].balance + Net(es, a, n)
    BY <2>1, <2>2 DEF Posted, es, fs
  <2>6. <<x, n>> # NoPointer
    BY NoneIsNobody DEF NoPointer
  <2> QED
    BY <1>3, <2>1, <2>2, <2>4, <2>5, <2>6 DEF fs
<1>5. CASE a \notin AccountsOf(es)
  <2>1. At(fs, x) = {}
    BY <1>1, <1>5 DEF AccountsOf
  <2>2. At(txn[x].entries, x) = {}
    BY <1>3
  <2>3. \A y \in Txns : At(txn'[y].entries, y) = At(txn[y].entries, y)
    BY <1>3, <2>1, <2>2
  <2>4. Entries(a)' = Entries(a)
    <3> HIDE DEF At
    <3> QED
      BY <1>2, <2>3
  <2>5. Net(es, a, Len(es)) = 0 /\ acct[a].balance \in Int
    BY <1>1, <1>5, NetElsewhere DEF TypeOK, AccountRow
  <2>6. acct'[a].last = acct[a].last /\ acct'[a].balance = acct[a].balance
    BY <1>3, <1>5, <2>5
  <2>7. ASSUME acct[a].last # NoPointer
        PROVE  /\ acct[a].last \in Entries(a)
               /\ txn'[acct[a].last[1]].entries[acct[a].last[2]].balanceAfter = acct[a].balance
    <3>1. /\ acct[a].last \in Entries(a)
          /\ txn[acct[a].last[1]].entries[acct[a].last[2]].balanceAfter = acct[a].balance
      BY <2>7 DEF BalancesMatchLedger
    <3>2. PICK y \in Txns : acct[a].last \in At(txn[y].entries, y)
      <4> HIDE DEF At
      <4> QED
        BY <1>2, <3>1
    <3>3. y # x /\ acct[a].last[1] = y
      BY <2>2, <3>2
    <3> QED
      BY <1>3, <3>1, <3>3
  <2>8. acct[a].last = NoPointer => Entries(a) = {}
    BY DEF BalancesMatchLedger
  <2> QED
    BY <2>4, <2>6, <2>7, <2>8
<1> QED
  BY <1>4, <1>5

LEMMA PostCovers ==
  ASSUME IInv, NEW x \in Txns, Post(x), Posted(x)
  PROVE  WalletsNeverOverdrawn'
<1> DEFINE es == draft[x]
           D == AccountsOf(es)
           b == Before(x)
<1>1. pc[x] = "locking" /\ Unlocked(x) = {} /\ MayPost(x)
  BY DEF Post
<1>2. /\ IsJournal(es) /\ b \in [D -> Int] /\ D \subseteq Accounts
      /\ \A a \in D : b[a] = acct[a].balance
  BY <1>1, LockedRows
<1>3. ValidateJournal(es) /\ \A i, j \in Debits(es) : i = j
  BY <1>1 DEF IInv, Journals
<1>4. \A i \in DOMAIN es : es[i].amount > 0
  BY <1>3 DEF ValidateJournal
<1>5. SufficientBalances(es, b)
  BY <1>1 DEF MayPost, Before
<1>6. /\ \A w \in Wallets : acct[w].balance >= 0 /\ acct[w].balance \in Int
      /\ \A y \in Txns : \A i \in DOMAIN txn[y].entries :
           txn[y].entries[i].account \in Wallets => txn[y].entries[i].balanceAfter >= 0
  BY DEF IInv, WalletsNeverOverdrawn, TypeOK, AccountRow, Accounts
<1>7. \A w \in Wallets \cap D : b[w] >= 0
  BY <1>2, <1>6
<1>8. AccountsOf(es) \subseteq D
  OBVIOUS
<1> HIDE DEF b, D
<1>9. \A i \in 0..Len(es) : \A w \in Wallets \cap D : BalancesAfter(es, b)[i][w] >= 0
  BY <1>2, <1>3, <1>4, <1>5, <1>7, <1>8, NoWalletBelowZero
<1>10. RunsFrom(es, D, b)
  BY <1>2, <1>8, BalancesAreNet
<1>11. ASSUME NEW i \in 0..Len(es), NEW w \in Wallets, w \in D
       PROVE  acct[w].balance + Net(es, w, i) >= 0
  BY <1>2, <1>9, <1>10, <1>11 DEF RunsFrom
<1>12. \A w \in Wallets : acct'[w].balance >= 0
  <2> TAKE w \in Wallets
  <2>1. w \in Accounts /\ Len(es) \in 0..Len(es)
    BY <1>2 DEF Accounts, IsJournal
  <2>2. acct'[w].balance = acct[w].balance + Net(es, w, Len(es))
    BY <2>1 DEF Posted
  <2>3. CASE w \in D
    BY <1>11, <2>1, <2>2, <2>3
  <2>4. CASE w \notin D
    <3>1. Net(es, w, Len(es)) = 0
      BY <1>2, <2>4, NetElsewhere DEF D
    <3> QED
      BY <1>6, <2>2, <3>1
  <2> QED
    BY <2>3, <2>4
<1>13. ASSUME NEW y \in Txns, NEW i \in DOMAIN txn'[y].entries, txn'[y].entries[i].account \in Wallets
       PROVE  txn'[y].entries[i].balanceAfter >= 0
  <2>1. CASE y # x
    BY <1>6, <1>13, <2>1 DEF Posted
  <2>2. CASE y = x
    <3>1. i \in 1..Len(es)
      BY <2>2, <1>13 DEF Posted, IsJournal
    <3>2. /\ txn'[x].entries[i].account = es[i].account
          /\ txn'[x].entries[i].balanceAfter = acct[es[i].account].balance + Net(es, es[i].account, i)
      BY <3>1 DEF Posted
    <3>3. es[i].account \in D /\ i \in 0..Len(es)
      BY <1>2, <3>1 DEF D, AccountsOf, IsJournal
    <3> QED
      BY <1>11, <1>13, <2>2, <3>2, <3>3
  <2> QED
    BY <2>1, <2>2
<1> QED
  BY <1>12, <1>13 DEF WalletsNeverOverdrawn

LEMMA MoneyInductive ==
  ASSUME IInv, [Next]_vars
  PROVE  Money'
<1>0. TypeOK /\ Money /\ FiniteTables
  BY FiniteTables DEF IInv, Money
<1>1. CASE UNCHANGED Core
  BY <1>0, <1>1, MoneyKept DEF Core
<1>2. ASSUME NEW m \in Admins, UpdateAccountStatus(m) PROVE Money'
  <2>1. /\ txn' = txn
        /\ \A a \in Accounts : acct'[a].balance = acct[a].balance /\ acct'[a].last = acct[a].last
    BY <1>0, <1>2 DEF UpdateAccountStatus, TypeOK, AccountRow
  <2> QED
    BY <1>0, <2>1, MoneyKept
<1>3. ASSUME NEW x \in Txns, NEW r \in Requests, Start(x, r) PROVE Money'
  <2>1. acct' = acct /\ \A y \in Txns : txn'[y].entries = txn[y].entries
    BY <1>0, <1>3 DEF Start, TypeOK, TxnRow
  <2> QED
    BY <1>0, <2>1, MoneyKept
<1>6. ASSUME NEW x \in Txns, Fail(x) PROVE Money'
  <2>1. acct' = acct /\ \A y \in Txns : txn'[y].entries = txn[y].entries
    BY <1>0, <1>6 DEF Fail, TypeOK, TxnRow
  <2> QED
    BY <1>0, <2>1, MoneyKept
<1>4. ASSUME NEW x \in Txns,
             \/ Build(x) \/ LockOriginal(x)
             \/ \E a \in Accounts : LockAccount(x, a)
             \/ Refuse(x) \/ Abort(x)
      PROVE  Money'
  <2>1. acct' = acct /\ txn' = txn
    BY <1>4 DEF Build, LockOriginal, LockAccount, Refuse, Abort
  <2> QED
    BY <1>0, <2>1, MoneyKept
<1>5. ASSUME NEW x \in Txns, Post(x) PROVE Money'
  <2>1. Posted(x)
    BY <1>5, PostPosts
  <2>2. ValidateJournal(draft[x])
    BY <1>5 DEF Post, IInv, Journals
  <2>3. MoneyConserved'
    BY <1>0, <2>1, <2>2, PostConserves DEF Money
  <2>4. WalletsNeverOverdrawn'
    BY <1>5, <2>1, PostCovers
  <2>5. ASSUME NEW a \in Accounts
        PROVE  /\ acct'[a].balance = Opening[a] + SumFunctionOnSet([y \in Txns |-> Moved(y, a)'], Txns)
               /\ acct'[a].last = NoPointer => Entries(a)' = {}
               /\ acct'[a].last # NoPointer =>
                    /\ acct'[a].last \in Entries(a)'
                    /\ txn'[acct'[a].last[1]].entries[acct'[a].last[2]].balanceAfter = acct'[a].balance
    BY <1>0, <2>1, PostMatches, PostPoints DEF Money
  <2>6. BalancesMatchLedger'
    BY <2>5 DEF BalancesMatchLedger, Moved, NoPointer
  <2> QED
    BY <2>3, <2>4, <2>6 DEF Money
<1> QED
  BY <1>0, <1>1, <1>2, <1>3, <1>4, <1>5, <1>6, Steps

-----------------------------------------------------------------------------
(* The initial states.                                                     *)

LEMMA InitTypes ==
  ASSUME Init
  PROVE  TypeOK
<1>1. acct \in [Accounts -> AccountRow]
  <2>1. \A a \in Accounts : [status |-> "ACTIVE", balance |-> Opening[a], last |-> NoPointer] \in AccountRow
    BY OpeningOK DEF AccountRow, AccountStatus, NoPointer
  <2> QED
    BY <2>1 DEF Init
<1>2. txn \in [Txns -> TxnRow]
  <2>1. <<>> \in Seq(Posting)
    OBVIOUS
  <2>2. [status |-> "ABSENT", amount |-> 0, entries |-> <<>>] \in TxnRow
    BY <2>1 DEF TxnRow
  <2> QED
    BY <2>2 DEF Init
<1>3. draft \in [Txns -> Seq(Entry)]
  <2>1. <<>> \in Seq(Entry)
    OBVIOUS
  <2> QED
    BY <2>1 DEF Init
<1>4. SeenOK
  <2>1. <<>> \in [DOMAIN <<>> -> AccountRow] /\ DOMAIN <<>> \subseteq Accounts
    <3>1. DOMAIN <<>> = {}
      OBVIOUS
    <3> QED
      BY <3>1
  <2> QED
    BY <2>1 DEF Init, SeenOK
<1>5. /\ acctLock \in [Accounts -> Txns \cup {None}] /\ txnLock \in [Txns -> Txns \cup {None}]
      /\ pc \in [Txns -> PcState] /\ req \in [Txns -> Requests \cup {None}]
      /\ adm \in [Admins -> Change \cup {Idle}]
  BY DEF Init, PcState
<1> QED
  BY <1>1, <1>2, <1>3, <1>4, <1>5 DEF TypeOK, SeenOK

LEMMA InitMoney ==
  ASSUME Init
  PROVE  Money
<1>1. \A x \in Txns : txn[x].entries = <<>>
  BY DEF Init
<1>2. \A a \in Accounts : acct[a].balance = Opening[a] /\ acct[a].last = NoPointer
  BY DEF Init
<1>3. MoneyConserved
  <2>1. [a \in Accounts |-> acct[a].balance] = Opening
    BY <1>2, OpeningOK
  <2> QED
    BY <2>1 DEF MoneyConserved
<1>4. WalletsNeverOverdrawn
  BY <1>1, <1>2, OpeningOK DEF WalletsNeverOverdrawn, Accounts
<1>5. ASSUME NEW a \in Accounts
      PROVE  acct[a].balance = Opening[a] + SumFunctionOnSet([x \in Txns |-> Moved(x, a)], Txns)
  <2> DEFINE f == [x \in Txns |-> Moved(x, a)]
  <2>1. Len(<<>>) = 0
    OBVIOUS
  <2>2. \A x \in Txns : f[x] = 0
    BY <1>1, <2>1, NetZero DEF Moved
  <2>3. IsFiniteSet(Txns)
    BY FiniteTables
  <2> HIDE DEF f
  <2>4. SumFunctionOnSet(f, Txns) = 0
    BY <2>2, <2>3, SumZero
  <2>5. acct[a].balance = Opening[a] + SumFunctionOnSet(f, Txns)
    BY <1>2, <2>4, OpeningOK
  <2> QED
    BY <2>5 DEF f
<1>6. ASSUME NEW a \in Accounts PROVE Entries(a) = {}
  BY <1>1 DEF Entries
<1>7. BalancesMatchLedger
  BY <1>2, <1>5, <1>6 DEF BalancesMatchLedger, Moved
<1> QED
  BY <1>3, <1>4, <1>7 DEF Money

LEMMA InitOK ==
  ASSUME Init
  PROVE  IInv
<1>1. TypeOK /\ Money
  BY InitTypes, InitMoney
<1>2. \A x \in Txns : /\ pc[x] = "idle" /\ req[x] = None /\ draft[x] = <<>> /\ seen[x] = <<>>
                      /\ txn[x].status = "ABSENT" /\ txn[x].entries = <<>> /\ txnLock[x] = None
  BY DEF Init
<1>3. \A x \in Txns : DOMAIN seen[x] = {}
  BY <1>2
<1>4. Rows
  BY <1>2 DEF Rows
<1>5. Locks
  <2>1. \A a \in Accounts : acctLock[a] = None
    BY DEF Init
  <2> QED
    BY <1>2, <1>3, <2>1, NoneIsNobody DEF Locks
<1>6. Reads
  BY <1>3 DEF Reads
<1>7. Journals
  BY <1>2 DEF Journals
<1>8. Refunds /\ RefundedAtMostOnce
  BY <1>2 DEF Refunds, RefundedAtMostOnce, Succeeded
<1> QED
  BY <1>1, <1>4, <1>5, <1>6, <1>7, <1>8 DEF IInv, Money

-----------------------------------------------------------------------------
(* The theorems.                                                           *)

LEMMA Invariant == Spec => []IInv
<1>1. Init => IInv
  BY InitOK
<1>2. IInv /\ [Next]_vars => IInv'
  <2> SUFFICES ASSUME IInv, [Next]_vars PROVE IInv'
    OBVIOUS
  <2>1. TypeOK' /\ Rows' /\ Locks' /\ Reads' /\ Journals'
    BY TypeInductive, RowsInductive, LocksInductive, ReadsInductive, JournalsInductive
  <2>2. Refunds' /\ RefundedAtMostOnce' /\ Money'
    BY RefundsInductive, MoneyInductive
  <2> QED
    BY <2>1, <2>2 DEF IInv, Money
<1> QED
  BY <1>1, <1>2, PTL DEF Spec

\* The tables, the memory of the executors and of the administrators hold what
\* their columns and variables may hold.
THEOREM TypeCorrect == Spec => []TypeOK
<1>1. IInv => TypeOK
  BY DEF IInv
<1> QED
  BY <1>1, Invariant, PTL

\* The cached balance of every account is its opening balance and what its ledger
\* entries add up to, and its pointer names the entry stamped with it: an executor
\* writes a balance it computed from a read, and the row lock keeps that read true.
THEOREM BalancesAreRight == Spec => []BalancesMatchLedger
<1>1. IInv => BalancesMatchLedger
  BY DEF IInv
<1> QED
  BY <1>1, Invariant, PTL

\* No payment and no refund makes or loses money, whatever charges the client sends:
\* validateJournal lets only journals through whose sides balance.
THEOREM MoneyIsConserved == Spec => []MoneyConserved
<1>1. IInv => MoneyConserved
  BY DEF IInv
<1> QED
  BY <1>1, Invariant, PTL

\* No wallet is ever overdrawn and no entry of one stamped with a negative balance,
\* although validateBalances compares each debit with the balance before the
\* journal: the journals of payments and refunds have one debit.
THEOREM NoOverdraft == Spec => []WalletsNeverOverdrawn
<1>1. IInv => WalletsNeverOverdrawn
  BY DEF IInv
<1> QED
  BY <1>1, Invariant, PTL

\* However many refunds of a payment race, one succeeds; it is of a payment, and
\* for its amount: the row lock of the original serialises them.
THEOREM RefundsOnce == Spec => []RefundedAtMostOnce
<1>1. IInv => RefundedAtMostOnce
  BY DEF IInv
<1> QED
  BY <1>1, Invariant, PTL

\* The row of a refund or a payment under way is locked by nobody else.
LEMMA OwnRowIsFree ==
  ASSUME IInv, NEW x \in Txns, pc[x] = "locking"
  PROVE  txnLock[x] \in {None, x}
<1>1. txnLock[x] \in Txns \cup {None} /\ txn[x].status = "PENDING"
  BY DEF IInv, TypeOK, Rows
<1>2. ASSUME NEW y \in Txns, txnLock[x] = y, y # x PROVE FALSE
  <2>1. pc[y] = "locking" /\ req[y].type = "REVERSAL" /\ req[y].of = x
    BY <1>2 DEF IInv, Locks
  <2>2. x \in Succeeded
    BY <2>1 DEF IInv, Refunds
  <2> QED
    BY <1>1, <2>2 DEF Succeeded
<1> QED
  BY <1>1, <1>2

\* Among executors that wait for accounts, the one that wants the greatest account
\* waits for none of the others, which have locked smaller ones only.
LEMMA GreatestGoesFirst ==
  ASSUME IInv, NEW L \in SUBSET Txns, L # {},
         \A x \in L : pc[x] = "locking" /\ Unlocked(x) # {}
  PROVE  \E x \in L : \A y \in Txns : y \in WaitsFor(x) => y \notin L
<1> DEFINE A == {a \in Accounts : \E x \in L : a \in NextToLock(x)}
<1>1. \A x \in Txns : Unlocked(x) \subseteq Accounts
  <2> TAKE x \in Txns
  <2>1. draft[x] \in Seq(Entry)
    BY DEF IInv, TypeOK
  <2>2. IsJournal(draft[x])
    BY <2>1, EntriesAreJournals
  <2> QED
    BY <2>2 DEF IsJournal, Unlocked, AccountsOf
<1>2. \A x \in L : \E a \in Unlocked(x) : a \in NextToLock(x)
  <2> TAKE x \in L
  <2>1. Unlocked(x) \in SUBSET Nat /\ Unlocked(x) # {}
    BY <1>1, AccountsOrdered
  <2>2. \E a \in Unlocked(x) : \A b \in Unlocked(x) : a <= b
    BY <2>1, LeastNumber
  <2> QED
    BY <2>2 DEF NextToLock
<1>3. A \in SUBSET Nat /\ IsFiniteSet(A) /\ A # {}
  <2>1. IsFiniteSet(A)
    BY FiniteTables, FS_Subset
  <2> QED
    BY <1>1, <1>2, <2>1, AccountsOrdered
<1>4. PICK a \in A : \A b \in A : b <= a
  BY <1>3, GreatestNumber
<1>5. PICK x \in L : a \in NextToLock(x)
  BY <1>4
<1>6. ASSUME NEW y \in Txns, y \in WaitsFor(x), y \in L PROVE FALSE
  <2>1. PICK b \in NextToLock(x) : y = acctLock[b]
    BY <1>6 DEF WaitsFor
  <2>2. b = a
    <3>1. a <= b /\ b <= a /\ a \in Unlocked(x) /\ b \in Unlocked(x)
      BY <1>5, <2>1 DEF NextToLock
    <3>2. a \in Nat /\ b \in Nat
      BY <1>1, <3>1, AccountsOrdered
    <3> QED
      BY <3>1, <3>2
  <2>3. a \in DOMAIN seen[y]
    BY <1>4, <2>1, <2>2 DEF IInv, Locks
  <2>4. PICK c \in Unlocked(y) : c \in NextToLock(y)
    BY <1>2, <1>6
  <2>5. a < c
    BY <2>3, <2>4 DEF IInv, Reads
  <2>6. c \in A
    BY <1>1, <1>6, <2>4
  <2>7. c <= a /\ a \in Nat /\ c \in Nat
    BY <1>3, <1>4, <2>6
  <2> QED
    BY <2>5, <2>7
<1> QED
  BY <1>6

LEMMA NobodyWaitsInACycle == IInv => NoLockCycle
<1> SUFFICES ASSUME IInv, NEW S \in SUBSET Txns, S # {}
             PROVE  \E x \in S : WaitsFor(x) \cap S = {}
  BY DEF NoLockCycle
<1> DEFINE L == {x \in S : pc[x] = "locking"}
<1>1. CASE \E x \in L : Unlocked(x) = {}
  <2>1. PICK x \in L : Unlocked(x) = {}
    BY <1>1
  <2>2. txnLock[x] \in {None, x}
    BY OwnRowIsFree
  <2> QED
    BY <2>1, <2>2 DEF WaitsFor
<1>2. CASE L = {}
  <2>1. PICK x \in S : TRUE
    OBVIOUS
  <2>2. ASSUME NEW y \in WaitsFor(x), y \in S PROVE FALSE
    <3>1. pc[x] = "building" /\ req[x].type = "REVERSAL" /\ y = txnLock[req[x].of]
      BY <1>2, <2>2 DEF WaitsFor
    <3>2. req[x] \in Requests
      BY <3>1 DEF IInv, Rows
    <3>3. req[x].of \in Txns
      BY <3>1, <3>2, RequestFacts
    <3>4. pc[y] = "locking"
      BY <2>2, <3>1, <3>3 DEF IInv, Locks
    <3> QED
      BY <1>2, <2>2, <3>4
  <2> QED
    BY <2>2
<1>3. CASE L # {} /\ \A x \in L : Unlocked(x) # {}
  <2>1. PICK x \in L : \A y \in Txns : y \in WaitsFor(x) => y \notin L
    BY <1>3, GreatestGoesFirst
  <2>2. ASSUME NEW y \in WaitsFor(x), y \in S PROVE FALSE
    <3>1. PICK a \in NextToLock(x) : y = acctLock[a]
      BY <1>3, <2>1, <2>2 DEF WaitsFor
    <3>2. a \in Accounts
      <4>1. draft[x] \in Seq(Entry)
        BY DEF IInv, TypeOK
      <4>2. IsJournal(draft[x])
        BY <4>1, EntriesAreJournals
      <4> QED
        BY <3>1, <4>2 DEF IsJournal, NextToLock, Unlocked, AccountsOf
    <3>3. DOMAIN seen[y] # {}
      BY <2>2, <3>1, <3>2 DEF IInv, Locks
    <3>4. pc[y] = "locking"
      BY <2>2, <3>3 DEF IInv, Locks
    <3> QED
      BY <2>1, <2>2, <3>4
  <2> QED
    BY <2>1, <2>2
<1> QED
  BY <1>1, <1>2, <1>3

\* Executors never wait for each other in a cycle: accounts are locked in the order
\* of their ids, and who holds the row of a payment waits for accounts only.
THEOREM NoDeadlock == Spec => []NoLockCycle
BY Invariant, NobodyWaitsInACycle, PTL

LEMMA PostsOnActive ==
  ASSUME IInv, [Next]_vars, NEW x \in Txns,
         txn'[x].status = "SUCCESS", txn[x].status # "SUCCESS"
  PROVE  \A i \in DOMAIN txn'[x].entries : acct[txn'[x].entries[i].account].status = "ACTIVE"
<1>0. TypeOK
  BY DEF IInv
<1>1. ASSUME NEW y \in Txns,
             \/ Build(y) \/ LockOriginal(y) \/ (\E a \in Accounts : LockAccount(y, a))
             \/ Refuse(y) \/ Abort(y)
      PROVE  txn' = txn
  BY <1>1 DEF Build, LockOriginal, LockAccount, Refuse, Abort
<1>2. ASSUME NEW y \in Txns, NEW r \in Requests, Start(y, r) PROVE txn'[x].status # "SUCCESS"
  BY <1>0, <1>2 DEF Start, TypeOK, TxnRow
<1>3. ASSUME NEW y \in Txns, Fail(y) PROVE txn'[x].status # "SUCCESS"
  BY <1>0, <1>3 DEF Fail, TypeOK, TxnRow
<1>4. ASSUME NEW y \in Txns, Post(y), y # x PROVE FALSE
  BY <1>0, <1>4 DEF Post, TypeOK
<1>5. ASSUME NEW m \in Admins, UpdateAccountStatus(m) PROVE FALSE
  BY <1>5 DEF UpdateAccountStatus
<1>6. Post(x)
  <2>1. ~UNCHANGED Core
    BY DEF Core
  <2> QED
    BY <1>0, <1>1, <1>2, <1>3, <1>4, <1>5, <2>1, Steps
<1>7. Posted(x) /\ pc[x] = "locking" /\ Unlocked(x) = {} /\ MayPost(x)
  BY <1>6, PostPosts DEF Post
<1>8. /\ DOMAIN seen[x] = AccountsOf(draft[x])
      /\ \A a \in AccountsOf(draft[x]) : seen[x][a] = acct[a]
  BY <1>7, LockedRows
<1> TAKE i \in DOMAIN txn'[x].entries
<1>9. /\ i \in 1..Len(draft[x]) /\ i \in DOMAIN draft[x]
      /\ txn'[x].entries[i].account = draft[x][i].account
  BY <1>7 DEF Posted, IsJournal
<1>10. draft[x][i].account \in AccountsOf(draft[x])
  BY <1>9 DEF AccountsOf
<1> QED
  BY <1>7, <1>8, <1>9, <1>10 DEF MayPost

\* A journal is posted only while every account it touches is ACTIVE in the
\* database: updateAccountStatus waits for the row locks of the executor.
THEOREM PostingNeedsActive == Spec => PostsOnlyOnActive
<1>1. IInv /\ [Next]_vars =>
        [\A x \in Txns : (txn'[x].status = "SUCCESS" /\ txn[x].status # "SUCCESS") =>
            \A i \in DOMAIN txn'[x].entries :
                acct[txn'[x].entries[i].account].status = "ACTIVE"]_vars
  BY PostsOnActive
<1> QED
  BY <1>1, Invariant, PTL DEF Spec, PostsOnlyOnActive
=============================================================================
