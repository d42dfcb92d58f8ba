----------------------------- MODULE PureProofs -----------------------------
(***************************************************************************)
(* The properties of PureCheck, those of JournalCheck included: journals,  *)
(* stamps, debits and refunds; what the lists show of a transaction; the   *)
(* form of the wallet; the load tests that run, and their numbers.         *)
(* Amounts, charges, balances, texts and latencies are without a bound.    *)
(***************************************************************************)
EXTENDS PureCheck, JournalLemmas

\* The inputs are what they were at the start.
InputsOK ==
    /\ from \in Accounts /\ to \in Accounts
    /\ amount \in Nat /\ amount > 0
    /\ fee \in Int /\ tax \in Int
    /\ held \in Nat

\* What is checked besides the payment is one of the inputs, for good.
InputKept == input # Unset => input \in Requests \cup Forms \cup K6Runs

LEMMA InputsInvariant == CheckSpec => [](InputsOK /\ InputKept)
<1>1. CheckInit => InputsOK /\ InputKept
  <2>1. ASSUME Init PROVE InputsOK
    BY <2>1, BoundsOK DEF Init, InputsOK
  <2>2. FeeRevenue \in Accounts /\ Treasury \in Accounts
    BY AccountTypes DEF Accounts
  <2>3. ASSUME from = FeeRevenue, to = Treasury, amount = 1, fee = 0, tax = 0, held = 0
        PROVE  InputsOK
    BY <2>2, <2>3 DEF InputsOK
  <2> HIDE DEF InputsOK
  <2>4. CheckInit => InputKept
    BY DEF CheckInit, InputKept
  <2> QED
    BY <2>1, <2>3, <2>4 DEF CheckInit
<1>2. InputsOK /\ InputKept /\ [CheckNext]_<<vars, input>> => InputsOK' /\ InputKept'
  BY DEF InputsOK, InputKept, CheckNext, Next, vars
<1> QED
  BY <1>1, <1>2, PTL DEF CheckSpec

\* What the lemmas about payments say of this one.
LEMMA PaymentFacts ==
  ASSUME InputsOK
  PROVE  /\ Payment \in Seq(Entry)
         /\ IsJournal(Payment)
         /\ TotalOf(Payment, Debits(Payment)) = AtLeastZero(amount + fee + tax)
         /\ TotalOf(Payment, Credits(Payment)) = amount + AtLeastZero(fee) + AtLeastZero(tax)
         /\ IsPayment(Payment, from, to, amount, amount + fee + tax)
         /\ \A i \in DOMAIN Payment : Payment[i].amount > 0
         /\ Balance \in [Accounts -> Int]
         /\ AccountsOf(Payment) \subseteq Accounts
<1> DEFINE es == Payment
<1>1. /\ from \in Accounts /\ to \in Accounts /\ amount \in Int /\ amount > 0
      /\ fee \in Int /\ tax \in Int /\ held \in Nat /\ amount + fee + tax \in Int
  BY DEF InputsOK
<1>2. es = BuildJournalEntries(from, to, amount, fee, tax)
  BY DEF Payment
<1> HIDE DEF es
<1>3. /\ es \in Seq(Entry)
      /\ TotalOf(es, Debits(es)) = AtLeastZero(amount + fee + tax)
      /\ TotalOf(es, Credits(es)) = amount + AtLeastZero(fee) + AtLeastZero(tax)
  BY <1>1, <1>2, PaymentTotals
<1>4. IsPayment(es, from, to, amount, amount + fee + tax)
  BY <1>1, <1>2, PaymentShape
<1>5. \A i \in DOMAIN es : es[i].amount > 0
  BY <1>1, <1>4, PaymentSides
<1>6. IsJournal(es)
  BY <1>3, EntriesAreJournals
<1>7. AccountsOf(es) \subseteq Accounts
  BY <1>6 DEF AccountsOf, IsJournal
<1>8. Balance \in [Accounts -> Int]
  BY <1>1 DEF Balance
<1> QED
  BY <1>3, <1>4, <1>5, <1>6, <1>7, <1>8 DEF es

LEMMA DebitsOfPayment ==
  ASSUME InputsOK
  PROVE  /\ Debits(Payment) = IF amount + fee + tax > 0 THEN {1} ELSE {}
         /\ Credits(Payment) # {}
         /\ PaidBy(Payment) = IF amount + fee + tax > 0 /\ from \in Wallets THEN {1} ELSE {}
         /\ amount + fee + tax > 0 =>
              /\ ReceivedBy(Payment) = IF to \in Wallets THEN {2} ELSE {}
              /\ Payment[1].account = from
              /\ Payment[2].account = to /\ Payment[2].amount = amount
              /\ 2 \in DOMAIN Payment
         /\ OnWallets(Payment) = PaidBy(Payment) \cup ReceivedBy(Payment)
<1> DEFINE total == amount + fee + tax
           paid == IF total > 0 THEN 1 ELSE 0
<1>1. IsPayment(Payment, from, to, amount, total)
  BY PaymentFacts
<1>2. amount \in Int /\ amount > 0 /\ total \in Int
  BY DEF InputsOK
<1> HIDE DEF total
<1>3. /\ Debits(Payment) = IF total > 0 THEN {1} ELSE {}
      /\ paid + 1 \in Credits(Payment)
      /\ PaidBy(Payment) = IF total > 0 /\ from \in Wallets THEN {1} ELSE {}
      /\ ReceivedBy(Payment) = IF to \in Wallets THEN {paid + 1} ELSE {}
      /\ OnWallets(Payment) = PaidBy(Payment) \cup ReceivedBy(Payment)
  BY <1>1, <1>2, PaymentSides
<1>4. total > 0 => /\ Payment[1].account = from
                   /\ Payment[2].account = to /\ Payment[2].amount = amount
                   /\ 2 \in DOMAIN Payment
  <2> HAVE total > 0
  <2>1. /\ Payment \in Seq(Entry) /\ Len(Payment) >= 2
        /\ Payment[1] = [account |-> from, type |-> "DEBIT", amount |-> total]
        /\ Payment[2] = [account |-> to, type |-> "CREDIT", amount |-> amount]
    BY <1>1 DEF IsPayment
  <2> QED
    BY <2>1
<1>5. total > 0 => paid + 1 = 2
  OBVIOUS
<1> QED
  BY <1>3, <1>4, <1>5 DEF total

-----------------------------------------------------------------------------
LEMMA ValidIff == InputsOK => BuiltJournalsBalance
<1> SUFFICES ASSUME InputsOK PROVE ValidateJournal(Payment) <=> (fee >= 0 /\ tax >= 0)
  BY DEF BuiltJournalsBalance
<1>1. amount \in Int /\ amount > 0 /\ fee \in Int /\ tax \in Int
  BY DEF InputsOK
<1>2. /\ TotalOf(Payment, Debits(Payment)) = AtLeastZero(amount + fee + tax)
      /\ TotalOf(Payment, Credits(Payment)) = amount + AtLeastZero(fee) + AtLeastZero(tax)
      /\ \A i \in DOMAIN Payment : Payment[i].amount > 0
  BY PaymentFacts
<1>3. Debits(Payment) # {} <=> amount + fee + tax > 0
  BY DebitsOfPayment
<1>4. ValidateJournal(Payment) <=>
        /\ amount + fee + tax > 0
        /\ AtLeastZero(amount + fee + tax) = amount + AtLeastZero(fee) + AtLeastZero(tax)
  BY <1>2, <1>3, DebitsOfPayment DEF ValidateJournal
<1> QED
  BY <1>1, <1>4 DEF AtLeastZero

\* buildJournalEntries hands postJournal a balanced journal exactly when neither
\* charge is negative, for every payment validatePaymentRequest lets through.
THEOREM JournalsBalance == CheckSpec => []BuiltJournalsBalance
BY InputsInvariant, ValidIff, PTL

-----------------------------------------------------------------------------
LEMMA RunningBalances ==
  ASSUME InputsOK
  PROVE  /\ DOMAIN Posted.entries = DOMAIN Payment
         /\ Len(Posted.entries) = Len(Payment)
         /\ \A i \in DOMAIN Payment :
              Posted.entries[i].balanceAfter
                = BalancesAfter(Payment, Balance)[i][Payment[i].account]
         /\ Posted.balance = BalancesAfter(Payment, Balance)[Len(Payment)]
         /\ \A i \in 0..Len(Payment) :
              /\ BalancesAfter(Payment, Balance)[i] \in [Accounts -> Int]
              /\ \A a \in Accounts :
                   BalancesAfter(Payment, Balance)[i][a] = Balance[a] + Net(Payment, a, i)
<1>1. IsJournal(Payment) /\ Balance \in [Accounts -> Int] /\ AccountsOf(Payment) \subseteq Accounts
  BY PaymentFacts
<1>2. Posted.entries = [i \in DOMAIN Payment |->
                          [account |-> Payment[i].account, type |-> Payment[i].type,
                           amount |-> Payment[i].amount,
                           balanceAfter |-> BalancesAfter(Payment, Balance)[i][Payment[i].account]]]
      /\ Posted.balance = BalancesAfter(Payment, Balance)[Len(Payment)]
  BY DEF Posted, PrepareLedgerEntries
<1>3. \A i \in 0..Len(Payment) :
              /\ BalancesAfter(Payment, Balance)[i] \in [Accounts -> Int]
              /\ \A a \in Accounts :
                   BalancesAfter(Payment, Balance)[i][a] = Balance[a] + Net(Payment, a, i)
  BY <1>1, BalancesAreNet DEF RunsFrom
<1>4. DOMAIN Posted.entries = 1..Len(Payment) /\ Len(Payment) \in Nat
  BY <1>1, <1>2 DEF IsJournal
<1>5. Len(Posted.entries) = Len(Payment)
  BY <1>2, <1>4
<1> QED
  BY <1>1, <1>2, <1>3, <1>4, <1>5 DEF IsJournal

LEMMA StampsHold == InputsOK => StampsAreRunningBalances
<1> SUFFICES ASSUME InputsOK PROVE StampsAreRunningBalances
  OBVIOUS
<1>1. IsJournal(Payment)
  BY PaymentFacts
<1>2. /\ DOMAIN Payment = 1..Len(Payment) /\ Len(Payment) \in 0..Len(Payment)
      /\ \A i \in DOMAIN Payment : i \in 0..Len(Payment) /\ Payment[i].account \in Accounts
  BY <1>1 DEF IsJournal
<1>3. ASSUME NEW i \in DOMAIN Payment
      PROVE  Posted.entries[i].balanceAfter
               = Balance[Payment[i].account] + Net(Payment, Payment[i].account, i)
  BY <1>2, RunningBalances
<1>4. ASSUME NEW a \in Accounts
      PROVE  Posted.balance[a] = Balance[a] + Net(Payment, a, Len(Payment))
  BY <1>2, RunningBalances
<1>5. Len(Posted.entries) = Len(Payment)
  BY RunningBalances
<1> QED
  BY <1>3, <1>4, <1>5 DEF StampsAreRunningBalances

\* prepareLedgerEntries stamps every entry with the balance it leaves behind, for
\* every journal a payment makes and whatever accounts coincide.
THEOREM StampsRun == CheckSpec => []StampsAreRunningBalances
BY InputsInvariant, StampsHold, PTL

-----------------------------------------------------------------------------
LEMMA DebitCheckHolds == InputsOK => DebitCheckSuffices
<1> SUFFICES ASSUME InputsOK, SufficientBalances(Payment, Balance),
                    NEW i \in DOMAIN Payment, Payment[i].account \in Wallets
             PROVE  Posted.entries[i].balanceAfter >= 0
  BY DEF DebitCheckSuffices
<1>1. IsJournal(Payment) /\ Balance \in [Accounts -> Int] /\ AccountsOf(Payment) \subseteq Accounts
      /\ \A j \in DOMAIN Payment : Payment[j].amount > 0
  BY PaymentFacts
<1>2. \A j, k \in Debits(Payment) : j = k
  BY DebitsOfPayment
<1>3. \A w \in Wallets \cap Accounts : Balance[w] >= 0
  BY DEF Balance, InputsOK
<1>4. i \in 0..Len(Payment) /\ Payment[i].account \in Wallets \cap Accounts
  BY <1>1 DEF IsJournal
<1>5. \A j \in 0..Len(Payment) : \A w \in Wallets \cap Accounts :
        BalancesAfter(Payment, Balance)[j][w] >= 0
  BY <1>1, <1>2, <1>3, NoWalletBelowZero
<1>6. Posted.entries[i].balanceAfter = BalancesAfter(Payment, Balance)[i][Payment[i].account]
  BY RunningBalances
<1> QED
  BY <1>4, <1>5, <1>6

\* validateBalances compares single debits with the balance before the journal; for
\* the journals payments make that keeps every wallet from going below zero.
THEOREM DebitsAreCovered == CheckSpec => []DebitCheckSuffices
BY InputsInvariant, DebitCheckHolds, PTL

-----------------------------------------------------------------------------
\* What the two entries of a refund move.
LEMMA RefundNet ==
  ASSUME NEW t \in Accounts, NEW f \in Accounts, NEW n \in Int, NEW b,
         NEW rs, rs = <<[account |-> t, type |-> "DEBIT", amount |-> n],
                        [account |-> f, type |-> "CREDIT", amount |-> n]>>
  PROVE  /\ IsJournal(rs) /\ Len(rs) = 2
         /\ Net(rs, b, 2) = (IF b = t THEN - n ELSE 0) + (IF b = f THEN n ELSE 0)
<1>1. /\ Len(rs) = 2 /\ DOMAIN rs = 1..2
      /\ rs[1].account = t /\ rs[1].type = "DEBIT" /\ rs[1].amount = n
      /\ rs[2].account = f /\ rs[2].type = "CREDIT" /\ rs[2].amount = n
  OBVIOUS
<1>2. IsJournal(rs)
  BY <1>1 DEF IsJournal, EntryType
<1>3. Signed(rs[1]) = - n /\ Signed(rs[2]) = n
  BY <1>1 DEF Signed
<1>4. 1 \in 1..Len(rs) /\ 2 \in 1..Len(rs) /\ 1 - 1 = 0 /\ 2 - 1 = 1
  BY <1>1
<1>5. Net(rs, b, 1) = Net(rs, b, 1 - 1) + (IF rs[1].account = b THEN Signed(rs[1]) ELSE 0)
      /\ Net(rs, b, 2) = Net(rs, b, 2 - 1) + (IF rs[2].account = b THEN Signed(rs[2]) ELSE 0)
  BY <1>2, <1>4, NetStep
<1>6. Net(rs, b, 0) = 0
  BY NetZero
<1> QED
  BY <1>1, <1>2, <1>3, <1>4, <1>5, <1>6

LEMMA RefundableIff ==
  ASSUME InputsOK, amount + fee + tax > 0
  PROVE  Refundable(Payment, amount) <=> {from, to} \subseteq Wallets
<1>1. /\ PaidBy(Payment) = IF from \in Wallets THEN {1} ELSE {}
      /\ ReceivedBy(Payment) = IF to \in Wallets THEN {2} ELSE {}
      /\ OnWallets(Payment) = PaidBy(Payment) \cup ReceivedBy(Payment)
      /\ 2 \in DOMAIN Payment /\ Payment[2].amount = amount
  BY DebitsOfPayment
<1>2. CASE ~({from, to} \subseteq Wallets)
  <2>1. PaidBy(Payment) = {} \/ ReceivedBy(Payment) = {}
    BY <1>1, <1>2
  <2> QED
    BY <1>2, <2>1 DEF Refundable
<1>3. CASE {from, to} \subseteq Wallets
  <2>1. PaidBy(Payment) = {1} /\ ReceivedBy(Payment) = {2}
    BY <1>1, <1>3
  <2>2. OnWallets(Payment) = {1} \cup {2}
    BY <1>1, <2>1
  <2>3. Cardinality({1} \cup {2}) = 2
    <3>1. IsFiniteSet({1}) /\ Cardinality({1}) = 1
      BY FS_Singleton
    <3>2. 2 \notin {1}
      OBVIOUS
    <3>3. Cardinality({1} \cup {2}) = Cardinality({1}) + 1
      BY <3>1, <3>2, FS_AddElement
    <3> QED
      BY <3>1, <3>3
  <2>4. TotalOf(Payment, {2}) = amount
    <3> DEFINE g == [i \in DOMAIN Payment |-> Payment[i].amount]
    <3>1. g[2] = amount /\ g[2] \in Int
      BY <1>1 DEF InputsOK
    <3> HIDE DEF g
    <3>2. SumFunctionOnSet(g, {2}) = g[2]
      BY <3>1, SumSingle
    <3> QED
      BY <3>1, <3>2 DEF TotalOf, g
  <2>5. Cardinality(OnWallets(Payment)) = 2
    BY <2>2, <2>3
  <2>6. TotalOf(Payment, ReceivedBy(Payment)) = amount
    BY <2>1, <2>4
  <2> QED
    BY <1>3, <2>1, <2>5, <2>6 DEF Refundable
<1> QED
  BY <1>2, <1>3

LEMMA RefundHolds == InputsOK => RefundUndoesPayment
<1> SUFFICES ASSUME InputsOK, ValidateJournal(Payment)
             PROVE  /\ Refundable(Payment, amount) <=> {from, to} \subseteq Wallets
                    /\ Refundable(Payment, amount) =>
                         LET refunded == PrepareLedgerEntries(RefundEntries(Payment), Posted.balance).balance
                         IN  \A a \in Accounts :
                               refunded[a] = Balance[a] - (IF a = from THEN fee + tax ELSE 0)
                                                        + (IF a = FeeRevenue THEN fee ELSE 0)
                                                        + (IF a = Treasury THEN tax ELSE 0)
  BY DEF RefundUndoesPayment
<1>1. fee >= 0 /\ tax >= 0
  BY ValidIff DEF BuiltJournalsBalance
<1>2. /\ from \in Accounts /\ to \in Accounts /\ amount \in Int /\ amount > 0
      /\ fee \in Int /\ tax \in Int /\ amount + fee + tax > 0
  BY <1>1 DEF InputsOK
<1>3. AtLeastZero(fee) = fee /\ AtLeastZero(tax) = tax
      /\ AtLeastZero(amount + fee + tax) = amount + fee + tax
  BY <1>1, <1>2 DEF AtLeastZero
<1>4. Refundable(Payment, amount) <=> {from, to} \subseteq Wallets
  BY <1>2, RefundableIff
<1>5. ASSUME Refundable(Payment, amount), NEW a \in Accounts
      PROVE  PrepareLedgerEntries(RefundEntries(Payment), Posted.balance).balance[a]
               = Balance[a] - (IF a = from THEN fee + tax ELSE 0)
                            + (IF a = FeeRevenue THEN fee ELSE 0)
                            + (IF a = Treasury THEN tax ELSE 0)
  <2> DEFINE rs == RefundEntries(Payment)
  <2>1. from \in Wallets /\ to \in Wallets
    BY <1>4, <1>5
  <2>2. PaidBy(Payment) = {1} /\ ReceivedBy(Payment) = {2}
        /\ Payment[1].account = from /\ Payment[2].account = to /\ Payment[2].amount = amount
    BY <1>2, <2>1, DebitsOfPayment
  <2>3. rs = <<[account |-> to, type |-> "DEBIT", amount |-> amount],
               [account |-> from, type |-> "CREDIT", amount |-> amount]>>
    <3>1. IsJournal(Payment)
      BY PaymentFacts
    <3>2. PICK p \in PaidBy(Payment) :
            rs = <<[account |-> Payment[2].account, type |-> "DEBIT", amount |-> Payment[2].amount],
                   [account |-> Payment[p].account, type |-> "CREDIT", amount |-> Payment[2].amount]>>
      BY <2>2, <3>1, RefundShape
    <3>3. p = 1
      BY <2>2
    <3> QED
      BY <2>2, <3>2, <3>3
  <2> HIDE DEF rs
  <2>4. /\ IsJournal(rs) /\ Len(rs) = 2
        /\ Net(rs, a, 2) = (IF a = to THEN - amount ELSE 0) + (IF a = from THEN amount ELSE 0)
    BY <1>2, <2>3, RefundNet
  <2>5. Posted.balance \in [Accounts -> Int]
        /\ Posted.balance[a] = Balance[a] + Net(Payment, a, Len(Payment))
    <3>1. Len(Payment) \in 0..Len(Payment)
      BY PaymentFacts DEF IsJournal
    <3> QED
      BY <3>1, RunningBalances
  <2>6. AccountsOf(rs) \subseteq Accounts
    BY <2>4 DEF AccountsOf, IsJournal
  <2>7. PrepareLedgerEntries(rs, Posted.balance).balance = BalancesAfter(rs, Posted.balance)[2]
    BY <2>4 DEF PrepareLedgerEntries
  <2>8. BalancesAfter(rs, Posted.balance)[2][a] = Posted.balance[a] + Net(rs, a, 2)
    <3>1. 2 \in 0..Len(rs)
      BY <2>4
    <3>2. Posted.balance \in [Accounts -> Int]
      BY <2>5
    <3> DEFINE pb == Posted.balance
    <3> HIDE DEF pb
    <3>3. pb \in [Accounts -> Int] /\ IsJournal(rs) /\ AccountsOf(rs) \subseteq Accounts
      BY <2>4, <2>6, <3>2 DEF pb
    <3>4. \A i \in 0..Len(rs) :
            /\ BalancesAfter(rs, pb)[i] \in [Accounts -> Int]
            /\ \A c \in Accounts : BalancesAfter(rs, pb)[i][c] = pb[c] + Net(rs, c, i)
      BY <3>3, BalancesAreNet DEF RunsFrom
    <3> QED
      BY <3>1, <3>4 DEF pb
  <2>9. Net(Payment, a, Len(Payment)) = (IF a = from THEN - (amount + fee + tax) ELSE 0)
                                          + (IF a = to THEN amount ELSE 0)
                                          + (IF a = FeeRevenue THEN fee ELSE 0)
                                          + (IF a = Treasury THEN tax ELSE 0)
    <3> DEFINE es == Payment
    <3>1. es = BuildJournalEntries(from, to, amount, fee, tax)
      BY DEF Payment
    <3> HIDE DEF es
    <3>2. Net(es, a, Len(es)) = (IF a = from THEN - AtLeastZero(amount + fee + tax) ELSE 0)
                                   + (IF a = to THEN amount ELSE 0)
                                   + (IF a = FeeRevenue THEN AtLeastZero(fee) ELSE 0)
                                   + (IF a = Treasury THEN AtLeastZero(tax) ELSE 0)
      BY <1>2, <3>1, PaymentTotals
    <3> QED
      BY <1>3, <3>2 DEF es
  <2>10. Balance[a] \in Int
    BY PaymentFacts
  <2>11. PrepareLedgerEntries(rs, Posted.balance).balance[a]
           = Balance[a] + Net(Payment, a, Len(Payment)) + Net(rs, a, 2)
    BY <2>5, <2>7, <2>8
  <2>12. PrepareLedgerEntries(rs, Posted.balance).balance[a]
           = Balance[a] - (IF a = from THEN fee + tax ELSE 0)
                        + (IF a = FeeRevenue THEN fee ELSE 0)
                        + (IF a = Treasury THEN tax ELSE 0)
    <3>1. ASSUME NEW q \in Int, q = (IF a = from THEN - (amount + fee + tax) ELSE 0)
                                         + (IF a = to THEN amount ELSE 0)
                                         + (IF a = FeeRevenue THEN fee ELSE 0)
                                         + (IF a = Treasury THEN tax ELSE 0),
                 NEW r \in Int, r = (IF a = to THEN - amount ELSE 0) + (IF a = from THEN amount ELSE 0),
                 NEW s \in Int
          PROVE  s + q + r = s - (IF a = from THEN fee + tax ELSE 0)
                               + (IF a = FeeRevenue THEN fee ELSE 0)
                               + (IF a = Treasury THEN tax ELSE 0)
      <4>1. CASE a = from /\ a = to
        BY <1>2, <3>1, <4>1
      <4>2. CASE a = from /\ a # to
        BY <1>2, <3>1, <4>2
      <4>3. CASE a # from /\ a = to
        BY <1>2, <3>1, <4>3
      <4>4. CASE a # from /\ a # to
        BY <1>2, <3>1, <4>4
      <4> QED
        BY <4>1, <4>2, <4>3, <4>4
    <3>2. Net(Payment, a, Len(Payment)) \in Int /\ Net(rs, a, 2) \in Int
      BY <1>2, <2>4, <2>9
    <3> QED
      BY <2>4, <2>9, <2>10, <2>11, <3>1, <3>2
  <2> QED
    BY <2>12 DEF rs
<1> QED
  BY <1>4, <1>5

\* A posted payment can be refunded exactly when it went from wallet to wallet, and
\* the refund puts every balance back but for the fee and the tax.
THEOREM RefundsUndo == CheckSpec => []RefundUndoesPayment
BY InputsInvariant, RefundHolds, PTL

-----------------------------------------------------------------------------
(* The wallet page.                                                        *)

\* A text that was typed, or an empty field, whatever its digits.
TypedText == {Unset} \cup [rupees : Nat, decimals : Seq(Int)]

LEMMA TypedIsNat ==
  ASSUME NEW text \in TypedText, M!IsAmount(text)
  PROVE  M!parseMoneyToMinorUnits(text) \in Nat
<1> DEFINE d == text.decimals
<1>1. /\ text.rupees \in Nat /\ d \in Seq(Int) /\ Len(d) \in 0..2
      /\ \A i \in DOMAIN d : d[i] \in 0..9
  <2>1. text # Unset /\ Len(d) <= 2 /\ \A i \in DOMAIN d : d[i] \in 0..9
    BY DEF M!IsAmount
  <2>2. text \in [rupees : Nat, decimals : Seq(Int)]
    BY <2>1 DEF TypedText
  <2>3. text.rupees \in Nat /\ d \in Seq(Int)
    BY <2>2
  <2> HIDE DEF d
  <2>4. Len(d) \in Nat
    BY <2>3
  <2>5. Len(d) \in 0..2
    <3>1. \A n \in Nat : n <= 2 => n \in 0..2
      OBVIOUS
    <3> QED
      BY <2>1, <2>4, <3>1
  <2> QED
    BY <2>1, <2>3, <2>5
<1>2. M!parseMoneyToMinorUnits(text) = text.rupees * 100 + M!Paise(d)
  BY DEF M!parseMoneyToMinorUnits
<1> HIDE DEF d
<1>3. M!Paise(d) \in Nat
  <2>1. CASE Len(d) = 0
    <3>1. M!Paise(d) = 0
      BY <2>1 DEF M!Paise
    <3> QED
      BY <3>1
  <2>2. CASE Len(d) = 1
    <3>1. d[1] \in 0..9
      BY <1>1, <2>2
    <3>2. M!Paise(d) = 10 * d[1]
      BY <2>2 DEF M!Paise
    <3> QED
      BY <3>1, <3>2
  <2>3. CASE Len(d) = 2
    <3>1. d[1] \in 0..9 /\ d[2] \in 0..9
      BY <1>1, <2>3
    <3>2. M!Paise(d) = 10 * d[1] + d[2]
      BY <2>3 DEF M!Paise
    <3> QED
      BY <3>1, <3>2
  <2> QED
    BY <1>1, <2>1, <2>2, <2>3
<1> QED
  BY <1>1, <1>2, <1>3

\* A number of minor units that is formatted and typed again is that number.
LEMMA FormattedIsEntered ==
  ASSUME NEW n \in Nat
  PROVE  M!parseMoneyToMinorUnits(M!formatMoney(n)) = n
<1> DEFINE f == M!formatMoney(n)
           q == n \div 100
           r == n % 100
<1>1. q \in Nat /\ r \in 0..99 /\ n = (100 * q) + r
  OBVIOUS
<1>2. r \div 10 \in Nat /\ n % 10 \in Nat /\ r = (10 * (r \div 10)) + (n % 10)
  <2>1. n % 10 = r % 10
    BY <1>1
  <2>2. r \div 10 \in Nat /\ r % 10 \in Nat /\ r = (10 * (r \div 10)) + (r % 10)
    BY <1>1
  <2> QED
    BY <2>1, <2>2
<1>3. f = [negative |-> FALSE, rupees |-> q, decimals |-> <<r \div 10, n % 10>>]
  <2>1. ~(n < 0)
    OBVIOUS
  <2>2. f = [negative |-> n < 0, rupees |-> n \div 100,
             decimals |-> <<(n % 100) \div 10, n % 10>>]
    BY <2>1 DEF M!formatMoney
  <2>3. (n < 0) = FALSE
    BY <2>1
  <2> QED
    BY <2>2, <2>3
<1> HIDE DEF f, q, r
<1>4. f.rupees = q /\ f.decimals = <<r \div 10, n % 10>>
  BY <1>3
<1>5. M!Paise(f.decimals) = (10 * (r \div 10)) + (n % 10)
  <2> DEFINE d == <<r \div 10, n % 10>>
  <2>1. Len(d) = 2 /\ d[1] = r \div 10 /\ d[2] = n % 10
    OBVIOUS
  <2> HIDE DEF d
  <2>2. M!Paise(d) = 10 * d[1] + d[2]
    BY <2>1 DEF M!Paise
  <2> QED
    BY <1>4, <2>1, <2>2 DEF d
<1>6. M!parseMoneyToMinorUnits(f) = f.rupees * 100 + M!Paise(f.decimals)
  BY DEF M!parseMoneyToMinorUnits
<1>7. M!Paise(f.decimals) = r
  BY <1>2, <1>5
<1> QED
  BY <1>1, <1>4, <1>6, <1>7 DEF f

\* The fields that are not ticked count for nothing.
LEMMA ChargeIsNat ==
  ASSUME NEW applies \in BOOLEAN, NEW text \in TypedText,
         applies => M!IsAmount(text) \/ text = Unset
  PROVE  M!OrZero(applies, text) \in Nat
<1>1. CASE applies /\ text # Unset
  <2>1. M!parseMoneyToMinorUnits(text) \in Nat
    BY <1>1, TypedIsNat
  <2> QED
    BY <1>1, <2>1 DEF M!OrZero
<1>2. CASE ~(applies /\ text # Unset)
  BY <1>2 DEF M!OrZero
<1> QED
  BY <1>1, <1>2

\* Whatever texts are typed: the total that is shown is what the payer is debited, the
\* amount that is shown what the payee is credited.
LEMMA ShownIsCharged ==
  ASSUME NEW form, form.amount \in TypedText, form.tax \in TypedText, form.fee \in TypedText,
         form.applyTax \in BOOLEAN, form.applyFee \in BOOLEAN, M!Sent(form),
         NEW payer \in Wallets, NEW payee \in Wallets, payer # payee,
         NEW request, request = M!buildRequest(form),
         NEW journal, journal = BuildJournalEntries(payer, payee, request.amount, request.fee,
                                                    request.tax)
  PROVE  /\ Net(journal, payer, Len(journal))
              = - M!parseMoneyToMinorUnits(M!formatMoney(M!summary(form).total))
         /\ Net(journal, payee, Len(journal))
              = M!parseMoneyToMinorUnits(M!formatMoney(M!summary(form).amount))
<1> DEFINE amt == M!parseMoneyToMinorUnits(form.amount)
           f   == M!OrZero(form.applyFee, form.fee)
           t   == M!OrZero(form.applyTax, form.tax)
<1>1. /\ M!IsAmount(form.amount) /\ form.amount # Unset /\ amt > 0
      /\ M!Readable(form)
      /\ form.applyTax => M!IsAmount(form.tax) \/ form.tax = Unset
      /\ form.applyFee => M!IsAmount(form.fee) \/ form.fee = Unset
  BY DEF M!Sent, M!Readable, M!IsAmount
<1>2. amt \in Nat /\ f \in Nat /\ t \in Nat
  BY <1>1, TypedIsNat, ChargeIsNat
<1>3. request.amount = amt /\ request.fee = f /\ request.tax = t
  BY DEF M!buildRequest
<1>4. M!OrZero(TRUE, form.amount) = amt
  BY <1>1 DEF M!OrZero
<1>5. M!summary(form).amount = amt /\ M!summary(form).total = amt + t + f
  BY <1>1, <1>4 DEF M!summary
<1> HIDE DEF amt, f, t
<1>6. /\ M!parseMoneyToMinorUnits(M!formatMoney(amt)) = amt
      /\ M!parseMoneyToMinorUnits(M!formatMoney(amt + t + f)) = amt + t + f
  BY <1>2, FormattedIsEntered
<1>7. payer \in Accounts /\ payee \in Accounts /\ payer \notin {FeeRevenue, Treasury}
      /\ payee \notin {FeeRevenue, Treasury}
  BY AccountTypes DEF Accounts
<1>8. amt > 0
  BY <1>1 DEF amt
<1>9. /\ Net(journal, payer, Len(journal)) = - AtLeastZero(amt + f + t) + 0 + 0 + 0
      /\ Net(journal, payee, Len(journal)) = 0 + amt + 0 + 0
  BY <1>2, <1>3, <1>7, <1>8, PaymentTotals
<1>10. AtLeastZero(amt + f + t) = amt + t + f
  BY <1>2, <1>8 DEF AtLeastZero
<1> QED
  BY <1>2, <1>5, <1>6, <1>9, <1>10

LEMMA FormsAreTyped ==
  ASSUME NEW form \in Forms
  PROVE  /\ form.amount \in TypedText /\ form.tax \in TypedText /\ form.fee \in TypedText
         /\ form.applyTax \in BOOLEAN /\ form.applyFee \in BOOLEAN
<1>1. Texts \subseteq TypedText
  <2>1. 0..1 \subseteq Nat
    OBVIOUS
  <2>2. {<<>>, <<5>>, <<0, 5>>, <<9, 9>>, <<1, 2, 3>>} \subseteq Seq(Int)
    OBVIOUS
  <2> QED
    BY <2>1, <2>2 DEF Texts, TypedText
<1> QED
  BY <1>1 DEF Forms

LEMMA KindOfForms ==
  ASSUME InputKept, IsInput("form")
  PROVE  input \in Forms
<1>1. input \in Requests \cup Forms \cup K6Runs /\ input.kind = "form"
  BY DEF InputKept, IsInput
<1>2. \A r \in Requests : r.kind = "load"
  BY DEF Requests
<1>3. \A k \in K6Runs : k.kind = "summary"
  BY DEF K6Runs
<1> QED
  BY <1>1, <1>2, <1>3

LEMMA ChargeHolds == InputKept => PayerIsChargedWhatWasShown
<1> SUFFICES ASSUME InputKept, IsInput("form"), M!Sent(input),
                    NEW payer \in Wallets, NEW payee \in Wallets, payer # payee,
                    NEW request, request = M!buildRequest(input),
                    NEW journal,
                    journal = BuildJournalEntries(payer, payee, request.amount, request.fee,
                                                  request.tax)
             PROVE  /\ Net(journal, payer, Len(journal))
                         = - M!parseMoneyToMinorUnits(M!formatMoney(M!summary(input).total))
                    /\ Net(journal, payee, Len(journal))
                         = M!parseMoneyToMinorUnits(M!formatMoney(M!summary(input).amount))
  BY DEF PayerIsChargedWhatWasShown
<1> QED
  BY KindOfForms, FormsAreTyped, ShownIsCharged

\* What the wallet page shows as the total is what buildJournalEntries debits the payer,
\* and what it shows as the amount is what the payee is credited: between any two
\* wallets, and (ShownIsCharged) whatever is typed into the form.
THEOREM ChargedAsShown == CheckSpec => []PayerIsChargedWhatWasShown
BY InputsInvariant, ChargeHolds, PTL

-----------------------------------------------------------------------------
(* Load tests.                                                             *)

\* What FoldLeft takes next is the last element of those that remain.
LEMMA LastOf ==
  ASSUME NEW S \in SUBSET Nat, IsFiniteSet(S), S # {}
  PROVE  L!Max(S) \in S /\ \A y \in S : y <= L!Max(S)
<1>1. \E n \in S : \A m \in S : n >= m
  <2>1. PICK n \in S : \A m \in S : m <= n
    BY GreatestNumber
  <2>2. \A m \in S : n >= m
    BY <2>1
  <2> QED
    BY <2>2
<1>2. L!Max(S) \in S /\ \A y \in S : L!Max(S) >= y
  BY <1>1 DEF L!Max
<1> QED
  BY <1>2

LEMMA LastOfSubset ==
  ASSUME NEW n \in Nat, NEW s \in SUBSET (1..n), s # {}
  PROVE  L!Max(s) \in s /\ IsFiniteSet(s)
<1>1. IsFiniteSet(1..n) /\ 1..n \subseteq Nat
  BY FS_Interval
<1>2. IsFiniteSet(s) /\ s \in SUBSET Nat
  BY <1>1, FS_Subset
<1> QED
  BY <1>2, LastOf

\* What FoldLeft makes of a sum: the last position of those that remain is taken off.
Adds(g, n, d, last) ==
    g = [s \in SUBSET (1..n) |-> IF s = {} THEN 0 ELSE g[s \ {last[s]}] + d[last[s]]]

LEMMA FoldIsSum ==
  ASSUME NEW n \in Nat, NEW d, \A i \in 1..n : d[i] \in Int,
         NEW last, \A s \in SUBSET (1..n) : s # {} => last[s] \in s
  PROVE  /\ \E g : Adds(g, n, d, last)
         /\ \A g : Adds(g, n, d, last) => g[1..n] = SumFunctionOnSet(d, 1..n)
<1> DEFINE D == 1..n
           h == [s \in SUBSET D |-> SumFunctionOnSet(d, s)]
<1>1. IsFiniteSet(D)
  BY FS_Interval
<1>2. ASSUME NEW s \in SUBSET D, s # {}
      PROVE  /\ last[s] \in s /\ s \ {last[s]} \in SUBSET D
             /\ SumFunctionOnSet(d, s) = SumFunctionOnSet(d, s \ {last[s]}) + d[last[s]]
  <2> DEFINE x == last[s]
  <2>1. x \in s /\ IsFiniteSet(s) /\ IsFiniteSet(s \ {x})
    BY <1>1, <1>2, FS_Subset
  <2>2. d[x] \in Int
    BY <2>1
  <2>3. (\A i \in s : d[i] \in Int) /\ (\A i \in s \ {x} : d[i] \in Int)
    OBVIOUS
  <2> HIDE DEF x, D
  <2>4. /\ SumFunctionOnSet(d, s) = d[x] + SumFunctionOnSet(d, s \ {x})
        /\ SumFunctionOnSet(d, s \ {x}) \in Int
    BY <2>1, <2>3, SumRemove
  <2>5. SumFunctionOnSet(d, s) = SumFunctionOnSet(d, s \ {x}) + d[x]
    BY <2>2, <2>4
  <2> QED
    BY <2>1, <2>5 DEF x
<1>3. Adds(h, n, d, last)
  <2>1. \A s \in SUBSET D : h[s] = IF s = {} THEN 0 ELSE h[s \ {last[s]}] + d[last[s]]
    BY <1>2, SumEmpty
  <2>2. h = [s \in SUBSET D |-> h[s]]
    OBVIOUS
  <2> HIDE DEF h
  <2> QED
    BY <2>1, <2>2 DEF Adds
<1>4. ASSUME NEW g, Adds(g, n, d, last) PROVE g[D] = SumFunctionOnSet(d, D)
  <2> DEFINE F == {s \in SUBSET D : g[s] = SumFunctionOnSet(d, s)}
  <2>1. \A s \in SUBSET D : g[s] = IF s = {} THEN 0 ELSE g[s \ {last[s]}] + d[last[s]]
    BY <1>4 DEF Adds
  <2>2. {} \in F
    BY <2>1, SumEmpty
  <2>3. ASSUME NEW s \in SUBSET D, s # {}, \A x \in s : s \ {x} \in F PROVE s \in F
    BY <1>2, <2>1, <2>3
  <2>4. SUBSET D \subseteq F
    <3> HIDE DEF F, D
    <3> QED
      BY <1>1, <2>2, <2>3, SubsetInduction
  <2> QED
    BY <2>4
<1> QED
  BY <1>3, <1>4

\* calculateStageDuration adds up the durations.
LEMMA StageDurations ==
  ASSUME NEW stages, NEW n \in Nat, DOMAIN stages = 1..n,
         NEW d, d = [i \in 1..n |-> L!durationToSeconds(stages[i].duration)],
         \A i \in 1..n : d[i] \in Int
  PROVE  L!calculateStageDuration(stages) = SumFunctionOnSet(d, 1..n)
<1> DEFINE Iter(g) == g = [s \in SUBSET (1..n) |->
                            IF s = {} THEN 0
                            ELSE g[s \ {L!Max(s)}]
                                   + L!durationToSeconds(stages[L!Max(s)].duration)]
           it == CHOOSE g : Iter(g)
           last == [s \in SUBSET (1..n) |-> L!Max(s)]
<1>1. L!calculateStageDuration(stages) = it[1..n]
  BY DEF L!calculateStageDuration, L!FoldLeft, L!MapThenFoldSet
<1>2. \A s \in SUBSET (1..n) : s # {} => last[s] = L!Max(s) /\ L!Max(s) \in s
  BY LastOfSubset
<1>3. \A g : Iter(g) <=> Adds(g, n, d, last)
  BY <1>2 DEF Adds
<1> HIDE DEF last, Iter
<1>4. Adds(it, n, d, last)
  BY <1>2, <1>3, FoldIsSum
<1> HIDE DEF it
<1> QED
  BY <1>1, <1>2, <1>4, FoldIsSum
\* getMaximumStageVUs is the largest target.
LEMMA StageVUs ==
  ASSUME NEW stages, NEW n \in Nat, DOMAIN stages = 1..n,
         \A i \in 1..n : stages[i].target \in Nat
  PROVE  LET most == L!getMaximumStageVUs(stages) IN
         /\ most \in Nat
         /\ \A i \in 1..n : stages[i].target <= most
         /\ most = 0 \/ \E i \in 1..n : stages[i].target = most
<1> DEFINE D == 1..n
           T(i) == stages[i].target
           Iter(g) == g = [s \in SUBSET D |->
                            IF s = {} THEN 0
                            ELSE IF T(L!Max(s)) > g[s \ {L!Max(s)}] THEN T(L!Max(s))
                                 ELSE g[s \ {L!Max(s)}]]
           IsMost(m, s) == /\ m \in Nat
                           /\ \A i \in s : T(i) <= m
                           /\ m = 0 \/ \E i \in s : T(i) = m
           most(s) == CHOOSE m : IsMost(m, s)
           h == [s \in SUBSET D |-> most(s)]
           it == CHOOSE g : Iter(g)
<1>1. L!getMaximumStageVUs(stages) = it[D]
  BY DEF L!getMaximumStageVUs, L!FoldLeft, L!MapThenFoldSet
<1>2. ASSUME NEW s \in SUBSET D, s # {}
      PROVE  L!Max(s) \in s /\ s \ {L!Max(s)} \in SUBSET D
  BY <1>2, LastOfSubset
<1>3. ASSUME NEW s \in SUBSET D, NEW m, NEW k, IsMost(m, s), IsMost(k, s)
      PROVE  m = k
  <2>1. m \in Nat /\ k \in Nat
    BY <1>3
  <2>2. m <= k
    <3>1. CASE m = 0
      BY <2>1, <3>1
    <3>2. CASE \E i \in s : T(i) = m
      BY <1>3, <3>2
    <3> QED
      BY <1>3, <3>1, <3>2
  <2>3. k <= m
    <3>1. CASE k = 0
      BY <2>1, <3>1
    <3>2. CASE \E i \in s : T(i) = k
      BY <1>3, <3>2
    <3> QED
      BY <1>3, <3>1, <3>2
  <2> QED
    BY <2>1, <2>2, <2>3
<1>4. ASSUME NEW s \in SUBSET D, NEW x \in s, NEW m, IsMost(m, s \ {x})
      PROVE  IsMost(IF T(x) > m THEN T(x) ELSE m, s)
  <2>1. m \in Nat /\ T(x) \in Nat /\ \A i \in s : T(i) \in Nat
    BY <1>4
  <2>2. CASE T(x) > m
    <3>1. \A i \in s : T(i) <= T(x)
      <4> SUFFICES ASSUME NEW i \in s PROVE T(i) <= T(x)
        OBVIOUS
      <4>1. CASE i = x
        BY <2>1, <4>1
      <4>2. CASE i # x
        <5>1. T(i) <= m
          BY <1>4, <4>2
        <5> HIDE DEF T
        <5> QED
          BY <2>1, <2>2, <5>1
      <4> QED
        BY <4>1, <4>2
    <3> QED
      BY <2>1, <2>2, <3>1
  <2>3. CASE ~(T(x) > m)
    <3>1. T(x) <= m
      BY <2>1, <2>3
    <3> QED
      BY <1>4, <2>1, <2>3, <3>1
  <2> QED
    BY <2>2, <2>3
<1> HIDE DEF IsMost, T
<1> DEFINE F == {s \in SUBSET D : IsMost(most(s), s)}
<1>5. {} \in F
  <2>1. IsMost(0, {})
    BY DEF IsMost
  <2> QED
    BY <2>1
<1>6. ASSUME NEW s \in SUBSET D, s # {}, \A x \in s : s \ {x} \in F PROVE s \in F
  <2>1. PICK x \in s : IsMost(most(s \ {x}), s \ {x})
    BY <1>6
  <2>2. \E m : IsMost(m, s)
    BY <1>4, <2>1
  <2> QED
    BY <2>2
<1>7. SUBSET D \subseteq F
  <2>1. IsFiniteSet(D)
    BY FS_Interval
  <2> HIDE DEF F, D
  <2> QED
    BY <1>5, <1>6, <2>1, SubsetInduction
<1>8. \A s \in SUBSET D : IsMost(most(s), s)
  BY <1>7
<1> HIDE DEF most, F
<1>9. Iter(h)
  <2>1. ASSUME NEW s \in SUBSET D
        PROVE  h[s] = IF s = {} THEN 0
                      ELSE IF T(L!Max(s)) > h[s \ {L!Max(s)}] THEN T(L!Max(s))
                           ELSE h[s \ {L!Max(s)}]
    <3>1. CASE s = {}
      <4>1. IsMost(0, {})
        BY DEF IsMost
      <4> QED
        BY <1>3, <1>8, <3>1, <4>1
    <3>2. CASE s # {}
      <4> DEFINE x == L!Max(s)
      <4>1. x \in s /\ s \ {x} \in SUBSET D
        BY <1>2, <3>2
      <4> HIDE DEF x, D
      <4>2. h[s \ {x}] = most(s \ {x}) /\ h[s] = most(s)
        BY <4>1
      <4>3. IsMost(IF T(x) > most(s \ {x}) THEN T(x) ELSE most(s \ {x}), s)
        BY <1>4, <1>8, <4>1
      <4>4. most(s) = IF T(x) > most(s \ {x}) THEN T(x) ELSE most(s \ {x})
        BY <1>3, <1>8, <4>3
      <4> QED
        BY <3>2, <4>2, <4>4 DEF x
    <3> QED
      BY <3>1, <3>2
  <2> HIDE DEF D
  <2> QED
    BY <2>1
<1>10. Iter(it)
  <2> HIDE DEF h
  <2>1. \E g : Iter(g)
    BY <1>9
  <2> HIDE DEF Iter
  <2> QED
    BY <2>1
<1>11. ASSUME NEW s \in SUBSET D
       PROVE  it[s] = IF s = {} THEN 0
                      ELSE IF T(L!Max(s)) > it[s \ {L!Max(s)}] THEN T(L!Max(s))
                           ELSE it[s \ {L!Max(s)}]
  <2> HIDE DEF it, D
  <2> QED
    BY <1>10
<1> HIDE DEF it, Iter, h
<1> DEFINE G == {s \in SUBSET D : IsMost(it[s], s)}
<1>12. {} \in G
  <2>1. it[{}] = 0
    BY <1>11
  <2>2. IsMost(0, {})
    BY DEF IsMost
  <2> QED
    BY <2>1, <2>2
<1>13. ASSUME NEW s \in SUBSET D, s # {}, \A x \in s : s \ {x} \in G PROVE s \in G
  BY <1>2, <1>4, <1>11, <1>13
<1>14. SUBSET D \subseteq G
  <2>1. IsFiniteSet(D)
    BY FS_Interval
  <2> HIDE DEF G, D
  <2> QED
    BY <1>12, <1>13, <2>1, SubsetInduction
<1>15. IsMost(it[D], D)
  BY <1>14
<1> QED
  BY <1>1, <1>15 DEF IsMost, T

\* A sum over the first n positions, from its running totals.
IsRunningTotal(t, d, n) ==
    /\ t[0] = 0
    /\ \A i \in 1..n : d[i] \in Int /\ t[i] = t[i - 1] + d[i]

LEMMA RunningTotal ==
  ASSUME NEW d, NEW t, NEW n \in Nat, IsRunningTotal(t, d, n)
  PROVE  SumFunctionOnSet(d, 1..n) = t[n]
<1> USE DEF IsRunningTotal
<1> DEFINE T == {k \in Nat : k <= n => SumFunctionOnSet(d, 1..k) = t[k]}
<1>1. 0 \in T
  <2>1. 1..0 = {}
    OBVIOUS
  <2> QED
    BY <2>1, SumEmpty
<1>2. ASSUME NEW k \in Nat, k \in T PROVE k + 1 \in T
  <2> SUFFICES ASSUME NEW m \in Nat, m = k + 1, m <= n
               PROVE  SumFunctionOnSet(d, 1..m) = t[m]
    OBVIOUS
  <2> DEFINE S == 1..m
  <2>1. /\ IsFiniteSet(S) /\ m \in S /\ S \ {m} = 1..k
        /\ \A i \in S : i \in 1..n
    <3>1. IsFiniteSet(S)
      BY FS_Interval
    <3>2. m \in S /\ S \ {m} = 1..k
      OBVIOUS
    <3>3. \A i \in S : i \in 1..n
      OBVIOUS
    <3> QED
      BY <3>1, <3>2, <3>3
  <2>2. \A i \in S : d[i] \in Int
    BY <2>1
  <2>3. m \in 1..n /\ m - 1 = k
    BY <2>1
  <2> HIDE DEF S
  <2>4. /\ SumFunctionOnSet(d, S) \in Int
        /\ \A x \in S : SumFunctionOnSet(d, S) = d[x] + SumFunctionOnSet(d, S \ {x})
    BY <2>1, <2>2, SumRemove
  <2>5. SumFunctionOnSet(d, S) = d[m] + SumFunctionOnSet(d, 1..k)
    BY <2>1, <2>4
  <2>6. IsFiniteSet(1..k) /\ \A i \in 1..k : d[i] \in Int
    BY FS_Interval
  <2>7. SumFunctionOnSet(d, 1..k) \in Int
    BY <2>6, SumType
  <2>8. t[m] = t[k] + d[m] /\ d[m] \in Int
    BY <2>3
  <2>9. SumFunctionOnSet(d, 1..k) = t[k]
    BY <1>2
  <2> QED
    BY <2>5, <2>7, <2>8, <2>9 DEF S
<1>3. Nat \subseteq T
  <2> HIDE DEF T
  <2> QED
    BY <1>1, <1>2, Inductive
<1> QED
  BY <1>3

LEMMA Within ==
  ASSUME NEW x \in Int, NEW low \in Int, NEW high \in Int, low <= x, x <= high
  PROVE  x \in low..high
OBVIOUS

LEMMA WithinSeconds ==
  ASSUME NEW x \in Int, 5000 <= x, x <= 3600000
  PROVE  x \in L!Seconds
<1>1. L!Second = 1000
  BY DEF L!Second
<1>2. /\ 5 * L!Second \in Int /\ 5 * L!Second <= x
      /\ 3600 * L!Second \in Int /\ x <= 3600 * L!Second
  BY <1>1
<1>3. x \in (5 * L!Second)..(3600 * L!Second)
  BY <1>2, Within
<1> QED
  BY <1>3 DEF L!Seconds

\* Stages that run within the limits: their targets, and their durations with the
\* running totals t.
WithinLimits(st, t, n) ==
    /\ DOMAIN st = 1..n
    /\ \A i \in 1..n : st[i].target \in Nat /\ 1 <= st[i].target /\ st[i].target <= 2000
    /\ IsRunningTotal(t, [i \in 1..n |-> L!durationToSeconds(st[i].duration)], n)

LEMMA StagesRun ==
  ASSUME NEW st, NEW n \in Nat, n > 0, NEW t, WithinLimits(st, t, n)
  PROVE  /\ L!Planned(st).vus \in Nat /\ 1 <= L!Planned(st).vus /\ L!Planned(st).vus <= 2000
         /\ L!Planned(st).seconds = t[n]
<1> DEFINE d == [i \in 1..n |-> L!durationToSeconds(st[i].duration)]
           most == L!getMaximumStageVUs(st)
<1>1. DOMAIN st = 1..n /\ IsRunningTotal(t, d, n)
  BY DEF WithinLimits
<1>2. d = [i \in 1..n |-> L!durationToSeconds(st[i].duration)]
  OBVIOUS
<1> HIDE DEF d
<1>3. L!calculateStageDuration(st) = SumFunctionOnSet(d, 1..n)
  <2>1. \A i \in 1..n : d[i] \in Int
    BY <1>1 DEF IsRunningTotal
  <2> QED
    BY <1>1, <1>2, <2>1, StageDurations
<1>4. SumFunctionOnSet(d, 1..n) = t[n]
  BY <1>1, RunningTotal
<1>5. \A i \in 1..n : st[i].target \in Nat /\ 1 <= st[i].target /\ st[i].target <= 2000
  BY DEF WithinLimits
<1>6. /\ most \in Nat
      /\ \A i \in 1..n : st[i].target <= most
      /\ most = 0 \/ \E i \in 1..n : st[i].target = most
  BY <1>5, <1>1, StageVUs
<1> HIDE DEF most
<1>7. most # 0
  <2>1. 1 \in 1..n
    OBVIOUS
  <2>2. 1 <= st[1].target /\ st[1].target <= most /\ st[1].target \in Nat
    BY <1>5, <1>6, <2>1
  <2> QED
    BY <1>6, <2>2
<1>8. most \in Nat /\ 1 <= most /\ most <= 2000
  <2>1. PICK i \in 1..n : st[i].target = most
    BY <1>6, <1>7
  <2>2. 1 <= most /\ most <= 2000
    BY <1>5, <2>1
  <2> QED
    BY <1>6, <2>2
<1> QED
  BY <1>3, <1>4, <1>8 DEF L!Planned, most

LEMMA StageInSeconds ==
  ASSUME NEW seconds \in Nat, NEW target
  PROVE  L!durationToSeconds(L!Stage(seconds, target).duration) = seconds * 1000
<1> DEFINE d == <<L!Part(seconds, "s")>>
<1>1. L!Stage(seconds, target).duration = d
  BY DEF L!Stage
<1>2. Head(d).value = seconds /\ L!Last(d).unit = "s"
  BY DEF L!Part, L!Last
<1>3. L!ThousandthsPer["s"] = 1000
  BY DEF L!ThousandthsPer, L!Second
<1> HIDE DEF d
<1> QED
  BY <1>1, <1>2, <1>3 DEF L!durationToSeconds

\* The stages of the two scripts.
LEMMA SpikeRuns ==
  L!Planned(L!SpikeScriptStages).vus \in 1..2000 /\ L!Planned(L!SpikeScriptStages).seconds \in L!Seconds
<1> DEFINE st == L!SpikeScriptStages
           n == 6
           d == [i \in 1..n |-> L!durationToSeconds(st[i].duration)]
           t == [i \in 0..6 |-> IF i < 3 THEN i * 20000 ELSE (i * 20000) + 10000]
<1>1. /\ DOMAIN st = 1..6
      /\ st[1] = L!Stage(20, 5) /\ st[2] = L!Stage(20, 25) /\ st[3] = L!Stage(30, 50)
      /\ st[4] = L!Stage(20, 100) /\ st[5] = L!Stage(20, 25) /\ st[6] = L!Stage(20, 5)
  BY DEF L!SpikeScriptStages
<1> HIDE DEF st
<1>2. /\ st[1].target = 5 /\ st[2].target = 25 /\ st[3].target = 50
      /\ st[4].target = 100 /\ st[5].target = 25 /\ st[6].target = 5
  BY <1>1 DEF L!Stage
<1>3. /\ L!durationToSeconds(st[1].duration) = 20000
      /\ L!durationToSeconds(st[2].duration) = 20000
      /\ L!durationToSeconds(st[3].duration) = 30000
      /\ L!durationToSeconds(st[4].duration) = 20000
      /\ L!durationToSeconds(st[5].duration) = 20000
      /\ L!durationToSeconds(st[6].duration) = 20000
  BY <1>1, StageInSeconds
<1>4. /\ n \in Nat /\ n > 0
      /\ DOMAIN st = 1..n /\ t[0] = 0 /\ t[n] = 130000
  BY <1>1
<1>5. ASSUME NEW i \in 1..n
      PROVE  /\ st[i].target \in Nat /\ 1 <= st[i].target /\ st[i].target <= 2000
             /\ d[i] \in Int /\ t[i] = t[i - 1] + d[i]
  <2>1. i = 1 \/ i = 2 \/ i = 3 \/ i = 4 \/ i = 5 \/ i = 6
    OBVIOUS
  <2> QED
    BY <1>2, <1>3, <2>1
<1>6. d = [i \in 1..n |-> L!durationToSeconds(st[i].duration)]
  OBVIOUS
<1> HIDE DEF n, t, d
<1>7. WithinLimits(st, t, n)
  BY <1>6, <1>4, <1>5 DEF WithinLimits, IsRunningTotal
<1>8. /\ L!Planned(st).vus \in Nat /\ 1 <= L!Planned(st).vus /\ L!Planned(st).vus <= 2000
      /\ L!Planned(st).seconds = t[n]
  BY <1>4, <1>7, StagesRun
<1>9. L!Planned(st).seconds \in Int /\ 5000 <= L!Planned(st).seconds
      /\ L!Planned(st).seconds <= 3600000
  BY <1>4, <1>8
<1>10. L!Planned(st).seconds \in L!Seconds
  BY <1>9, WithinSeconds
<1>11. L!Planned(st).vus \in 1..2000
  BY <1>8, Within
<1> QED
  BY <1>10, <1>11 DEF st

LEMMA StressRuns ==
  L!Planned(L!StressScriptStages).vus \in 1..2000 /\ L!Planned(L!StressScriptStages).seconds \in L!Seconds
<1> DEFINE st == L!StressScriptStages
           n == 5
           d == [i \in 1..n |-> L!durationToSeconds(st[i].duration)]
           t == [i \in 0..5 |-> i * 30000]
<1>1. /\ DOMAIN st = 1..5
      /\ st[1] = L!Stage(30, 10) /\ st[2] = L!Stage(30, 25) /\ st[3] = L!Stage(30, 50)
      /\ st[4] = L!Stage(30, 100) /\ st[5] = L!Stage(30, 150)
  BY DEF L!StressScriptStages
<1> HIDE DEF st
<1>2. /\ st[1].target = 10 /\ st[2].target = 25 /\ st[3].target = 50
      /\ st[4].target = 100 /\ st[5].target = 150
  BY <1>1 DEF L!Stage
<1>3. /\ L!durationToSeconds(st[1].duration) = 30000
      /\ L!durationToSeconds(st[2].duration) = 30000
      /\ L!durationToSeconds(st[3].duration) = 30000
      /\ L!durationToSeconds(st[4].duration) = 30000
      /\ L!durationToSeconds(st[5].duration) = 30000
  BY <1>1, StageInSeconds
<1>4. /\ n \in Nat /\ n > 0
      /\ DOMAIN st = 1..n /\ t[0] = 0 /\ t[n] = 150000
  BY <1>1
<1>5. ASSUME NEW i \in 1..n
      PROVE  /\ st[i].target \in Nat /\ 1 <= st[i].target /\ st[i].target <= 2000
             /\ d[i] \in Int /\ t[i] = t[i - 1] + d[i]
  <2>1. i = 1 \/ i = 2 \/ i = 3 \/ i = 4 \/ i = 5
    OBVIOUS
  <2> QED
    BY <1>2, <1>3, <2>1
<1>6. d = [i \in 1..n |-> L!durationToSeconds(st[i].duration)]
  OBVIOUS
<1> HIDE DEF n, t, d
<1>7. WithinLimits(st, t, n)
  BY <1>6, <1>4, <1>5 DEF WithinLimits, IsRunningTotal
<1>8. /\ L!Planned(st).vus \in Nat /\ 1 <= L!Planned(st).vus /\ L!Planned(st).vus <= 2000
      /\ L!Planned(st).seconds = t[n]
  BY <1>4, <1>7, StagesRun
<1>9. L!Planned(st).seconds \in Int /\ 5000 <= L!Planned(st).seconds
      /\ L!Planned(st).seconds <= 3600000
  BY <1>4, <1>8
<1>10. L!Planned(st).seconds \in L!Seconds
  BY <1>9, WithinSeconds
<1>11. L!Planned(st).vus \in 1..2000
  BY <1>8, Within
<1> QED
  BY <1>10, <1>11 DEF st

\* Any request of fixed load that is accepted, with any number of users and any duration.
LEMMA FixedLoadRuns ==
  ASSUME NEW request, request.testType \in {"NORMAL", "LOAD"}, L!Accepted(request),
         NEW options, options = L!K6Options(request),
         NEW planned, planned = L!renderConfiguration(L!defaultConfig(request))
  PROVE  /\ options.vus \in 1..2000 /\ options.seconds \in L!Seconds
         /\ options = [vus |-> planned.vus, seconds |-> planned.seconds]
<1> DEFINE c == L!defaultConfig(request)
<1>1. L!validateConfig(c)
  BY DEF L!Accepted
<1>2. \A x, y : L!Or(L!Or(x, y), y) = L!Or(x, y)
  BY DEF L!Or
<1>3. /\ c.testType = request.testType
      /\ options = [vus |-> c.vus, seconds |-> c.durationSeconds]
  <2>1. CASE request.testType = "NORMAL"
    <3>1. c = [testType |-> "NORMAL", vus |-> L!Or(request.vus, 5),
               durationSeconds |-> L!Or(request.durationSeconds, 30 * L!Second)]
      BY <2>1 DEF L!defaultConfig
    <3> HIDE DEF c
    <3>2. L!K6Environment(request) = [VUS |-> c.vus, DURATION |-> c.durationSeconds,
                                      STAGES_JSON |-> Unset]
      BY <3>1 DEF L!K6Environment, c
    <3>3. options = L!NormalOptions(L!K6Environment(request))
      BY <2>1 DEF L!K6Options
    <3>4. options = [vus |-> L!Or(c.vus, 5), seconds |-> L!Or(c.durationSeconds, 30 * L!Second)]
      BY <3>2, <3>3 DEF L!NormalOptions
    <3> QED
      BY <1>2, <2>1, <3>1, <3>4
  <2>2. CASE request.testType = "LOAD"
    <3>1. c = [testType |-> "LOAD", vus |-> L!Or(request.vus, 25),
               durationSeconds |-> L!Or(request.durationSeconds, 120 * L!Second)]
      BY <2>2 DEF L!defaultConfig
    <3> HIDE DEF c
    <3>2. L!K6Environment(request) = [VUS |-> c.vus, DURATION |-> c.durationSeconds,
                                      STAGES_JSON |-> Unset]
      BY <3>1 DEF L!K6Environment, c
    <3>3. options = L!LoadOptions(L!K6Environment(request))
      BY <2>2 DEF L!K6Options
    <3>4. options = [vus |-> L!Or(c.vus, 25), seconds |-> L!Or(c.durationSeconds, 120 * L!Second)]
      BY <3>2, <3>3 DEF L!LoadOptions
    <3> QED
      BY <1>2, <2>2, <3>1, <3>4
  <2> QED
    BY <2>1, <2>2
<1> HIDE DEF c
<1>4. c.vus \in 1..1000 /\ c.durationSeconds \in L!Seconds
  BY <1>1, <1>3 DEF L!validateConfig
<1>5. planned = [testType |-> c.testType, vus |-> c.vus, seconds |-> c.durationSeconds]
  BY <1>3 DEF L!renderConfiguration, c
<1> QED
  BY <1>3, <1>4, <1>5

LEMMA LoadHolds == InputKept => WhatRunsIsWhatWasAccepted
<1> SUFFICES ASSUME InputKept, IsInput("load"), L!Accepted(input),
                    NEW options, options = L!K6Options(input),
                    NEW planned, planned = L!renderConfiguration(L!defaultConfig(input))
             PROVE  /\ options.vus \in 1..2000 /\ options.seconds \in L!Seconds
                    /\ input.testType \in {"NORMAL", "LOAD"} =>
                         options = [vus |-> planned.vus, seconds |-> planned.seconds]
  BY DEF WhatRunsIsWhatWasAccepted
<1>1. input \in Requests
  <2>1. input \in Requests \cup Forms \cup K6Runs /\ input.kind = "load"
    BY DEF InputKept, IsInput
  <2>2. \A f \in Forms : f.kind = "form"
    BY DEF Forms
  <2>3. \A k \in K6Runs : k.kind = "summary"
    BY DEF K6Runs
  <2> QED
    BY <2>1, <2>2, <2>3
<1>2. input.testType \in {"NORMAL", "LOAD", "SPIKE", "STRESS"}
  BY <1>1 DEF Requests
<1>3. CASE input.testType \in {"NORMAL", "LOAD"}
  BY <1>3, FixedLoadRuns
<1>4. CASE input.testType = "SPIKE"
  <2>1. options = L!Planned(L!SpikeScriptStages)
    BY <1>4 DEF L!K6Options
  <2> QED
    BY <1>4, <2>1, SpikeRuns
<1>5. CASE input.testType = "STRESS"
  <2>1. options = L!Planned(L!StressScriptStages)
    BY <1>5 DEF L!K6Options
  <2> QED
    BY <1>5, <2>1, StressRuns
<1> QED
  BY <1>2, <1>3, <1>4, <1>5

\* A simulation that is accepted runs within the limits of the server, and one of fixed
\* load with exactly the load and the duration that its status file announces: for any
\* number of users and any duration (FixedLoadRuns), by way of the environment of the child.
THEOREM AcceptedLoadRuns == CheckSpec => []WhatRunsIsWhatWasAccepted
BY InputsInvariant, LoadHolds, PTL

-----------------------------------------------------------------------------
(* Lists in order.                                                         *)

\* Of a finite set in a strict order, below[x] being what comes before x, there is one
\* element for each number of elements before it.
IsOrder(S, below) ==
    /\ below \in [S -> SUBSET S]
    /\ \A x \in S : x \notin below[x]
    /\ \A x, y \in S : x # y => x \in below[y] \/ y \in below[x]
    /\ \A x, y \in S : x \in below[y] => below[x] \subseteq below[y]

LEMMA Ranks ==
  ASSUME NEW S, IsFiniteSet(S), NEW below, IsOrder(S, below)
  PROVE  /\ Cardinality(S) \in Nat
         /\ \A x \in S : Cardinality(below[x]) \in 0..Cardinality(S) - 1
         /\ \A x, y \in S : Cardinality(below[x]) = Cardinality(below[y]) => x = y
         /\ \A k \in 1..Cardinality(S) : \E x \in S : Cardinality(below[x]) = k - 1
<1> DEFINE n == Cardinality(S)
           rank == [x \in S |-> Cardinality(below[x])]
<1>1. n \in Nat
  BY FS_CardinalityType
<1>2. ASSUME NEW x \in S
      PROVE  IsFiniteSet(below[x]) /\ rank[x] = Cardinality(below[x]) /\ rank[x] \in 0..n - 1
  <2>1. IsFiniteSet(S \ {x}) /\ Cardinality(S \ {x}) = n - 1
    BY FS_RemoveElement
  <2>2. below[x] \in SUBSET (S \ {x})
    BY DEF IsOrder
  <2>3. IsFiniteSet(below[x]) /\ Cardinality(below[x]) <= n - 1
    BY <2>1, <2>2, FS_Subset
  <2> QED
    BY <1>1, <2>3, FS_CardinalityType
<1>3. ASSUME NEW x \in S, NEW y \in S, x \in below[y]
      PROVE  rank[x] < rank[y]
  <2>1. below[x] \in SUBSET (below[y] \ {x})
    BY <1>3 DEF IsOrder
  <2>2. /\ IsFiniteSet(below[y] \ {x})
        /\ Cardinality(below[y] \ {x}) = Cardinality(below[y]) - 1
    BY <1>2, <1>3, FS_RemoveElement
  <2>3. Cardinality(below[x]) <= Cardinality(below[y]) - 1
    BY <2>1, <2>2, FS_Subset
  <2>4. rank[x] \in Int /\ rank[y] \in Int
    BY <1>1, <1>2
  <2> QED
    BY <1>2, <2>3, <2>4
<1>4. ASSUME NEW x \in S, NEW y \in S, rank[x] = rank[y] PROVE x = y
  <2>1. rank[x] \in Int /\ rank[y] \in Int
    BY <1>1, <1>2
  <2> QED
    BY <1>3, <1>4, <2>1 DEF IsOrder
<1>5. rank \in Injection(S, 0..n - 1)
  <2>1. rank \in [S -> 0..n - 1]
    BY <1>2
  <2> HIDE DEF rank, n
  <2> QED
    BY <1>4, <2>1 DEF Injection, IsInjective
<1>6. IsFiniteSet(0..n - 1) /\ Cardinality(0..n - 1) = n
  <2> HIDE DEF n
  <2>1. 0 \in Int /\ n - 1 \in Int /\ (0 > n - 1 <=> n = 0)
    BY <1>1
  <2>2. /\ IsFiniteSet(0..n - 1)
        /\ Cardinality(0..n - 1) = IF 0 > n - 1 THEN 0 ELSE (n - 1) - 0 + 1
    BY <2>1, FS_Interval
  <2> QED
    BY <1>1, <2>1, <2>2
<1>7. rank \in Surjection(S, 0..n - 1)
  <2> HIDE DEF rank
  <2> QED
    BY <1>5, <1>6, FS_Injection
<1>8. ASSUME NEW k \in 1..n PROVE \E x \in S : rank[x] = k - 1
  <2>1. k - 1 \in 0..n - 1
    BY <1>1
  <2> HIDE DEF rank, n
  <2> QED
    BY <1>7, <2>1 DEF Surjection
<1> QED
  BY <1>1, <1>2, <1>4, <1>8

\* A list that has at each place an element with so many elements before it.
Lists(list, S, below) ==
    /\ list = [k \in 1..Cardinality(S) |-> list[k]]
    /\ \A k \in 1..Cardinality(S) :
         (\E x \in S : Cardinality(below[x]) = k - 1)
           => list[k] \in S /\ Cardinality(below[list[k]]) = k - 1

LEMMA ListOf ==
  ASSUME NEW S, IsFiniteSet(S), NEW below, IsOrder(S, below), NEW list, Lists(list, S, below)
  PROVE  /\ Cardinality(S) \in Nat
         /\ list \in [1..Cardinality(S) -> S]
         /\ \A k \in 1..Cardinality(S) : Cardinality(below[list[k]]) = k - 1
         /\ \A x \in S : /\ Cardinality(below[x]) + 1 \in 1..Cardinality(S)
                         /\ list[Cardinality(below[x]) + 1] = x
<1> DEFINE n == Cardinality(S)
<1>1. n \in Nat
  BY FS_CardinalityType
<1>2. \A k \in 1..n : list[k] \in S /\ Cardinality(below[list[k]]) = k - 1
  BY Ranks DEF Lists
<1>3. list = [k \in 1..n |-> list[k]]
  BY DEF Lists
<1>4. list \in [1..n -> S] /\ \A k \in 1..n : Cardinality(below[list[k]]) = k - 1
  BY <1>2, <1>3
<1>5. ASSUME NEW x \in S
      PROVE  /\ Cardinality(below[x]) + 1 \in 1..n
             /\ list[Cardinality(below[x]) + 1] = x
  <2> DEFINE k == Cardinality(below[x]) + 1
  <2>1. Cardinality(below[x]) \in 0..n - 1
    BY Ranks
  <2>2. k \in 1..n /\ k - 1 = Cardinality(below[x])
    BY <1>1, <2>1
  <2> HIDE DEF k
  <2>3. list[k] \in S /\ Cardinality(below[list[k]]) = Cardinality(below[x])
    BY <1>4, <2>2
  <2>4. list[k] = x
    BY <2>3, Ranks
  <2> QED
    BY <2>2, <2>4 DEF k
<1> QED
  BY <1>1, <1>4, <1>5

LEMMA SameCounting ==
  ASSUME NEW X
  PROVE  Q!Cardinality(X) = Cardinality(X) /\ L!Cardinality(X) = Cardinality(X)
BY DEF Cardinality, Q!Cardinality, L!Cardinality

\* Sorted rows.
LEMMA NewestFirst ==
  ASSUME NEW S, IsFiniteSet(S), Q!Ordered(S)
  PROVE  /\ Cardinality(S) \in Nat
         /\ Q!Newest(S) \in [1..Cardinality(S) -> S]
         /\ \A r \in S : \E k \in 1..Cardinality(S) : Q!Newest(S)[k] = r
         /\ \A k \in 1..Cardinality(S) : Cardinality(Q!Before(S, Q!Newest(S)[k])) = k - 1
<1> DEFINE below == [r \in S |-> Q!Before(S, r)]
<1>1. IsOrder(S, below)
  BY DEF IsOrder, Q!Before, Q!Ordered
<1>2. \A r \in S : below[r] = Q!Before(S, r)
  OBVIOUS
<1> HIDE DEF below
<1>3. Lists(Q!Newest(S), S, below)
  BY <1>2, SameCounting DEF Q!Newest, Lists
<1>4. /\ Cardinality(S) \in Nat
      /\ Q!Newest(S) \in [1..Cardinality(S) -> S]
      /\ \A k \in 1..Cardinality(S) : Cardinality(below[Q!Newest(S)[k]]) = k - 1
      /\ \A r \in S : /\ Cardinality(below[r]) + 1 \in 1..Cardinality(S)
                      /\ Q!Newest(S)[Cardinality(below[r]) + 1] = r
  BY <1>1, <1>3, ListOf
<1> QED
  BY <1>2, <1>4

\* The same rows from the end.
LEMMA OldestFirst ==
  ASSUME NEW S, IsFiniteSet(S), Q!Ordered(S), NEW n, n = Cardinality(S)
  PROVE  /\ n \in Nat
         /\ Q!Oldest(S) \in [1..n -> S]
         /\ \A k \in 1..n : Q!Oldest(S)[k] = Q!Newest(S)[n + 1 - k]
         /\ \A r \in S : \E k \in 1..n : Q!Oldest(S)[k] = r
<1>1. /\ n \in Nat /\ Q!Newest(S) \in [1..n -> S]
      /\ \A r \in S : \E k \in 1..n : Q!Newest(S)[k] = r
  BY NewestFirst
<1>2. Len(Q!Newest(S)) = n
  BY <1>1
<1>3. Q!Oldest(S) = [k \in 1..n |-> Q!Newest(S)[n - k + 1]]
  BY <1>2 DEF Q!Oldest, Q!Reverse
<1>4. ASSUME NEW k \in 1..n
      PROVE  n - k + 1 \in 1..n /\ n - k + 1 = n + 1 - k /\ n - (n - k + 1) + 1 = k
  BY <1>1
<1>5. ASSUME NEW r \in S PROVE \E k \in 1..n : Q!Oldest(S)[k] = r
  <2>1. PICK k \in 1..n : Q!Newest(S)[k] = r
    BY <1>1
  <2>2. Q!Oldest(S)[n - k + 1] = Q!Newest(S)[n - (n - k + 1) + 1]
    BY <1>3, <1>4
  <2> QED
    BY <1>4, <2>1, <2>2
<1>6. Q!Oldest(S) \in [1..n -> S]
  BY <1>1, <1>3, <1>4
<1>7. \A k \in 1..n : Q!Oldest(S)[k] = Q!Newest(S)[n + 1 - k]
  BY <1>3, <1>4
<1> QED
  BY <1>1, <1>5, <1>6, <1>7

\* Rows that were written one after the other, at the times 1 to n.
Consecutive(S, f, n) == S = {f[i] : i \in 1..n} /\ \A i \in 1..n : f[i].at = i

LEMMA RowsOverTime ==
  ASSUME NEW n \in Nat, NEW f, NEW S, Consecutive(S, f, n)
  PROVE  /\ IsFiniteSet(S) /\ Cardinality(S) = n
         /\ \A X \in SUBSET S : IsFiniteSet(X) /\ Q!Ordered(X)
<1> DEFINE g == [i \in 1..n |-> f[i]]
<1>1. g \in Bijection(1..n, S)
  <2>1. g \in [1..n -> S]
    BY DEF Consecutive
  <2>2. ASSUME NEW i \in 1..n, NEW j \in 1..n, g[i] = g[j] PROVE i = j
    BY <2>2 DEF Consecutive
  <2>3. \A r \in S : \E i \in 1..n : g[i] = r
    BY DEF Consecutive
  <2> HIDE DEF g
  <2> QED
    BY <2>1, <2>2, <2>3 DEF Bijection, Injection, Surjection, IsInjective
<1>2. IsFiniteSet(1..n) /\ Cardinality(1..n) = n
  BY FS_Interval
<1>3. IsFiniteSet(S) /\ Cardinality(S) = n
  <2>1. ExistsBijection(1..n, S)
    BY <1>1 DEF ExistsBijection
  <2> QED
    BY <1>2, <2>1, FS_Bijection
<1>4. ASSUME NEW X \in SUBSET S PROVE IsFiniteSet(X) /\ Q!Ordered(X)
  <2>1. IsFiniteSet(X)
    BY <1>3, FS_Subset
  <2>2. \A r \in X : \E i \in 1..n : r = f[i] /\ r.at = i
    BY DEF Consecutive
  <2>3. \A r, s \in X : r.at \in Int /\ s.at \in Int /\ (r # s => r.at # s.at)
    BY <2>2
  <2>4. \A r, s \in X : r # s => (Q!Later(r, s) <=> r.at > s.at)
    BY <2>3 DEF Q!Later
  <2>5. \A r, s \in X : r # s => (Q!Later(r, s) <=> ~Q!Later(s, r))
    BY <2>3, <2>4
  <2>6. \A r, s, u \in X : r # s /\ s # u /\ Q!Later(r, s) /\ Q!Later(s, u) => Q!Later(r, u)
    BY <2>3, <2>4
  <2> QED
    BY <2>1, <2>5, <2>6 DEF Q!Ordered
<1> QED
  BY <1>3, <1>4

LEMMA InOrderOfTime ==
  ASSUME NEW n \in Nat, NEW f, NEW S, Consecutive(S, f, n)
  PROVE  Q!Oldest(S) = [i \in 1..n |-> f[i]]
<1>1. IsFiniteSet(S) /\ Cardinality(S) = n /\ Q!Ordered(S)
  BY RowsOverTime
<1>2. ASSUME NEW j \in 1..n PROVE Cardinality(Q!Before(S, f[j])) = n - j
  <2> DEFINE X == Q!Before(S, f[j])
             g == [m \in j + 1..n |-> f[m]]
  <2>1. \A i, m \in 1..n : f[i].at = i /\ (f[i] = f[m] => i = m)
    BY DEF Consecutive
  <2>2. \A i, m \in 1..n : i # m => (Q!Later(f[m], f[i]) <=> m > i)
    BY <2>1 DEF Q!Later
  <2>3. X = {f[m] : m \in j + 1..n}
    BY <2>1, <2>2 DEF Q!Before, Consecutive
  <2>4. \A i, m \in j + 1..n : f[i] = f[m] => i = m
    BY <2>1
  <2> HIDE DEF X
  <2>5. g \in Bijection(j + 1..n, X)
    <3>1. g \in [j + 1..n -> X] /\ \A r \in X : \E i \in j + 1..n : g[i] = r
      BY <2>3
    <3>2. \A i, m \in j + 1..n : g[i] = g[m] => i = m
      BY <2>4
    <3> HIDE DEF g
    <3> QED
      BY <3>1, <3>2 DEF Bijection, Injection, Surjection, IsInjective
  <2>6. IsFiniteSet(j + 1..n) /\ Cardinality(j + 1..n) = n - j
    <3>1. j + 1 \in Int /\ n \in Int /\ (j + 1 > n => n - j = 0) /\ n - (j + 1) + 1 = n - j
      OBVIOUS
    <3>2. /\ IsFiniteSet(j + 1..n)
          /\ Cardinality(j + 1..n) = IF j + 1 > n THEN 0 ELSE n - (j + 1) + 1
      BY <3>1, FS_Interval
    <3> QED
      BY <3>1, <3>2
  <2>7. ExistsBijection(j + 1..n, X)
    BY <2>5 DEF ExistsBijection
  <2>8. Cardinality(X) = Cardinality(j + 1..n)
    BY <2>6, <2>7, FS_Bijection
  <2> QED
    BY <2>6, <2>8 DEF X
<1>3. /\ Q!Oldest(S) \in [1..n -> S]
      /\ \A k \in 1..n : Q!Oldest(S)[k] = Q!Newest(S)[n + 1 - k]
  BY <1>1, OldestFirst
<1>4. \A k \in 1..n : Q!Newest(S)[k] \in S /\ Cardinality(Q!Before(S, Q!Newest(S)[k])) = k - 1
  BY <1>1, NewestFirst
<1>5. ASSUME NEW i \in 1..n PROVE Q!Oldest(S)[i] = f[i]
  <2>1. n + 1 - i \in 1..n
    OBVIOUS
  <2>2. PICK j \in 1..n : Q!Newest(S)[n + 1 - i] = f[j]
    BY <1>4, <2>1 DEF Consecutive
  <2>3. n - j = (n + 1 - i) - 1
    BY <1>2, <1>4, <2>1, <2>2
  <2>4. j = i
    BY <2>3
  <2> QED
    BY <1>3, <2>2, <2>4
<1> QED
  BY <1>3, <1>5

\* The newest of some rows is later than the others.
LEMMA FirstIsLatest ==
  ASSUME NEW n \in Nat, NEW f, NEW S, Consecutive(S, f, n),
         NEW X \in SUBSET S, X # {}
  PROVE  /\ Q!Newest(X) # <<>> /\ Head(Q!Newest(X)) \in X
         /\ \A r \in X : r.at <= Head(Q!Newest(X)).at
<1>1. IsFiniteSet(X) /\ Q!Ordered(X)
  BY RowsOverTime
<1>2. /\ Cardinality(X) \in Nat
      /\ Q!Newest(X) \in [1..Cardinality(X) -> X]
      /\ \A k \in 1..Cardinality(X) : Cardinality(Q!Before(X, Q!Newest(X)[k])) = k - 1
  BY <1>1, NewestFirst
<1>3. Cardinality(X) # 0
  BY <1>1, FS_EmptySet
<1> DEFINE top == Q!Newest(X)[1]
<1>4. 1 \in 1..Cardinality(X) /\ top \in X /\ Cardinality(Q!Before(X, top)) = 0
  BY <1>2, <1>3
<1>5. Q!Newest(X) # <<>> /\ Head(Q!Newest(X)) = top
  BY <1>2, <1>4
<1>6. Q!Before(X, top) = {}
  <2>1. Q!Before(X, top) \in SUBSET X
    BY DEF Q!Before
  <2>2. IsFiniteSet(Q!Before(X, top))
    BY <1>1, <2>1, FS_Subset
  <2> QED
    BY <1>4, <2>2, FS_EmptySet
<1>7. \A r \in X : r.at \in Int
  BY DEF Consecutive
<1> HIDE DEF top
<1>8. \A r \in X : r.at <= top.at
  BY <1>4, <1>6, <1>7 DEF Q!Before, Q!Later
<1> QED
  BY <1>4, <1>5, <1>8

\* A list of one row.
LEMMA OneRow ==
  ASSUME NEW r
  PROVE  Q!Newest({r}) = <<r>>
<1>1. IsFiniteSet({r}) /\ Cardinality({r}) = 1
  BY FS_Singleton
<1>2. Q!Ordered({r})
  BY DEF Q!Ordered
<1>3. Q!Newest({r}) \in [1..1 -> {r}]
  BY <1>1, <1>2, NewestFirst
<1> QED
  BY <1>3

\* A list of the rows at the positions I, each once, in their order: p[k] is the k-th.
Selects(p, I) ==
    /\ IsFiniteSet(I) /\ Cardinality(I) \in Nat
    /\ p \in [1..Cardinality(I) -> I]
    /\ \A i \in I : \E k \in 1..Cardinality(I) : p[k] = i
    /\ \A k \in 1..Cardinality(I) : Cardinality({j \in I : j < p[k]}) = k - 1
Selected(list, rows, I, p) ==
    /\ Selects(p, I)
    /\ DOMAIN list = 1..Cardinality(I)
    /\ list = [k \in 1..Cardinality(I) |-> list[k]]
    /\ \A k \in 1..Cardinality(I) : list[k] = rows[p[k]]

LEMMA RowsAtPositions ==
  ASSUME NEW n \in Nat, NEW I \in SUBSET (1..n), NEW rows
  PROVE  \E p : Selected(Q!Filtered(rows, I), rows, I, p)
<1> DEFINE below == [i \in I |-> {j \in I : j < i}]
           p == [k \in 1..Cardinality(I) |->
                   CHOOSE i \in I : Q!Cardinality({j \in I : j < i}) = k - 1]
           list == Q!Filtered(rows, I)
<1>1. IsFiniteSet(I)
  BY SomePositions
<1>2. IsOrder(I, below)
  <2>1. \A i \in I : i \in Int
    OBVIOUS
  <2>2. \A i \in I : below[i] = {j \in I : j < i}
    OBVIOUS
  <2>3. below \in [I -> SUBSET I]
    OBVIOUS
  <2> HIDE DEF below
  <2>4. /\ \A i \in I : i \notin below[i]
        /\ \A i, j \in I : i # j => i \in below[j] \/ j \in below[i]
    BY <2>1, <2>2
  <2>5. ASSUME NEW i \in I, NEW j \in I, i \in below[j] PROVE below[i] \subseteq below[j]
    <3>1. i < j
      BY <2>2, <2>5
    <3>2. ASSUME NEW m \in I, m < i PROVE m < j
      BY <2>1, <3>1, <3>2
    <3> QED
      BY <2>2, <3>2
  <2> QED
    BY <2>3, <2>4, <2>5 DEF IsOrder
<1>3. /\ \A i \in I : below[i] = {j \in I : j < i}
      /\ p = [k \in 1..Cardinality(I) |-> p[k]]
  OBVIOUS
<1> HIDE DEF below
<1>4. Lists(p, I, below)
  BY <1>3, SameCounting DEF Lists
<1>5. /\ list = [k \in 1..Cardinality(I) |-> list[k]]
      /\ \A k \in 1..Cardinality(I) : list[k] = rows[p[k]]
  BY SameCounting DEF Q!Filtered
<1> HIDE DEF p, list
<1>6. /\ Cardinality(I) \in Nat
      /\ p \in [1..Cardinality(I) -> I]
      /\ \A k \in 1..Cardinality(I) : Cardinality(below[p[k]]) = k - 1
      /\ \A i \in I : /\ Cardinality(below[i]) + 1 \in 1..Cardinality(I)
                      /\ p[Cardinality(below[i]) + 1] = i
  BY <1>1, <1>2, <1>4, ListOf
<1>7. \A i \in I : \E k \in 1..Cardinality(I) : p[k] = i
  BY <1>6
<1>8. \A k \in 1..Cardinality(I) : Cardinality({j \in I : j < p[k]}) = k - 1
  BY <1>3, <1>6
<1>9. DOMAIN list = 1..Cardinality(I)
  BY <1>5
<1>10. Selects(p, I)
  BY <1>1, <1>6, <1>7, <1>8 DEF Selects
<1>11. Selected(list, rows, I, p)
  BY <1>5, <1>9, <1>10 DEF Selected
<1> QED
  BY <1>11 DEF list

-----------------------------------------------------------------------------
(* What the lists show of a payment.                                       *)

LegOf(i) == [id |-> i, at |-> i, transaction |-> "t", account |-> Posted.entries[i].account,
             direction |-> Posted.entries[i].type, amount |-> Posted.entries[i].amount,
             balanceAfter |-> Posted.entries[i].balanceAfter,
             type |-> "TRANSFER", status |-> "SUCCESS"]
LegList == [i \in 1..Len(Payment) |-> LegOf(i)]

LEMMA LegFacts ==
  ASSUME InputsOK, NEW n, n = Len(Payment)
  PROVE  /\ n \in Nat /\ DOMAIN Payment = 1..n
         /\ DOMAIN LegList = 1..n /\ Consecutive(Legs, LegList, n)
         /\ \A i \in 1..n : /\ LegList[i] = LegOf(i)
                            /\ LegOf(i).id = i /\ LegOf(i).at = i /\ LegOf(i).transaction = "t"
                            /\ LegOf(i).account = Payment[i].account
                            /\ LegOf(i).direction = Payment[i].type
                            /\ LegOf(i).amount = Payment[i].amount
                            /\ LegOf(i).balanceAfter = Balance[Payment[i].account]
                                                         + Net(Payment, Payment[i].account, i)
                            /\ LegOf(i).account \in Accounts
                            /\ LegOf(i) # Unset
         /\ Q!Oldest(Legs) = LegList
<1>1. n \in Nat /\ DOMAIN Payment = 1..n /\ IsJournal(Payment) /\ Balance \in [Accounts -> Int]
  BY PaymentFacts DEF IsJournal
<1>2. /\ DOMAIN Posted.entries = 1..n
      /\ \A i \in 1..n : /\ Posted.entries[i].account = Payment[i].account
                         /\ Posted.entries[i].type = Payment[i].type
                         /\ Posted.entries[i].amount = Payment[i].amount
  BY <1>1 DEF Posted, PrepareLedgerEntries
<1>3. \A i \in 1..n : Posted.entries[i].balanceAfter
                        = Balance[Payment[i].account] + Net(Payment, Payment[i].account, i)
  BY <1>1, StampsHold DEF StampsAreRunningBalances
<1>4. ASSUME NEW i \in 1..n
      PROVE  /\ Payment[i].account \in Accounts /\ Payment[i].type \in EntryType
             /\ Payment[i].amount \in Int
             /\ Posted.entries[i].balanceAfter \in Int
  <2>1. /\ Payment[i].account \in Accounts /\ Payment[i].type \in EntryType
        /\ Payment[i].amount \in Int
    BY <1>1 DEF IsJournal
  <2>2. Net(Payment, Payment[i].account, i) \in Int
    BY <1>1, NetStep
  <2> QED
    BY <1>1, <1>3, <2>1, <2>2
<1>5. Legs = {LegOf(i) : i \in 1..n}
  BY <1>2 DEF Legs, LegOf
<1>6. ASSUME NEW i \in 1..n PROVE LegOf(i) # Unset
  <2>1. LegOf(i) \in [id : Nat, at : Nat, transaction : {"t"}, account : Accounts,
                      direction : EntryType, amount : Int, balanceAfter : Int,
                      type : {"TRANSFER"}, status : {"SUCCESS"}]
    BY <1>1, <1>2, <1>4 DEF LegOf
  <2> QED
    BY <2>1, UnsetIsApart
<1>7. \A i \in 1..n : /\ LegOf(i).id = i /\ LegOf(i).at = i /\ LegOf(i).transaction = "t"
                      /\ LegOf(i).account = Payment[i].account
                      /\ LegOf(i).direction = Payment[i].type
                      /\ LegOf(i).amount = Payment[i].amount
                      /\ LegOf(i).balanceAfter = Posted.entries[i].balanceAfter
  BY <1>2 DEF LegOf
<1>8. DOMAIN LegList = 1..n /\ \A i \in 1..n : LegList[i] = LegOf(i)
  BY DEF LegList
<1>9. Consecutive(Legs, LegList, n)
  <2>1. Legs = {LegList[i] : i \in 1..n}
    BY <1>5, <1>8
  <2> QED
    BY <1>7, <1>8, <2>1 DEF Consecutive
<1>10. Q!Oldest(Legs) = LegList
  <2>1. Q!Oldest(Legs) = [i \in 1..n |-> LegList[i]]
    BY <1>1, <1>9, InOrderOfTime
  <2> QED
    BY <1>8, <2>1 DEF LegList
<1> QED
  BY <1>1, <1>3, <1>4, <1>6, <1>7, <1>8, <1>9, <1>10

\* A page holds the only row.
LEMMA SliceOfOne ==
  ASSUME NEW r, NEW limit \in Nat, limit > 0
  PROVE  Q!Slice(<<r>>, 1, limit) = <<r>>
<1>1. Q!Slice(<<r>>, 1, limit)
        = SubSeq(<<r>>, (1 - 1) * limit + 1, Q!Min({1 * limit, Len(<<r>>)}))
  BY DEF Q!Slice
<1>2. (1 - 1) * limit + 1 = 1 /\ 1 * limit = limit /\ Len(<<r>>) = 1
  OBVIOUS
<1>3. Q!Min({limit, 1}) = 1
  BY DEF Q!Min
<1> DEFINE s == SubSeq(<<r>>, 1, 1)
<1>4. Q!Slice(<<r>>, 1, limit) = s
  BY <1>1, <1>2, <1>3
<1>5. s \in Seq({r}) /\ Len(s) = 1 /\ s[1] = r
  OBVIOUS
<1> HIDE DEF s
<1>6. s = [i \in 1..1 |-> s[i]]
  BY <1>5
<1>7. s = <<r>>
  BY <1>5, <1>6
<1> QED
  BY <1>4, <1>7

LEMMA OnePage ==
  ASSUME NEW r, NEW counted, NEW q, q.page = Unset, q.limit = Unset, q.order = "desc"
  PROVE  /\ DOMAIN Q!PageOf({r}, counted, q) = {"rows", "pagination"}
         /\ Q!PageOf({r}, counted, q).rows = <<r>>
<1>1. Q!Slice(<<r>>, 1, 20) = <<r>>
  BY SliceOfOne
<1>2. Q!PageNumber(q) = 1 /\ Q!RowLimit(q) = 20 /\ Q!Sorted({r}, q.order) = <<r>>
  BY OneRow DEF Q!PageNumber, Q!RowLimit, Q!Sorted
<1> QED
  BY <1>1, <1>2 DEF Q!PageOf

LEMMA OkRows ==
  ASSUME NEW body, "rows" \in DOMAIN body
  PROVE  Q!Ok(body).rows = body.rows
BY DEF Q!Ok, Q!Spread

LEMMA Shown == ShownTransaction = Q!FormatTransaction(Transaction)
<1> DEFINE page == Q!PageOf({Transaction}, {Transaction}, NoFilter)
           shown == [page EXCEPT !.rows = [i \in DOMAIN page.rows |->
                                              Q!FormatTransaction(page.rows[i])]]
<1>1. DOMAIN page = {"rows", "pagination"} /\ page.rows = <<Transaction>>
  <2>1. NoFilter.page = Unset /\ NoFilter.limit = Unset /\ NoFilter.order = "desc"
    BY DEF NoFilter
  <2> QED
    BY <2>1, OnePage
<1>2. Q!WhereTransaction(NoFilter, Transaction)
  BY DEF Q!WhereTransaction, Q!Given, Q!InRange, NoFilter
<1>3. {t \in {Transaction} : Q!WhereTransaction(NoFilter, t)} = {Transaction}
  BY <1>2
<1>4. Q!getTransactionsForAdmin(NoFilter, {Transaction}, {Transaction}) = shown
  BY <1>3 DEF Q!getTransactionsForAdmin
<1>5. /\ Q!IsOneOf(NoFilter.status, Q!TransactionStatus)
      /\ Q!IsOneOf(NoFilter.type, Q!TransactionType) /\ Q!DatesParse(NoFilter)
  BY UnsetIsApart DEF Q!IsOneOf, Q!DatesParse, NoFilter
<1>6. Q!getTransactionsForAdminController(NoFilter, {Transaction}, {Transaction}) = Q!Ok(shown)
  BY <1>4, <1>5 DEF Q!getTransactionsForAdminController
<1> HIDE DEF page
<1>7. "rows" \in DOMAIN shown /\ shown.rows = <<Q!FormatTransaction(Transaction)>>
  <2>1. [i \in DOMAIN page.rows |-> Q!FormatTransaction(page.rows[i])]
          = <<Q!FormatTransaction(Transaction)>>
    BY <1>1
  <2> QED
    BY <1>1, <2>1
<1> HIDE DEF shown
<1> QED
  BY <1>6, <1>7, OkRows DEF ShownTransaction

\* The main leg of a list is one of its legs.
LEMMA MainLegIsALeg ==
  ASSUME NEW n \in Nat, NEW legs, DOMAIN legs = 1..n, legs = [i \in 1..n |-> legs[i]]
  PROVE  Q!MainLeg(legs) = Unset \/ \E i \in 1..n : Q!MainLeg(legs) = legs[i]
<1> DEFINE I == {i \in DOMAIN legs : SystemType[legs[i].account] = Unset}
           own == Q!OfWallets(legs)
<1>1. own = Q!Filtered(legs, I) /\ I \in SUBSET (1..n)
  BY DEF Q!OfWallets
<1> HIDE DEF I, own
<1>2. PICK p : Selected(own, legs, I, p)
  BY <1>1, RowsAtPositions
<1>9. /\ Cardinality(I) \in Nat
      /\ own = [k \in 1..Cardinality(I) |-> own[k]]
      /\ p \in [1..Cardinality(I) -> I]
      /\ \A k \in 1..Cardinality(I) : own[k] = legs[p[k]]
  BY <1>2 DEF Selected, Selects
<1>3. CASE own # <<>>
  <2>1. Cardinality(I) # 0
    BY <1>9, <1>3
  <2>2. Head(own) = own[1] /\ 1 \in 1..Cardinality(I)
    BY <1>9, <2>1
  <2>3. \E i \in 1..n : Head(own) = legs[i]
    BY <1>1, <1>9, <2>2
  <2> QED
    BY <1>3, <2>3 DEF own, Q!MainLeg
<1>4. CASE own = <<>> /\ legs # <<>>
  <2>1. n # 0
    BY <1>4
  <2>2. Head(legs) = legs[1] /\ 1 \in 1..n
    BY <2>1
  <2> QED
    BY <1>4, <2>2 DEF own, Q!MainLeg
<1>5. CASE own = <<>> /\ legs = <<>>
  BY <1>5 DEF own, Q!MainLeg
<1> QED
  BY <1>3, <1>4, <1>5

\* The main legs of the payment are legs of it.
LEMMA MainLegs ==
  ASSUME InputsOK, NEW n, n = Len(Payment)
  PROVE  /\ Q!MainFrom(Transaction) = Unset \/ \E i \in 1..n : Q!MainFrom(Transaction) = LegOf(i)
         /\ Q!MainTo(Transaction) = Unset \/ \E i \in 1..n : Q!MainTo(Transaction) = LegOf(i)
<1>1. n \in Nat /\ DOMAIN LegList = 1..n /\ \A i \in 1..n : LegList[i] = LegOf(i)
  BY LegFacts
<1>2. Transaction.legs = LegList
  BY LegFacts DEF Transaction
<1>3. ASSUME NEW d
      PROVE  \/ Q!MainLeg(Q!InDirection(LegList, d)) = Unset
             \/ \E i \in 1..n : Q!MainLeg(Q!InDirection(LegList, d)) = LegOf(i)
  <2> DEFINE I == {i \in DOMAIN LegList : LegList[i].direction = d}
             rows == Q!InDirection(LegList, d)
  <2>1. rows = Q!Filtered(LegList, I) /\ I \in SUBSET (1..n)
    BY <1>1 DEF Q!InDirection
  <2> HIDE DEF I, rows
  <2>2. PICK p : Selected(rows, LegList, I, p)
    BY <1>1, <2>1, RowsAtPositions
  <2> DEFINE c == Cardinality(I)
  <2>3. /\ c \in Nat /\ DOMAIN rows = 1..c /\ rows = [k \in 1..c |-> rows[k]]
        /\ p \in [1..c -> I] /\ \A k \in 1..c : rows[k] = LegList[p[k]]
    BY <2>2 DEF Selected, Selects
  <2> HIDE DEF c
  <2>4. Q!MainLeg(rows) = Unset \/ \E k \in 1..c : Q!MainLeg(rows) = rows[k]
    BY <2>3, MainLegIsALeg
  <2>5. \A k \in 1..c : p[k] \in 1..n /\ rows[k] = LegOf(p[k])
    BY <1>1, <2>1, <2>3
  <2>6. Q!MainLeg(rows) = Unset \/ \E i \in 1..n : Q!MainLeg(rows) = LegOf(i)
    BY <2>4, <2>5
  <2> QED
    BY <2>6 DEF rows
<1> QED
  BY <1>2, <1>3 DEF Q!MainFrom, Q!MainTo

\* The positions of the main legs, and the other positions.
Main(n)   == {i \in 1..n : LegOf(i) \in {Q!MainFrom(Transaction), Q!MainTo(Transaction)}}
Others(n) == {i \in 1..n : LegOf(i) \notin {Q!MainFrom(Transaction), Q!MainTo(Transaction)}}

LEMMA OtherLegs ==
  ASSUME InputsOK, NEW n, n = Len(Payment)
  PROVE  \E p : Selected(Q!AdditionalEntries(Transaction), LegList, Others(n), p)
<1>1. n \in Nat /\ DOMAIN LegList = 1..n /\ \A i \in 1..n : LegList[i] = LegOf(i)
  BY LegFacts
<1>2. Transaction.legs = LegList
  BY LegFacts DEF Transaction
<1>3. {i \in DOMAIN LegList :
         LegList[i] \notin {Q!MainFrom(Transaction), Q!MainTo(Transaction)}} = Others(n)
  BY <1>1 DEF Others
<1>4. Q!AdditionalEntries(Transaction) = Q!Filtered(LegList, Others(n))
  BY <1>2, <1>3 DEF Q!AdditionalEntries
<1>5. Others(n) \in SUBSET (1..n)
  BY DEF Others
<1> QED
  BY <1>1, <1>4, <1>5, RowsAtPositions

\* What a party shows of its leg.
LEMMA PartyOf ==
  ASSUME InputsOK, NEW n, n = Len(Payment), NEW i \in 1..n
  PROVE  Q!Party(LegOf(i)).leg = i /\ Q!Party(LegOf(i)) # Unset
<1> DEFINE a == LegOf(i).account
<1>1. LegOf(i) # Unset /\ LegOf(i).id = i /\ a \in Accounts
  BY LegFacts
<1>2. LegOf(i).amount \in Int /\ i \in Nat
  <2>1. LegOf(i).amount = Payment[i].amount
    BY LegFacts
  <2>2. Payment[i].amount \in Int /\ n \in Nat
    BY PaymentFacts DEF IsJournal
  <2> QED
    BY <2>1, <2>2
<1>3. Q!AccountName(a) = a
  BY <1>1, UnsetIsApart DEF Q!AccountName, SystemType, Owner, Accounts
<1>4. Q!Party(LegOf(i)) = [leg |-> LegOf(i).id, account |-> a, name |-> Q!AccountName(a),
                           amount |-> LegOf(i).amount,
                           isSystemAccount |-> SystemType[a] # Unset]
  BY <1>1 DEF Q!Party
<1> HIDE DEF a
<1>5. Q!Party(LegOf(i)) \in [leg : Nat, account : Accounts, name : Accounts, amount : Int,
                             isSystemAccount : BOOLEAN]
  BY <1>1, <1>2, <1>3, <1>4
<1>6. Q!Party(LegOf(i)) # Unset
  BY <1>5, UnsetIsApart
<1>7. Q!Party(LegOf(i)).leg = i
  BY <1>1, <1>4
<1> QED
  BY <1>6, <1>7

LEMMA FormatFacts ==
  /\ Q!FormatTransaction(Transaction).from = Q!Party(Q!MainFrom(Transaction))
  /\ Q!FormatTransaction(Transaction).to = Q!Party(Q!MainTo(Transaction))
  /\ Q!FormatTransaction(Transaction).additional = Q!AdditionalEntries(Transaction)
  /\ Q!FormatTransaction(Transaction).ledgerEntryCount = Len(Transaction.legs)
BY DEF Q!FormatTransaction

LEMMA Parties ==
  ASSUME InputsOK, NEW n, n = Len(Payment)
  PROVE  /\ PartiesShown = {Q!Party(LegOf(i)) : i \in Main(n)}
         /\ {p.leg : p \in PartiesShown} = Main(n)
         /\ IsFiniteSet(Main(n)) /\ Cardinality(PartiesShown) = Cardinality(Main(n))
<1> DEFINE from1 == Q!MainFrom(Transaction)
           to1 == Q!MainTo(Transaction)
           J == Main(n)
           P == PartiesShown
<1>1. P = {Q!Party(from1), Q!Party(to1)} \ {Unset}
  BY Shown, FormatFacts DEF PartiesShown
<1>2. \A i \in 1..n : Q!Party(LegOf(i)).leg = i /\ Q!Party(LegOf(i)) # Unset /\ LegOf(i) # Unset
  BY PartyOf, LegFacts
<1>3. Q!Party(Unset) = Unset
  BY DEF Q!Party
<1>4. /\ from1 = Unset \/ \E i \in 1..n : from1 = LegOf(i)
      /\ to1 = Unset \/ \E i \in 1..n : to1 = LegOf(i)
  BY MainLegs
<1>5. J = {i \in 1..n : LegOf(i) = from1 \/ LegOf(i) = to1}
  BY DEF Main
<1> HIDE DEF from1, to1, J, P
<1>6. P = {Q!Party(LegOf(i)) : i \in J}
  <2>1. ASSUME NEW x \in P PROVE \E i \in J : x = Q!Party(LegOf(i))
    <3>1. \E y \in {from1, to1} : x = Q!Party(y) /\ y # Unset
      BY <1>1, <1>3, <2>1
    <3> QED
      BY <1>4, <1>5, <3>1
  <2>2. ASSUME NEW i \in J PROVE Q!Party(LegOf(i)) \in P
    BY <1>1, <1>2, <1>5, <2>2
  <2> QED
    BY <2>1, <2>2
<1>7. \A i \in J : i \in 1..n
  BY <1>5
<1>8. {p.leg : p \in P} = J
  BY <1>2, <1>6, <1>7
<1>9. IsFiniteSet(J)
  <2>1. n \in Nat
    BY LegFacts
  <2>2. IsFiniteSet(1..n) /\ J \in SUBSET (1..n)
    BY <1>7, <2>1, FS_Interval
  <2> QED
    BY <2>2, FS_Subset
<1>10. Cardinality(P) = Cardinality(J)
  <2> DEFINE g == [i \in J |-> Q!Party(LegOf(i))]
  <2>1. g \in [J -> P] /\ \A x \in P : \E i \in J : g[i] = x
    BY <1>6
  <2>2. \A i, k \in J : g[i] = g[k] => i = k
    BY <1>2, <1>7
  <2> HIDE DEF g
  <2>3. g \in Bijection(J, P)
    BY <2>1, <2>2 DEF Bijection, Injection, Surjection, IsInjective
  <2>4. ExistsBijection(J, P)
    BY <2>3 DEF ExistsBijection
  <2> QED
    BY <1>9, <2>4, FS_Bijection
<1> QED
  BY <1>6, <1>8, <1>9, <1>10 DEF J, P

\* Each leg is shown once: as a party or among the additional entries.
LEMMA EachLegOnce ==
  ASSUME InputsOK
  PROVE  LET shown == [i \in DOMAIN ShownTransaction.additional |->
                           ShownTransaction.additional[i].id]
         IN  /\ Range(shown) \cup {p.leg : p \in PartiesShown} = {l.id : l \in Legs}
             /\ Len(shown) + Cardinality(PartiesShown) = Cardinality(Legs)
<1> DEFINE n == Len(Payment)
           rows == ShownTransaction.additional
           shown == [i \in DOMAIN rows |-> rows[i].id]
           I == Others(n)
           J == Main(n)
           c == Cardinality(I)
<1>1. rows = Q!AdditionalEntries(Transaction)
  BY Shown, FormatFacts
<1>2. /\ n \in Nat /\ \A i \in 1..n : LegList[i] = LegOf(i) /\ LegOf(i).id = i
      /\ Consecutive(Legs, LegList, n)
  BY LegFacts
<1>3. PICK p : Selected(rows, LegList, I, p)
  BY <1>1, OtherLegs
<1>4. /\ {q.leg : q \in PartiesShown} = J /\ IsFiniteSet(J)
      /\ Cardinality(PartiesShown) = Cardinality(J)
  BY Parties
<1>5. /\ \A i \in 1..n : i \in I \/ i \in J
      /\ I \cap J = {} /\ I \cup J = 1..n
  BY DEF Others, Main
<1> HIDE DEF rows, n, I, J, c
<1>6. /\ IsFiniteSet(I) /\ c \in Nat /\ DOMAIN rows = 1..c
      /\ p \in [1..c -> I] /\ \A i \in I : \E k \in 1..c : p[k] = i
      /\ \A k \in 1..c : rows[k] = LegList[p[k]]
  BY <1>3 DEF Selected, Selects, c
<1>7. /\ DOMAIN shown = 1..c /\ Len(shown) = c
      /\ \A k \in 1..c : shown[k] = p[k]
  <2>1. \A k \in 1..c : p[k] \in 1..n
    BY <1>5, <1>6
  <2>2. \A k \in 1..c : rows[k].id = p[k]
    BY <1>2, <1>6, <2>1
  <2> QED
    BY <1>6, <2>2
<1> HIDE DEF shown
<1>8. Range(shown) = I
  BY <1>6, <1>7 DEF Range
<1>9. {l.id : l \in Legs} = 1..n
  BY <1>2 DEF Consecutive
<1>10. Cardinality(Legs) = n
  BY <1>2, RowsOverTime
<1>11. c + Cardinality(J) = n
  <2>1. Cardinality(I \cup J) = Cardinality(I) + Cardinality(J) - Cardinality(I \cap J)
    BY <1>4, <1>6, FS_Union
  <2>2. Cardinality(I \cap J) = 0
    BY <1>5, FS_EmptySet
  <2>3. Cardinality(I \cup J) = n
    <3>1. 1 \in Int /\ n \in Int /\ (1 > n => n = 0) /\ n - 1 + 1 = n
      BY <1>2
    <3>2. Cardinality(1..n) = IF 1 > n THEN 0 ELSE n - 1 + 1
      BY <3>1, FS_Interval
    <3> QED
      BY <1>5, <3>1, <3>2
  <2>4. Cardinality(J) \in Nat
    BY <1>4, FS_CardinalityType
  <2> QED
    BY <1>6, <2>1, <2>2, <2>3, <2>4 DEF c
<1>12. Range(shown) \cup {q.leg : q \in PartiesShown} = {l.id : l \in Legs}
  BY <1>4, <1>5, <1>8, <1>9
<1>13. Len(shown) + Cardinality(PartiesShown) = Cardinality(Legs)
  BY <1>4, <1>7, <1>10, <1>11
<1> QED
  BY <1>12, <1>13 DEF shown, rows

-----------------------------------------------------------------------------
(* The plain reads.                                                        *)

LEMMA FoundIsOne == FoundBy = {<<Transaction>>}
<1> DEFINE T == Transaction
<1>1. /\ T.id = "t" /\ T.user = from /\ T.status = "SUCCESS"
  BY DEF Transaction
<1> HIDE DEF T
<1>2. /\ {t \in {T} : t.user = from} = {T}
      /\ {t \in {T} : t.status = "SUCCESS"} = {T}
      /\ \E t \in {T} : t.id = "t"
  BY <1>1
<1>3. Q!getTransactionsByUserId(from, {T}) = <<T>>
  BY <1>2, OneRow DEF Q!getTransactionsByUserId
<1>4. Q!getTransactionsByStatus("SUCCESS", {T}) = <<T>>
  BY <1>2, OneRow DEF Q!getTransactionsByStatus
<1>5. Q!getRecentTransactions(1, {T}) = <<T>>
  BY OneRow, SliceOfOne DEF Q!getRecentTransactions
<1>6. Q!getTransactionById("t", {T}).transaction = T
  <2> DEFINE u == CHOOSE t \in {T} : t.id = "t"
  <2>1. u = T
    BY <1>2
  <2> HIDE DEF u
  <2>2. Q!Ok([transaction |-> u]).transaction = u
    BY DEF Q!Ok, Q!Spread
  <2>3. Q!getTransactionById("t", {T}) = Q!Ok([transaction |-> u])
    BY <1>2 DEF Q!getTransactionById, u
  <2> QED
    BY <2>1, <2>2, <2>3
<1> QED
  BY <1>3, <1>4, <1>5, <1>6 DEF FoundBy, T

\* The entries of account a.
Of(a) == {l \in Legs : l.account = a}

LEMMA EntriesListed ==
  ASSUME InputsOK
  PROVE  /\ Q!getLedgerEntriesByTransactionId("t", Legs) = LegList
         /\ \A a : Range(Q!getLedgerEntriesByAccountId(a, Legs)) = Of(a)
<1> DEFINE n == Len(Payment)
<1>1. /\ n \in Nat /\ Consecutive(Legs, LegList, n) /\ Q!Oldest(Legs) = LegList
      /\ \A i \in 1..n : LegList[i] = LegOf(i) /\ LegOf(i).transaction = "t"
  BY LegFacts
<1> HIDE DEF n
<1>2. {e \in Legs : e.transaction = "t"} = Legs
  BY <1>1 DEF Consecutive
<1>3. Q!getLedgerEntriesByTransactionId("t", Legs) = LegList
  BY <1>1, <1>2 DEF Q!getLedgerEntriesByTransactionId
<1>4. ASSUME NEW a PROVE Range(Q!getLedgerEntriesByAccountId(a, Legs)) = Of(a)
  <2> DEFINE X == Of(a)
             list == Q!Oldest(X)
             c == Cardinality(X)
  <2>1. Q!getLedgerEntriesByAccountId(a, Legs) = list
    BY DEF Q!getLedgerEntriesByAccountId, Of
  <2>2. X \in SUBSET Legs
    BY DEF Of
  <2> HIDE DEF X
  <2>3. IsFiniteSet(X) /\ Q!Ordered(X)
    BY <1>1, <2>2, RowsOverTime
  <2>4. list \in [1..c -> X] /\ \A r \in X : \E k \in 1..c : list[k] = r
    BY <2>3, OldestFirst
  <2> HIDE DEF list, c
  <2>5. Range(list) = X
    BY <2>4 DEF Range
  <2> QED
    BY <2>1, <2>5 DEF X
<1> QED
  BY <1>3, <1>4

\* The latest entry of an account tells the balance of it.
LEMMA LatestTells ==
  ASSUME InputsOK, NEW a \in Accounts
  PROVE  IF \E l \in Legs : l.account = a
         THEN Latest(a).entry.balanceAfter = Posted.balance[a]
         ELSE Latest(a).kind = "notFound"
<1> DEFINE n == Len(Payment)
           X == Of(a)
           own == Q!Newest(X)
<1>1. /\ n \in Nat /\ Consecutive(Legs, LegList, n)
      /\ \A i \in 1..n : /\ LegList[i] = LegOf(i) /\ LegOf(i).at = i
                         /\ LegOf(i).account = Payment[i].account
                         /\ LegOf(i).balanceAfter = Balance[Payment[i].account]
                                                      + Net(Payment, Payment[i].account, i)
  BY LegFacts
<1>2. {e \in Legs : e.account = a} = X
  BY DEF Of
<1>3. Latest(a) = IF own = <<>> THEN [kind |-> "notFound"] ELSE Q!Ok([entry |-> Head(own)])
  BY <1>2 DEF Latest, Q!getLatestLedgerEntry
<1>4. X \in SUBSET Legs /\ (X # {} <=> \E l \in Legs : l.account = a)
      /\ \A l \in Legs : l \in X <=> l.account = a
  BY DEF Of
<1> HIDE DEF X, own, n
<1>5. IsFiniteSet(X) /\ Q!Ordered(X)
  BY <1>1, <1>4, RowsOverTime
<1>6. CASE X = {}
  <2>1. Cardinality(X) = 0
    BY <1>6, FS_EmptySet
  <2>2. own \in [1..0 -> X]
    BY <1>5, <2>1, NewestFirst DEF own
  <2>3. own = <<>>
    BY <2>2
  <2> QED
    BY <1>3, <1>4, <1>6, <2>3
<1>7. CASE X # {}
  <2> DEFINE top == Head(own)
  <2>1. own # <<>> /\ top \in X /\ \A r \in X : r.at <= top.at
    BY <1>1, <1>4, <1>7, FirstIsLatest DEF own
  <2> HIDE DEF top
  <2>2. Q!Ok([entry |-> top]).entry = top
    BY DEF Q!Ok, Q!Spread
  <2>3. Latest(a).entry = top
    BY <1>3, <2>1, <2>2 DEF top
  <2>4. PICK i \in 1..n : top = LegOf(i)
    BY <1>1, <1>4, <2>1 DEF Consecutive
  <2>5. Payment[i].account = a
    BY <1>1, <1>4, <2>1, <2>4
  <2>6. ASSUME NEW j \in 1..n, Payment[j].account = a PROVE j <= i
    <3>1. LegOf(j) \in Legs
      BY <1>1 DEF Consecutive
    <3>2. LegOf(j) \in X
      BY <1>1, <1>4, <2>6, <3>1
    <3>3. LegOf(j).at = j /\ top.at = i
      BY <1>1, <2>4
    <3> QED
      BY <2>1, <3>2, <3>3
  <2>7. {j \in 1..i : Payment[j].account = a} = {j \in 1..n : Payment[j].account = a}
    BY <1>1, <2>6
  <2>8. Net(Payment, a, i) = Net(Payment, a, n)
    BY <2>7 DEF Net
  <2>9. Posted.balance[a] = Balance[a] + Net(Payment, a, n)
    BY StampsHold DEF StampsAreRunningBalances, n
  <2>10. top.balanceAfter = Posted.balance[a]
    BY <1>1, <2>4, <2>5, <2>8, <2>9
  <2> QED
    BY <1>4, <1>7, <2>3, <2>10
<1> QED
  BY <1>6, <1>7

LEMMA ReadsDoAgree == InputsOK => ReadsAgree
<1> SUFFICES ASSUME InputsOK PROVE ReadsAgree
  OBVIOUS
<1>1. ShownTransaction.ledgerEntryCount = Len(Q!getLedgerEntriesByTransactionId("t", Legs))
  <2>1. Transaction.legs = LegList
    BY LegFacts DEF Transaction
  <2> QED
    BY <2>1, Shown, FormatFacts, EntriesListed
<1>2. UNION {Range(Q!getLedgerEntriesByAccountId(a, Legs)) : a \in Accounts} = Legs
  <2>1. UNION {Range(Q!getLedgerEntriesByAccountId(a, Legs)) : a \in Accounts}
          = UNION {Of(a) : a \in Accounts}
    BY EntriesListed
  <2>2. \A l \in Legs : l.account \in Accounts
    <3> DEFINE n == Len(Payment)
    <3>1. /\ Consecutive(Legs, LegList, n)
          /\ \A i \in 1..n : LegList[i].account \in Accounts
      BY LegFacts
    <3> HIDE DEF n
    <3> QED
      BY <3>1 DEF Consecutive
  <2> QED
    BY <2>1, <2>2 DEF Of
<1> QED
  BY <1>1, <1>2, FoundIsOne, LatestTells DEF ReadsAgree

LEMMA LegsShown == InputsOK => EveryLegIsShown
BY EachLegOnce, ReadsDoAgree DEF EveryLegIsShown

\* The administrator sees each leg of a transaction exactly once, whatever accounts
\* coincide, and the plain reads show the same legs and balances.
THEOREM LegsAreShown == CheckSpec => []EveryLegIsShown
BY InputsInvariant, LegsShown, PTL

LEMMA LastPosition ==
  ASSUME NEW n \in Nat, NEW s \in SUBSET (1..n), s # {}
  PROVE  Max(s) \in s /\ IsFiniteSet(s)
<1>1. IsFiniteSet(1..n) /\ 1..n \subseteq Nat
  BY FS_Interval
<1>2. IsFiniteSet(s) /\ s \in SUBSET Nat
  BY <1>1, FS_Subset
<1>3. \E x \in s : \A y \in s : x >= y
  <2>1. PICK x \in s : \A y \in s : y <= x
    BY <1>2, GreatestNumber
  <2>2. \A y \in s : x >= y
    BY <2>1
  <2> QED
    BY <2>2
<1> QED
  BY <1>2, <1>3 DEF Max

\* The rows of a movement are added up.
LEMMA RowsAddUp ==
  ASSUME NEW movement, NEW n \in Nat, NEW rows, rows = movement.rows, DOMAIN rows = 1..n,
         NEW d, \A i \in 1..n : d[i] = rows[i].amount /\ d[i] \in Int
  PROVE  SumShown(movement) = SumFunctionOnSet(d, 1..n)
<1> DEFINE Iter(g) == g = [s \in SUBSET (1..n) |->
                            IF s = {} THEN 0 ELSE g[s \ {Max(s)}] + rows[Max(s)].amount]
           it == CHOOSE g : Iter(g)
           last == [s \in SUBSET (1..n) |-> Max(s)]
<1>1. SumShown(movement) = it[1..n]
  BY DEF SumShown, FoldLeft, MapThenFoldSet
<1>2. \A s \in SUBSET (1..n) : s # {} => last[s] = Max(s) /\ Max(s) \in s
  BY LastPosition
<1>3. \A g : Iter(g) <=> Adds(g, n, d, last)
  BY <1>2 DEF Adds
<1> HIDE DEF last, Iter
<1>4. Adds(it, n, d, last)
  BY <1>2, <1>3, FoldIsSum
<1> HIDE DEF it
<1> QED
  BY <1>1, <1>2, <1>4, FoldIsSum

\* All legs but the first, in order.
LEMMA AllButTheFirst ==
  ASSUME NEW n \in Nat, n > 0, NEW p, Selects(p, 2..n)
  PROVE  Cardinality(2..n) = n - 1 /\ \A k \in 1..n - 1 : p[k] = k + 1
<1>1. \A a, b \in Int : Cardinality(a..b) = IF a > b THEN 0 ELSE b - a + 1
  BY FS_Interval
<1>2. Cardinality(2..n) = n - 1
  BY <1>1
<1>3. ASSUME NEW k \in 1..n - 1 PROVE p[k] = k + 1
  <2>1. p[k] \in 2..n /\ Cardinality({j \in 2..n : j < p[k]}) = k - 1
    BY <1>2 DEF Selects
  <2> DEFINE x == p[k]
  <2> HIDE DEF x
  <2>2. x \in 2..n /\ Cardinality({j \in 2..n : j < x}) = k - 1
    BY <2>1 DEF x
  <2>3. {j \in 2..n : j < x} = 2..x - 1
    BY <2>2
  <2>4. Cardinality(2..x - 1) = x - 2
    <3>1. 2 \in Int /\ x - 1 \in Int /\ (2 > x - 1 => x - 2 = 0) /\ (x - 1) - 2 + 1 = x - 2
      BY <2>2
    <3>2. Cardinality(2..x - 1) = IF 2 > x - 1 THEN 0 ELSE (x - 1) - 2 + 1
      BY <1>1, <3>1
    <3> QED
      BY <3>1, <3>2
  <2> DEFINE Y == {j \in 2..n : j < x}
  <2>5. x - 2 = k - 1 /\ x \in Int
    <3>1. Cardinality(Y) = k - 1 /\ Y = 2..x - 1
      BY <2>2, <2>3
    <3> HIDE DEF Y
    <3> QED
      BY <2>2, <2>4, <3>1
  <2> QED
    BY <2>5 DEF x
<1> QED
  BY <1>2, <1>3

DebitsOnly == [NoFilter EXCEPT !.direction = "DEBIT"]

LEMMA DebitsOnlyFacts ==
  /\ DebitsOnly.direction = "DEBIT" /\ DebitsOnly.status = Unset /\ DebitsOnly.type = Unset
  /\ DebitsOnly.from = Unset /\ DebitsOnly.to = Unset
  /\ DebitsOnly.page = Unset /\ DebitsOnly.limit = Unset /\ DebitsOnly.order = "desc"
  /\ [DebitsOnly EXCEPT !.order = "desc"] = DebitsOnly
<1>1. DebitsOnly = [transactionId |-> Unset, userId |-> Unset, direction |-> "DEBIT",
                    status |-> Unset, type |-> Unset, from |-> Unset, to |-> Unset,
                    page |-> Unset, limit |-> Unset, order |-> "desc"]
  BY DEF DebitsOnly, NoFilter
<1>2. [DebitsOnly EXCEPT !.order = "desc"] = DebitsOnly
  BY <1>1
<1> QED
  BY <1>1, <1>2

\* The payer of a payment has one movement: the debit with the other legs under it.
LEMMA PayersMovement ==
  ASSUME InputsOK, amount + fee + tax > 0
  PROVE  MyRows(from, "DEBIT") = <<Q!Movement(LegOf(1), LegList)>>
<1> DEFINE n == Len(Payment)
           first == LegOf(1)
           q == DebitsOnly
           LegsOf(e) == Q!Oldest({l \in Legs : l.transaction = e.transaction})
           page == Q!PageOf({e \in Legs : Q!WhereMine(from, q, e)},
                            {e \in Legs : Q!WhereMine(from, q, e)}, q)
           mine == [page EXCEPT !.rows = [i \in DOMAIN page.rows |->
                                             Q!Movement(page.rows[i], LegsOf(page.rows[i]))]]
<1>1. /\ n \in Nat /\ Consecutive(Legs, LegList, n) /\ Q!Oldest(Legs) = LegList
      /\ DOMAIN Payment = 1..n
      /\ \A i \in 1..n : /\ LegList[i] = LegOf(i) /\ LegOf(i).transaction = "t"
                         /\ LegOf(i).account = Payment[i].account
                         /\ LegOf(i).direction = Payment[i].type
  BY LegFacts
<1>2. /\ Debits(Payment) = {1} /\ Payment[1].account = from
  BY DebitsOfPayment
<1>3. \A i \in 1..n : Payment[i].type = "DEBIT" <=> i = 1
  BY <1>1, <1>2 DEF Debits
<1>4. 1 \in 1..n
  BY <1>1, <1>2 DEF Debits
<1> HIDE DEF n
<1>5. \A e \in Legs : \E i \in 1..n : e = LegOf(i)
  BY <1>1 DEF Consecutive
<1>6. first \in Legs /\ \A i \in 1..n : LegOf(i) \in Legs
  BY <1>1, <1>4 DEF Consecutive
<1>7. {e \in Legs : Q!WhereMine(from, q, e)} = {first}
  <2>1. ASSUME NEW e
        PROVE  Q!WhereMine(from, q, e) <=> e.account = from /\ e.direction = "DEBIT"
    <3>1. "DEBIT" # Unset
      BY UnsetIsApart DEF EntryType
    <3>2. Q!Given(q.direction, e.direction) <=> e.direction = "DEBIT"
      BY <3>1, DebitsOnlyFacts DEF Q!Given
    <3>3. /\ Q!Given(q.status, e.status) /\ Q!Given(q.type, e.type)
          /\ Q!InRange(q, e.at)
      BY DebitsOnlyFacts DEF Q!Given, Q!InRange
    <3> QED
      BY <3>2, <3>3 DEF Q!WhereMine
  <2> QED
    BY <1>1, <1>2, <1>3, <1>4, <1>5, <1>6, <2>1
<1>8. page = Q!PageOf({first}, {first}, q)
  BY <1>7
<1>9. DOMAIN page = {"rows", "pagination"} /\ page.rows = <<first>>
  <2>1. q.page = Unset /\ q.limit = Unset /\ q.order = "desc"
    BY DebitsOnlyFacts
  <2> HIDE DEF page, first, q
  <2>2. /\ DOMAIN Q!PageOf({first}, {first}, q) = {"rows", "pagination"}
        /\ Q!PageOf({first}, {first}, q).rows = <<first>>
    BY <2>1, OnePage
  <2> QED
    BY <1>8, <2>2
<1>10. LegsOf(first) = LegList
  <2>1. {l \in Legs : l.transaction = first.transaction} = Legs
    BY <1>1, <1>4, <1>5
  <2> QED
    BY <1>1, <2>1
<1>11. Q!getMyTransactions(from, q, Legs, Legs) = mine
  BY DebitsOnlyFacts DEF Q!getMyTransactions
<1>12. Q!getMyTransactionsController(from, q, Legs, Legs) = Q!Ok(mine)
  <2>1. from # Unset
    BY UnsetIsApart DEF InputsOK
  <2>2. /\ Q!IsOneOf(q.direction, Q!EntryType) /\ Q!IsOneOf(q.status, Q!TransactionStatus)
        /\ Q!IsOneOf(q.type, Q!TransactionType) /\ Q!DatesParse(q)
    BY DebitsOnlyFacts, UnsetIsApart DEF Q!IsOneOf, Q!DatesParse, Q!EntryType
  <2> QED
    BY <1>11, <2>1, <2>2 DEF Q!getMyTransactionsController
<1> HIDE DEF page, first, LegsOf
<1>13. "rows" \in DOMAIN mine /\ mine.rows = <<Q!Movement(first, LegList)>>
  <2>1. [i \in DOMAIN page.rows |-> Q!Movement(page.rows[i], LegsOf(page.rows[i]))]
          = <<Q!Movement(first, LegsOf(first))>>
    BY <1>9
  <2> QED
    BY <1>9, <1>10, <2>1
<1> HIDE DEF mine, q
<1>14. MyRows(from, "DEBIT") = mine.rows
  BY <1>12, <1>13, OkRows DEF MyRows, DebitsOnly, q
<1> QED
  BY <1>13, <1>14 DEF first

\* Under the debit every other leg is listed, with its amount.
LEMMA RowsOfTheDebit ==
  ASSUME InputsOK, amount + fee + tax > 0, NEW n, n = Len(Payment),
         NEW rows, rows = Q!Movement(LegOf(1), LegList).rows
  PROVE  /\ n \in Nat /\ n > 0 /\ DOMAIN rows = 1..n - 1
         /\ \A k \in 1..n - 1 : rows[k].amount = Payment[k + 1].amount
<1> DEFINE others == Q!Counterparts(LegOf(1), LegList)
           I == {i \in DOMAIN LegList :
                   /\ LegList[i].id # LegOf(1).id
                   /\ ~ /\ LegOf(1).direction = "CREDIT"
                        /\ SystemType[LegList[i].account] \notin {Unset, "DEPOSIT"}}
<1>1. /\ n \in Nat /\ DOMAIN LegList = 1..n /\ DOMAIN Payment = 1..n
      /\ \A i \in 1..n : /\ LegList[i] = LegOf(i) /\ LegOf(i).id = i
                         /\ LegOf(i).direction = Payment[i].type
                         /\ LegOf(i).amount = Payment[i].amount
  BY LegFacts
<1>2. 1 \in 1..n /\ Payment[1].type = "DEBIT"
  BY <1>1, DebitsOfPayment DEF Debits
<1>3. I = 2..n
  <2>1. LegOf(1).direction # "CREDIT" /\ LegOf(1).id = 1
    BY <1>1, <1>2
  <2> QED
    BY <1>1, <2>1
<1>4. others = Q!Filtered(LegList, I)
  BY DEF Q!Counterparts
<1> HIDE DEF I, others
<1>5. PICK p : Selected(others, LegList, 2..n, p)
  <2>1. I \in SUBSET (1..n)
    BY <1>1, <1>3
  <2> QED
    BY <1>1, <1>3, <1>4, <2>1, RowsAtPositions
<1>6. n > 0 /\ Cardinality(2..n) = n - 1 /\ \A k \in 1..n - 1 : p[k] = k + 1
  <2>1. n > 0 /\ Selects(p, 2..n)
    BY <1>1, <1>2, <1>5 DEF Selected
  <2> QED
    BY <1>1, <2>1, AllButTheFirst
<1>7. DOMAIN others = 1..n - 1 /\ \A k \in 1..n - 1 : others[k] = LegOf(k + 1)
  <2>1. DOMAIN others = 1..n - 1 /\ \A k \in 1..n - 1 : others[k] = LegList[p[k]]
    BY <1>5, <1>6 DEF Selected
  <2>2. \A k \in 1..n - 1 : p[k] \in 1..n /\ p[k] = k + 1
    BY <1>1, <1>6
  <2> QED
    BY <1>1, <2>1, <2>2
<1>8. rows = [i \in DOMAIN others |-> Q!ShownRow(LegOf(1), others[i])]
  BY DEF Q!Movement, others
<1>9. \A l : Q!ShownRow(LegOf(1), l).amount = l.amount
  BY DEF Q!ShownRow
<1>10. \A k \in 1..n - 1 : k + 1 \in 1..n
  BY <1>1
<1>11. ASSUME NEW k \in 1..n - 1 PROVE rows[k].amount = Payment[k + 1].amount
  <2>1. rows[k] = Q!ShownRow(LegOf(1), LegOf(k + 1))
    BY <1>7, <1>8
  <2>2. rows[k].amount = LegOf(k + 1).amount
    BY <1>9, <2>1
  <2> QED
    BY <1>1, <1>10, <2>2
<1>12. DOMAIN rows = 1..n - 1
  BY <1>7, <1>8
<1> QED
  BY <1>1, <1>6, <1>11, <1>12

\* So the rows add up to what was credited.
LEMMA RowsAreTheCredits ==
  ASSUME InputsOK, amount + fee + tax > 0
  PROVE  SumShown(Q!Movement(LegOf(1), LegList)) = TotalOf(Payment, Credits(Payment))
<1> DEFINE n == Len(Payment)
           m == n - 1
           f == [i \in DOMAIN Payment |-> Payment[i].amount]
           rows == Q!Movement(LegOf(1), LegList).rows
           d == [k \in 1..m |-> rows[k].amount]
           t == [k \in 0..m |-> SumFunctionOnSet(f, 2..k + 1)]
<1>1. /\ n \in Nat /\ n > 0 /\ DOMAIN rows = 1..m
      /\ \A k \in 1..m : rows[k].amount = Payment[k + 1].amount
  BY RowsOfTheDebit
<1>2. DOMAIN Payment = 1..n /\ \A i \in 1..n : f[i] = Payment[i].amount /\ f[i] \in Int
  BY PaymentFacts DEF IsJournal
<1>3. Credits(Payment) = 2..n
  <2>1. Debits(Payment) = {1}
    BY DebitsOfPayment
  <2>2. \A i \in 1..n : Payment[i].type = "DEBIT" \/ Payment[i].type = "CREDIT"
    BY <1>2, PaymentFacts DEF IsJournal, EntryType
  <2>3. \A i \in 1..n : Payment[i].type = "CREDIT" <=> i # 1
    BY <1>2, <2>1, <2>2 DEF Debits
  <2> QED
    BY <1>1, <1>2, <2>3 DEF Credits
<1>4. TotalOf(Payment, Credits(Payment)) = SumFunctionOnSet(f, 2..n)
  BY <1>3 DEF TotalOf
<1> HIDE DEF n, f, rows
<1>5. m \in Nat /\ m + 1 = n
  BY <1>1
<1>6. \A k \in 1..m : d[k] = rows[k].amount /\ d[k] = f[k + 1] /\ d[k] \in Int
  <2>1. \A k \in 1..m : k + 1 \in 1..n
    BY <1>5
  <2> QED
    BY <1>1, <1>2, <2>1
<1> HIDE DEF d, m
<1>7. SumShown(Q!Movement(LegOf(1), LegList)) = SumFunctionOnSet(d, 1..m)
  BY <1>1, <1>5, <1>6, RowsAddUp DEF rows
<1>8. t[0] = 0
  <2>1. 2..0 + 1 = {} /\ 0 \in 0..m
    BY <1>5
  <2> QED
    BY <2>1, SumEmpty
<1>9. ASSUME NEW k \in 1..m PROVE t[k] = t[k - 1] + d[k]
  <2> DEFINE S == 2..k
  <2>1. /\ k - 1 \in 0..m /\ k \in 0..m /\ (k - 1) + 1 = k /\ k + 1 \in 1..n
        /\ 2..k + 1 = S \cup {k + 1} /\ k + 1 \notin S /\ \A i \in S : i \in 1..n
    BY <1>5
  <2>2. IsFiniteSet(S)
    BY FS_Interval
  <2>3. f[k + 1] \in Int /\ \A i \in S : f[i] \in Int
    BY <1>2, <2>1
  <2>4. t[k] = SumFunctionOnSet(f, S \cup {k + 1}) /\ t[k - 1] = SumFunctionOnSet(f, S)
    BY <2>1
  <2> HIDE DEF S, t
  <2>5. SumFunctionOnSet(f, S \cup {k + 1}) = f[k + 1] + SumFunctionOnSet(f, S)
    BY <2>1, <2>2, <2>3, SumAdd
  <2>6. SumFunctionOnSet(f, S) \in Int
    BY <2>2, <2>3, SumType
  <2> QED
    BY <1>6, <2>3, <2>4, <2>5, <2>6
<1>10. t[m] = SumFunctionOnSet(f, 2..n)
  BY <1>5
<1> HIDE DEF t
<1>11. SumFunctionOnSet(d, 1..m) = t[m]
  <2>1. IsRunningTotal(t, d, m)
    BY <1>6, <1>8, <1>9 DEF IsRunningTotal
  <2> QED
    BY <1>5, <2>1, RunningTotal
<1> QED
  BY <1>4, <1>7, <1>10, <1>11

LEMMA ChargesShown == InputsOK => PayerSeesEveryCharge
<1> SUFFICES ASSUME InputsOK, ValidateJournal(Payment), NEW i \in DOMAIN MyRows(from, "DEBIT")
             PROVE  SumShown(MyRows(from, "DEBIT")[i]) = amount + fee + tax
  BY DEF PayerSeesEveryCharge
<1>1. fee >= 0 /\ tax >= 0 /\ amount \in Int /\ amount > 0 /\ fee \in Int /\ tax \in Int
  BY ValidIff DEF BuiltJournalsBalance, InputsOK
<1>2. amount + fee + tax > 0
  BY <1>1
<1>3. MyRows(from, "DEBIT") = <<Q!Movement(LegOf(1), LegList)>>
  BY <1>2, PayersMovement
<1>4. MyRows(from, "DEBIT")[i] = Q!Movement(LegOf(1), LegList)
  BY <1>3
<1>5. TotalOf(Payment, Credits(Payment)) = amount + fee + tax
  BY <1>1, PaymentFacts DEF AtLeastZero
<1> QED
  BY <1>2, <1>4, <1>5, RowsAreTheCredits

\* A payer sees where every paisa of a debit went, whatever accounts pay and receive.
THEOREM ChargesAreSeen == CheckSpec => []PayerSeesEveryCharge
BY InputsInvariant, ChargesShown, PTL

-----------------------------------------------------------------------------
(* The numbers of k6.                                                      *)

LEMMA FieldsAddUp ==
  ASSUME NEW seq, NEW n \in Nat, DOMAIN seq = 1..n, NEW field,
         NEW d, \A i \in 1..n : d[i] = seq[i][field] /\ d[i] \in Int
  PROVE  L!SumOf(seq, field) = SumFunctionOnSet(d, 1..n)
<1> DEFINE Iter(g) == g = [s \in SUBSET (1..n) |->
                            IF s = {} THEN 0 ELSE g[s \ {L!Max(s)}] + seq[L!Max(s)][field]]
           it == CHOOSE g : Iter(g)
           last == [s \in SUBSET (1..n) |-> L!Max(s)]
<1>1. L!SumOf(seq, field) = it[1..n]
  BY DEF L!SumOf, L!FoldLeft, L!MapThenFoldSet
<1>2. \A s \in SUBSET (1..n) : s # {} => last[s] = L!Max(s) /\ L!Max(s) \in s
  BY LastOfSubset
<1>3. \A g : Iter(g) <=> Adds(g, n, d, last)
  BY <1>2 DEF Adds
<1> HIDE DEF last, Iter
<1>4. Adds(it, n, d, last)
  BY <1>2, <1>3, FoldIsSum
<1> HIDE DEF it
<1> QED
  BY <1>1, <1>2, <1>4, FoldIsSum

LEMMA SumOfNaturals ==
  ASSUME NEW S, IsFiniteSet(S), NEW d, \A i \in S : d[i] \in Nat
  PROVE  SumFunctionOnSet(d, S) \in Nat
<1> DEFINE F == {s \in SUBSET S : SumFunctionOnSet(d, s) \in Nat}
<1>1. {} \in F
  BY SumEmpty
<1>2. ASSUME NEW s \in SUBSET S, s # {}, \A x \in s : s \ {x} \in F PROVE s \in F
  <2>1. IsFiniteSet(s) /\ First(s) \in s
    BY <1>2, FirstIn, FS_Subset
  <2>2. SumFunctionOnSet(d, s) = d[First(s)] + SumFunctionOnSet(d, s \ {First(s)})
    BY <1>2, <2>1, SumFirst
  <2>3. SumFunctionOnSet(d, s \ {First(s)}) \in Nat /\ d[First(s)] \in Nat
    BY <1>2, <2>1
  <2> QED
    BY <2>2, <2>3
<1>3. SUBSET S \subseteq F
  <2> HIDE DEF F
  <2> QED
    BY <1>1, <1>2, SubsetInduction
<1> QED
  BY <1>3

\* Three for each of X.
LEMMA SumOfThrees ==
  ASSUME NEW S, IsFiniteSet(S), NEW X, NEW d, \A i \in S : d[i] = IF i \in X THEN 3 ELSE 0
  PROVE  SumFunctionOnSet(d, S) = 3 * Cardinality(S \cap X)
<1> DEFINE F == {s \in SUBSET S : SumFunctionOnSet(d, s) = 3 * Cardinality(s \cap X)}
<1>1. {} \in F
  <2>1. Cardinality({} \cap X) = 0
    <3>1. {} \cap X = {}
      OBVIOUS
    <3> QED
      BY <3>1, FS_EmptySet
  <2> QED
    BY <2>1, SumEmpty
<1>2. ASSUME NEW s \in SUBSET S, s # {}, \A x \in s : s \ {x} \in F PROVE s \in F
  <2> DEFINE y == First(s)
             r == s \ {y}
  <2>1. y \in s /\ IsFiniteSet(s) /\ IsFiniteSet(s \cap X)
    BY <1>2, FirstIn, FS_Subset
  <2>2. SumFunctionOnSet(d, s) = d[y] + SumFunctionOnSet(d, r)
    BY <1>2, <2>1, SumFirst
  <2>3. SumFunctionOnSet(d, r) = 3 * Cardinality(r \cap X)
    BY <1>2, <2>1
  <2>4. Cardinality(s \cap X) \in Nat
    BY <2>1, FS_CardinalityType
  <2> HIDE DEF y
  <2>5. CASE y \in X
    <3>1. r \cap X = (s \cap X) \ {y} /\ y \in s \cap X
      BY <2>1, <2>5
    <3> DEFINE Y == s \cap X
    <3>2. Cardinality(r \cap X) = Cardinality(s \cap X) - 1
      <4>1. IsFiniteSet(Y) /\ y \in Y /\ r \cap X = Y \ {y}
        BY <2>1, <3>1
      <4> HIDE DEF Y
      <4>2. Cardinality(Y \ {y}) = Cardinality(Y) - 1
        BY <4>1, FS_RemoveElement
      <4> QED
        BY <4>1, <4>2 DEF Y
    <3>3. d[y] = 3
      BY <2>1, <2>5
    <3>4. SumFunctionOnSet(d, s) = 3 * Cardinality(s \cap X)
      BY <2>2, <2>3, <2>4, <3>2, <3>3
    <3> QED
      BY <3>4
  <2>6. CASE y \notin X
    <3>1. r \cap X = s \cap X
      BY <2>6
    <3>2. d[y] = 0
      BY <2>1, <2>6
    <3>4. SumFunctionOnSet(d, s) = 3 * Cardinality(s \cap X)
      BY <2>2, <2>3, <2>4, <3>1, <3>2
    <3> QED
      BY <3>4
  <2> QED
    BY <2>5, <2>6
<1>3. SUBSET S \subseteq F
  <2> HIDE DEF F
  <2> QED
    BY <1>1, <1>2, SubsetInduction
<1> QED
  BY <1>3

\* The part that is a whole number of percent of at most fifty is told from that number.
LEMMA PercentTells ==
  ASSUME NEW n \in Nat, n > 0, n <= 50, NEW k \in 0..n
  PROVE  L!Rounded((k * 100) \div n, n) = k
<1> DEFINE q == (k * 100) \div n
           r == (k * 100) % n
           m == q * n
<1>1. q \in Int /\ r \in Int /\ 0 <= r /\ r < n
  OBVIOUS
<1>2. k * 100 = n * q + r
  OBVIOUS
<1>3. n * q = m /\ m \in Int
  BY <1>1
<1> HIDE DEF q, r, m
<1>4. (m + 50) \div 100 = k
  BY <1>1, <1>2, <1>3
<1> QED
  BY <1>4 DEF L!Rounded, q, m

\* Two parts of a whole are a hundred percent of it, but for rounding.
LEMMA SharesAddUp ==
  ASSUME NEW a \in Nat, NEW b \in Nat, a + b > 0
  PROVE  L!Share(a, a + b) + L!Share(b, a + b) \in 99..100
<1> DEFINE n == a + b
           p == (a * 100) \div n
           q == (b * 100) \div n
           u == (a * 100) % n
           v == (b * 100) % n
<1>1. n \in Int /\ n > 0
  OBVIOUS
<1> HIDE DEF n
<1>2. p \in Int /\ u \in Int /\ 0 <= u /\ u < n /\ a * 100 = n * p + u
  BY <1>1
<1>3. q \in Int /\ v \in Int /\ 0 <= v /\ v < n /\ b * 100 = n * q + v
  BY <1>1
<1> HIDE DEF p, q, u, v
<1>4. n * p + u + n * q + v = n * 100
  BY <1>2, <1>3 DEF n
<1>5. n * (p + q) = n * 100 - (u + v)
  BY <1>1, <1>2, <1>3, <1>4
<1>6. p + q <= 100
  <2> SUFFICES ASSUME p + q >= 101 PROVE FALSE
    BY <1>2, <1>3
  <2>1. n * (p + q) >= n * 101
    BY <1>1, <1>2, <1>3
  <2> QED
    BY <1>1, <1>2, <1>3, <1>5, <2>1
<1>7. p + q >= 99
  <2> SUFFICES ASSUME p + q <= 98 PROVE FALSE
    BY <1>2, <1>3
  <2>1. n * (p + q) <= n * 98
    BY <1>1, <1>2, <1>3
  <2> QED
    BY <1>1, <1>2, <1>3, <1>5, <2>1
<1>8. L!Share(a, n) = p /\ L!Share(b, n) = q
  BY <1>1 DEF L!Share, p, q
<1>9. L!Share(a, n) + L!Share(b, n) \in 99..100
  BY <1>2, <1>3, <1>6, <1>7, <1>8
<1> QED
  BY <1>9 DEF n

\* A run of k6 of at most fifty requests (k6 tells their rates in whole percents here),
\* with any latencies.
IsLoadTest ==
    /\ input.nested \in BOOLEAN
    /\ Len(input.logins) \in Nat /\ DOMAIN input.logins = 1..Len(input.logins)
    /\ Len(input.answers) \in Nat /\ DOMAIN input.answers = 1..Len(input.answers)
    /\ Len(input.answers) = 0 <=> input.answers = <<>>
    /\ \A i \in 1..Len(input.answers) : input.answers[i] \in {"paid", "refused", "garbled"}
    /\ Len(input.logins) > 0 /\ Len(input.logins) + Len(input.answers) <= 50
    /\ input.avg \in Nat /\ input.expectedAvg \in Nat \cup {Unset}

Paid == {i \in DOMAIN input.answers : input.answers[i] = "paid"}

LEMMA CountedFacts ==
  ASSUME IsLoadTest
  PROVE  /\ Counted.total = Len(input.logins) + Len(input.answers)
         /\ Counted.total \in Nat /\ Counted.total > 0 /\ Counted.total <= 50
         /\ Counted.failed \in 0..Counted.total
         /\ Counted.passes = 3 * Cardinality(Paid)
         /\ Counted.passes \in Nat /\ Counted.fails \in Nat
         /\ input.answers = <<>> => Counted.passes = 0 /\ Counted.fails = 0
<1> DEFINE logins == input.logins
           answers == input.answers
           m == Len(logins)
           n == Len(answers)
           checked == [i \in DOMAIN answers |-> L!checks(answers[i])]
           A == {i \in DOMAIN logins : logins[i] \in {Unset}}
           B == {i \in DOMAIN answers : answers[i] \in {"refused", "garbled"}}
           d == [i \in 1..n |-> IF i \in Paid THEN 3 ELSE 0]
           e == [i \in 1..n |-> L!checks(answers[i]).fails]
<1>1. /\ m \in Nat /\ m > 0 /\ DOMAIN logins = 1..m
      /\ n \in Nat /\ DOMAIN answers = 1..n /\ m + n <= 50
      /\ answers = <<>> => n = 0
      /\ \A i \in 1..n : answers[i] \in {"paid", "refused", "garbled"}
  BY DEF IsLoadTest
<1>2. Counted = [total |-> m + n, failed |-> L!Cardinality(A) + L!Cardinality(B),
                 passes |-> L!SumOf(checked, "passes"), fails |-> L!SumOf(checked, "fails")]
  BY DEF Counted, L!Measured
<1>3. A \in SUBSET (1..m) /\ B \in SUBSET (1..n) /\ Paid \in SUBSET (1..n)
  BY <1>1 DEF Paid
<1>4. \A i \in 1..n : /\ i \in Paid <=> answers[i] = "paid"
                      /\ checked[i]["passes"] = d[i] /\ d[i] \in Int
                      /\ checked[i]["fails"] = e[i] /\ e[i] \in Nat
  <2> SUFFICES ASSUME NEW i \in 1..n
               PROVE  /\ i \in Paid <=> answers[i] = "paid"
                      /\ checked[i]["passes"] = d[i] /\ d[i] \in Int
                      /\ checked[i]["fails"] = e[i] /\ e[i] \in Nat
    OBVIOUS
  <2>1. (i \in Paid <=> answers[i] = "paid") /\ checked[i] = L!checks(answers[i])
    BY <1>1 DEF Paid
  <2>2. CASE answers[i] = "paid"
    <3>1. L!checks(answers[i]) = [passes |-> 3, fails |-> 0]
      BY <2>2 DEF L!checks
    <3> QED
      BY <2>1, <2>2, <3>1
  <2>3. CASE answers[i] = "refused"
    <3>1. L!checks(answers[i]) = [passes |-> 0, fails |-> 3]
      BY <2>3 DEF L!checks
    <3> QED
      BY <2>1, <2>3, <3>1
  <2>4. CASE answers[i] = "garbled"
    <3>1. L!checks(answers[i]) = [passes |-> 0, fails |-> 1]
      BY <2>4 DEF L!checks
    <3> QED
      BY <2>1, <2>4, <3>1
  <2> QED
    BY <1>1, <2>2, <2>3, <2>4
<1>5. DOMAIN checked = 1..n /\ \A i \in 1..n : d[i] = IF i \in Paid THEN 3 ELSE 0
  BY <1>1
<1>6. /\ IsFiniteSet(1..m) /\ Cardinality(1..m) = m
      /\ IsFiniteSet(1..n) /\ Cardinality(1..n) = n
  BY <1>1, FS_Interval
<1> HIDE DEF A, B, checked, d, e, m, n, logins, answers
<1>7. /\ Cardinality(A) \in Nat /\ Cardinality(A) <= m
      /\ Cardinality(B) \in Nat /\ Cardinality(B) <= n
  BY <1>3, <1>6, FS_Subset, FS_CardinalityType
<1>8. Cardinality(Paid) \in Nat
  BY <1>3, <1>6, FS_Subset, FS_CardinalityType
<1>9. L!SumOf(checked, "passes") = 3 * Cardinality(Paid)
  <2>1. L!SumOf(checked, "passes") = SumFunctionOnSet(d, 1..n)
    BY <1>1, <1>4, <1>5, FieldsAddUp
  <2>2. SumFunctionOnSet(d, 1..n) = 3 * Cardinality((1..n) \cap Paid)
    BY <1>5, <1>6, SumOfThrees
  <2>3. (1..n) \cap Paid = Paid
    BY <1>3
  <2> QED
    BY <2>1, <2>2, <2>3
<1>10. L!SumOf(checked, "fails") = SumFunctionOnSet(e, 1..n)
       /\ SumFunctionOnSet(e, 1..n) \in Nat
  <2>1. \A i \in 1..n : checked[i]["fails"] = e[i] /\ e[i] \in Int
    BY <1>4
  <2>2. L!SumOf(checked, "fails") = SumFunctionOnSet(e, 1..n)
    BY <1>1, <1>5, <2>1, FieldsAddUp
  <2>3. \A i \in 1..n : e[i] \in Nat
    BY <1>4
  <2>4. SumFunctionOnSet(e, 1..n) \in Nat
    BY <1>6, <2>3, SumOfNaturals
  <2> QED
    BY <2>2, <2>4
<1>11. /\ Counted.total = m + n /\ Counted.failed = Cardinality(A) + Cardinality(B)
       /\ Counted.passes = 3 * Cardinality(Paid)
       /\ Counted.fails = SumFunctionOnSet(e, 1..n)
  BY <1>2, <1>9, <1>10, SameCounting
<1>12. answers = <<>> => Counted.passes = 0 /\ Counted.fails = 0
  <2> HAVE answers = <<>>
  <2>1. n = 0
    BY <1>1
  <2>2. 1..n = {}
    BY <2>1
  <2>3. SumFunctionOnSet(e, 1..n) = 0
    BY <2>2, SumEmpty
  <2>4. Cardinality(Paid) = 0
    <3>1. Paid = {}
      BY <1>3, <2>2
    <3> QED
      BY <3>1, FS_EmptySet
  <2> QED
    BY <1>11, <2>3, <2>4
<1>13. m + n \in Nat /\ m + n > 0 /\ m + n <= 50
  BY <1>1
<1>14. Cardinality(A) + Cardinality(B) \in 0..m + n
  BY <1>1, <1>7
<1>15. 3 * Cardinality(Paid) \in Nat
  BY <1>8
<1>16. m + n = Len(input.logins) + Len(input.answers)
  BY DEF m, n, logins, answers
<1> QED
  BY <1>10, <1>11, <1>12, <1>13, <1>14, <1>15, <1>16 DEF answers

\* The latency that is shown.
Latency == IF input.nested \/ input.expectedAvg = Unset THEN input.avg ELSE input.expectedAvg

LEMMA NamesAre ==
  /\ "http_reqs" \in Names /\ "http_req_failed" \in Names /\ "http_req_duration" \in Names
  /\ "checks" \in Names <=> input.answers # <<>>
  /\ Expected \in Names <=> input.expectedAvg # Unset
<1>1. Expected \notin {"http_reqs", "http_req_failed", "http_req_duration", "checks"}
  BY DEF Expected
<1> QED
  BY <1>1 DEF Names

LEMMA FieldsAre ==
  /\ Fields("http_reqs") = [count |-> Counted.total]
  /\ Fields("http_req_failed") = [rate |-> Rate, value |-> Rate]
  /\ Fields("http_req_duration") = [avg |-> input.avg, max |-> input.avg]
  /\ Fields("checks") = [passes |-> Counted.passes, fails |-> Counted.fails]
  /\ Fields(Expected) = [avg |-> input.expectedAvg, max |-> input.expectedAvg]
<1>1. Expected \notin {"http_reqs", "http_req_failed", "http_req_duration", "checks"}
  BY DEF Expected
<1>2. Fields("http_reqs") = [count |-> Counted.total]
  BY <1>1 DEF Fields
<1>3. Fields("http_req_failed") = [rate |-> Rate, value |-> Rate]
  BY <1>1 DEF Fields
<1>4. Fields("http_req_duration") = [avg |-> input.avg, max |-> input.avg]
  BY <1>1 DEF Fields
<1>5. Fields("checks") = [passes |-> Counted.passes, fails |-> Counted.fails]
  BY <1>1 DEF Fields
<1>6. Fields(Expected) = [avg |-> input.expectedAvg, max |-> input.expectedAvg]
  BY <1>1 DEF Fields
<1> QED
  BY <1>2, <1>3, <1>4, <1>5, <1>6

LEMMA RateIsNat == ASSUME IsLoadTest PROVE Rate \in Nat
<1>1. Counted.total \in Nat /\ Counted.total > 0 /\ Counted.failed \in Nat
  BY CountedFacts
<1> QED
  BY <1>1 DEF Rate

\* What is read from the fields of a metric.
LEMMA FieldsTell ==
  ASSUME IsLoadTest
  PROVE  /\ L!Field(Fields("http_reqs"), "count") = Counted.total
         /\ L!Field(Fields("http_req_failed"), "rate") = Rate
         /\ L!Field(Fields("http_req_failed"), "value") = Rate
         /\ L!Field(Fields("http_req_duration"), "avg") = input.avg
         /\ L!Field(Fields("http_req_duration"), "max") = input.avg
         /\ L!Field(Fields("checks"), "passes") = Counted.passes
         /\ L!Field(Fields("checks"), "fails") = Counted.fails
         /\ input.expectedAvg # Unset => /\ L!Field(Fields(Expected), "avg") = input.expectedAvg
                                         /\ L!Field(Fields(Expected), "max") = input.expectedAvg
         /\ \A name : L!Field(Unset, name) = 0
<1>1. /\ Counted.total \in Nat /\ Counted.passes \in Nat /\ Counted.fails \in Nat
      /\ Rate \in Nat /\ input.avg \in Nat /\ input.expectedAvg \in Nat \cup {Unset}
  BY CountedFacts, RateIsNat DEF IsLoadTest
<1>2. L!Field(Fields("http_reqs"), "count") = Counted.total
  <2> DEFINE f == Fields("http_reqs")
  <2>1. f = [count |-> Counted.total]
    BY FieldsAre
  <2>2. f # Unset
    BY <1>1, <2>1, UnsetIsApart
  <2> QED
    BY <2>1, <2>2 DEF L!Field
<1>3. /\ L!Field(Fields("http_req_failed"), "rate") = Rate
      /\ L!Field(Fields("http_req_failed"), "value") = Rate
  <2> DEFINE f == Fields("http_req_failed")
  <2>1. f = [rate |-> Rate, value |-> Rate]
    BY FieldsAre
  <2>2. f # Unset
    BY <1>1, <2>1, UnsetIsApart
  <2> QED
    BY <2>1, <2>2 DEF L!Field
<1>4. /\ L!Field(Fields("http_req_duration"), "avg") = input.avg
      /\ L!Field(Fields("http_req_duration"), "max") = input.avg
  <2> DEFINE f == Fields("http_req_duration")
  <2>1. f = [avg |-> input.avg, max |-> input.avg]
    BY FieldsAre
  <2>2. f # Unset
    BY <1>1, <2>1, UnsetIsApart
  <2> QED
    BY <2>1, <2>2 DEF L!Field
<1>5. /\ L!Field(Fields("checks"), "passes") = Counted.passes
      /\ L!Field(Fields("checks"), "fails") = Counted.fails
  <2> DEFINE f == Fields("checks")
  <2>1. f = [passes |-> Counted.passes, fails |-> Counted.fails]
    BY FieldsAre
  <2>2. f # Unset
    BY <1>1, <2>1, UnsetIsApart
  <2> QED
    BY <2>1, <2>2 DEF L!Field
<1>6. ASSUME input.expectedAvg # Unset
      PROVE  /\ L!Field(Fields(Expected), "avg") = input.expectedAvg
             /\ L!Field(Fields(Expected), "max") = input.expectedAvg
  <2> DEFINE f == Fields(Expected)
  <2>1. f = [avg |-> input.expectedAvg, max |-> input.expectedAvg]
    BY FieldsAre
  <2>2. f # Unset
    BY <1>1, <1>6, <2>1, UnsetIsApart
  <2> QED
    BY <2>1, <2>2 DEF L!Field
<1>7. \A name : L!Field(Unset, name) = 0
  BY DEF L!Field
<1> QED
  BY <1>2, <1>3, <1>4, <1>5, <1>6, <1>7

\* Where the fields of a metric stand in the summary.
LEMMA MetricsAre ==
  ASSUME IsLoadTest, NEW name
  PROVE  /\ L!HasMetric(Summary, name) <=> name \in Names
         /\ L!extractMetric(Summary, name) = IF name \in Names /\ input.nested
                                             THEN Fields(name) ELSE Unset
         /\ L!FlatMetric(Summary, name) = IF name \in Names /\ ~input.nested
                                          THEN Fields(name) ELSE Unset
<1>1. Summary.metrics = [x \in Names |-> Metric(Fields(x))]
  BY DEF Summary
<1>2. L!HasMetric(Summary, name) <=> name \in Names
  BY <1>1 DEF L!HasMetric
<1>3. input.nested \in BOOLEAN
  BY DEF IsLoadTest
<1>4. name \in Names => Summary.metrics[name] = Metric(Fields(name))
  BY <1>1
<1>5. /\ Metric(Fields(name)).values = IF input.nested THEN Fields(name) ELSE Unset
      /\ Metric(Fields(name)).flat = IF input.nested THEN Unset ELSE Fields(name)
  BY DEF Metric
<1>6. L!extractMetric(Summary, name) = IF name \in Names /\ input.nested
                                       THEN Fields(name) ELSE Unset
  BY <1>2, <1>4, <1>5 DEF L!extractMetric
<1>7. L!FlatMetric(Summary, name) = IF name \in Names /\ ~input.nested
                                    THEN Fields(name) ELSE Unset
  BY <1>2, <1>4, <1>5 DEF L!FlatMetric
<1> QED
  BY <1>2, <1>6, <1>7

\* Without a payment there is nothing to check.
LEMMA NoChecks ==
  ASSUME IsLoadTest, input.answers = <<>>
  PROVE  L!SumOf(Summary.rootChecks, "passes") = 0 /\ L!SumOf(Summary.rootChecks, "fails") = 0
<1> DEFINE n == 2
           d == [i \in 1..n |-> 0]
           seq == Summary.rootChecks
<1>1. Counted.passes = 0 /\ Counted.fails = 0
  BY CountedFacts
<1>2. seq = <<[passes |-> 0, fails |-> 0], [passes |-> 0, fails |-> 0]>>
  BY <1>1 DEF Summary
<1>3. n \in Nat /\ DOMAIN seq = 1..n
  BY <1>2
<1>4. \A i \in 1..n : d[i] = seq[i]["passes"] /\ d[i] = seq[i]["fails"] /\ d[i] = 0
  <2>1. \A i \in 1..n : i = 1 \/ i = 2
    OBVIOUS
  <2> QED
    BY <1>2, <2>1
<1> HIDE DEF d, seq, n
<1>5. SumFunctionOnSet(d, 1..n) = 0
  <2>1. IsFiniteSet(1..n)
    BY <1>3, FS_Interval
  <2> QED
    BY <1>4, <2>1, SumZero
<1>6. \A i \in 1..n : d[i] \in Int
  BY <1>4
<1>7. L!SumOf(seq, "passes") = SumFunctionOnSet(d, 1..n)
  BY <1>3, <1>4, <1>6, FieldsAddUp
<1>8. L!SumOf(seq, "fails") = SumFunctionOnSet(d, 1..n)
  BY <1>3, <1>4, <1>6, FieldsAddUp
<1> QED
  BY <1>5, <1>7, <1>8 DEF seq

Result == L!writeSimulationResult(Unset, [durationMs |-> Unset], Summary)
ShownMetrics == L!getEffectiveMetrics(Result)

\* The server reads the form with "values", and takes the numbers of the other for zeros.
LEMMA ServerReads ==
  ASSUME IsLoadTest
  PROVE  LET read == L!parseK6Summary(Summary)
             Or0(x) == IF input.nested THEN x ELSE 0
         IN  /\ read.totalRequests = Or0(Counted.total)
             /\ read.failureRate = Or0(Rate)
             /\ read.failedRequests = Or0(Counted.failed)
             /\ read.avgLatencyMs = Or0(input.avg)
             /\ read.maxLatencyMs = Or0(input.avg)
             /\ read.checksPassed = Or0(Counted.passes)
             /\ read.checksFailed = Or0(Counted.fails)
<1> DEFINE read == L!parseK6Summary(Summary)
           Got(name, field) == L!Field(L!extractMetric(Summary, name), field)
           Or0(x) == IF input.nested THEN x ELSE 0
<1>1. /\ read.totalRequests = Got("http_reqs", "count")
      /\ read.failureRate = Got("http_req_failed", "rate")
      /\ read.failedRequests = L!Rounded(Got("http_req_failed", "rate"), Got("http_reqs", "count"))
      /\ read.avgLatencyMs = Got("http_req_duration", "avg")
      /\ read.maxLatencyMs = Got("http_req_duration", "max")
      /\ read.checksPassed = Got("checks", "passes")
      /\ read.checksFailed = Got("checks", "fails")
  BY DEF L!parseK6Summary
<1>2. /\ Got("http_reqs", "count") = Or0(Counted.total)
      /\ Got("http_req_failed", "rate") = Or0(Rate)
      /\ Got("http_req_duration", "avg") = Or0(input.avg)
      /\ Got("http_req_duration", "max") = Or0(input.avg)
  BY NamesAre, MetricsAre, FieldsTell
<1>3. /\ Got("checks", "passes") = Or0(Counted.passes)
      /\ Got("checks", "fails") = Or0(Counted.fails)
  <2>1. CASE input.answers = <<>>
    <3>1. "checks" \notin Names
      BY <2>1, NamesAre
    <3>2. L!extractMetric(Summary, "checks") = Unset
      BY <3>1, MetricsAre
    <3> QED
      BY <2>1, <3>2, FieldsTell, CountedFacts
  <2>2. CASE input.answers # <<>>
    <3>1. "checks" \in Names
      BY <2>2, NamesAre
    <3> QED
      BY <3>1, MetricsAre, FieldsTell
  <2> QED
    BY <2>1, <2>2
<1> HIDE DEF Got, read
<1>4. L!Rounded(Or0(Rate), Or0(Counted.total)) = Or0(Counted.failed)
  <2>1. CASE input.nested
    <3>1. /\ Counted.total \in Nat /\ Counted.total > 0 /\ Counted.total <= 50
          /\ Counted.failed \in 0..Counted.total
      BY CountedFacts
    <3>2. L!Rounded(Rate, Counted.total) = Counted.failed
      BY <3>1, PercentTells DEF Rate
    <3> QED
      BY <2>1, <3>2
  <2>2. CASE ~input.nested
    <3>1. L!Rounded(0, 0) = 0
      BY DEF L!Rounded
    <3> QED
      BY <2>2, <3>1
  <2> QED
    BY <2>1, <2>2
<1> QED
  BY <1>1, <1>2, <1>3, <1>4 DEF read

\* The page shows what k6 has counted, from either form.
LEMMA PageShows ==
  ASSUME IsLoadTest
  PROVE  /\ ShownMetrics.totalRequests = Counted.total
         /\ ShownMetrics.failedRequests = Counted.failed
         /\ ShownMetrics.checksPassed = Counted.passes
         /\ ShownMetrics.checksFailed = Counted.fails
         /\ ShownMetrics.avgLatencyMs = Latency /\ ShownMetrics.maxLatencyMs = Latency
<1> DEFINE read == L!parseK6Summary(Summary)
           Flat(name, field) == L!Field(L!FlatMetric(Summary, name), field)
           counted == read.totalRequests > 0
           total == IF counted THEN read.totalRequests ELSE Flat("http_reqs", "count")
           rate == IF counted THEN read.failureRate ELSE Flat("http_req_failed", "value")
           source == IF L!HasMetric(Summary, Expected) THEN L!FlatMetric(Summary, Expected)
                     ELSE L!FlatMetric(Summary, "http_req_duration")
           Late(own, field) == IF read.avgLatencyMs > 0 THEN own ELSE L!Field(source, field)
           Checked(own, field) ==
             IF read.checksPassed # 0 \/ read.checksFailed # 0 THEN own
             ELSE IF L!HasMetric(Summary, "checks") THEN Flat("checks", field)
                  ELSE L!SumOf(Summary.rootChecks, field)
<1>1. Result.metrics = read /\ Result.k6 = Summary
  BY DEF Result, L!writeSimulationResult
<1>2. /\ ShownMetrics.totalRequests = total
      /\ ShownMetrics.failedRequests = IF counted THEN read.failedRequests
                                       ELSE L!Rounded(rate, total)
      /\ ShownMetrics.avgLatencyMs = Late(read.avgLatencyMs, "avg")
      /\ ShownMetrics.maxLatencyMs = Late(read.maxLatencyMs, "max")
      /\ ShownMetrics.checksPassed = Checked(read.checksPassed, "passes")
      /\ ShownMetrics.checksFailed = Checked(read.checksFailed, "fails")
  BY <1>1 DEF ShownMetrics, L!getEffectiveMetrics, Expected
<1>3. /\ Counted.total \in Nat /\ Counted.total > 0 /\ Counted.total <= 50
      /\ Counted.failed \in 0..Counted.total
      /\ Counted.passes \in Nat /\ Counted.fails \in Nat
      /\ input.answers = <<>> => Counted.passes = 0 /\ Counted.fails = 0
  BY CountedFacts
<1>4. input.avg \in Nat /\ input.expectedAvg \in Nat \cup {Unset} /\ input.nested \in BOOLEAN
  BY DEF IsLoadTest
<1>5. CASE input.nested
  <2>1. /\ read.totalRequests = Counted.total /\ read.failedRequests = Counted.failed
        /\ read.avgLatencyMs = input.avg /\ read.maxLatencyMs = input.avg
        /\ read.checksPassed = Counted.passes /\ read.checksFailed = Counted.fails
    BY <1>5, ServerReads
  <2>2. \A name : L!FlatMetric(Summary, name) = Unset
    BY <1>5, MetricsAre
  <2>3. \A name, field : Flat(name, field) = 0
    BY <2>2, FieldsTell
  <2>4. \A field : L!Field(source, field) = 0
    BY <2>2, FieldsTell
  <2>5. ~L!HasMetric(Summary, "checks") =>
          L!SumOf(Summary.rootChecks, "passes") = 0 /\ L!SumOf(Summary.rootChecks, "fails") = 0
    BY NoChecks, MetricsAre, NamesAre
  <2> HIDE DEF read, Flat, source
  <2>6. total = Counted.total /\ counted
    BY <1>3, <2>1
  <2>7. /\ Late(read.avgLatencyMs, "avg") = input.avg
        /\ Late(read.maxLatencyMs, "max") = input.avg
    BY <1>4, <2>1, <2>4
  <2>8. /\ Checked(read.checksPassed, "passes") = Counted.passes
        /\ Checked(read.checksFailed, "fails") = Counted.fails
    BY <1>3, <2>1, <2>3, <2>5
  <2>9. Latency = input.avg
    BY <1>5 DEF Latency
  <2> QED
    BY <1>2, <2>1, <2>6, <2>7, <2>8, <2>9
<1>6. CASE ~input.nested
  <2>1. /\ read.totalRequests = 0 /\ read.avgLatencyMs = 0
        /\ read.checksPassed = 0 /\ read.checksFailed = 0
    BY <1>6, ServerReads
  <2>2. \A name : L!FlatMetric(Summary, name) = IF name \in Names THEN Fields(name) ELSE Unset
    BY <1>6, MetricsAre
  <2>3. /\ Flat("http_reqs", "count") = Counted.total
        /\ Flat("http_req_failed", "value") = Rate
    BY <2>2, NamesAre, FieldsTell
  <2>4. L!Field(source, "avg") = Latency /\ L!Field(source, "max") = Latency
    <3>1. CASE input.expectedAvg = Unset
      <4>1. ~L!HasMetric(Summary, Expected)
        BY <3>1, NamesAre, MetricsAre
      <4>2. source = Fields("http_req_duration")
        BY <2>2, <4>1, NamesAre
      <4> QED
        BY <3>1, <4>2, FieldsTell DEF Latency
    <3>2. CASE input.expectedAvg # Unset
      <4>1. L!HasMetric(Summary, Expected)
        BY <3>2, NamesAre, MetricsAre
      <4>2. source = Fields(Expected)
        BY <2>2, <3>2, <4>1, NamesAre
      <4> QED
        BY <1>6, <3>2, <4>2, FieldsTell DEF Latency
    <3> QED
      BY <3>1, <3>2
  <2>5. /\ L!HasMetric(Summary, "checks") => /\ Flat("checks", "passes") = Counted.passes
                                             /\ Flat("checks", "fails") = Counted.fails
        /\ ~L!HasMetric(Summary, "checks") =>
              /\ L!SumOf(Summary.rootChecks, "passes") = Counted.passes
              /\ L!SumOf(Summary.rootChecks, "fails") = Counted.fails
    <3>1. CASE input.answers = <<>>
      <4>1. ~L!HasMetric(Summary, "checks")
        BY <3>1, NamesAre, MetricsAre
      <4> QED
        BY <1>3, <3>1, <4>1, NoChecks
    <3>2. CASE input.answers # <<>>
      <4>1. L!HasMetric(Summary, "checks") /\ "checks" \in Names
        BY <3>2, NamesAre, MetricsAre
      <4>2. L!FlatMetric(Summary, "checks") = Fields("checks")
        BY <2>2, <4>1
      <4> QED
        BY <4>1, <4>2, FieldsTell
    <3> QED
      BY <3>1, <3>2
  <2> HIDE DEF read, Flat, source
  <2>6. total = Counted.total /\ ~counted /\ rate = Rate
    BY <2>1, <2>3
  <2>7. L!Rounded(Rate, Counted.total) = Counted.failed
    BY <1>3, PercentTells DEF Rate
  <2>8. /\ Late(read.avgLatencyMs, "avg") = Latency /\ Late(read.maxLatencyMs, "max") = Latency
    BY <2>1, <2>4
  <2>9. /\ Checked(read.checksPassed, "passes") = Counted.passes
        /\ Checked(read.checksFailed, "fails") = Counted.fails
    BY <2>1, <2>5
  <2> QED
    BY <1>2, <2>6, <2>7, <2>8, <2>9
<1> QED
  BY <1>5, <1>6

\* The two bars of one latency.
LEMMA BarsFit ==
  ASSUME NEW x \in Nat
  PROVE  Range(L!LatencyChart(<<x, x>>)) \subseteq 3..100
<1> DEFINE bars == <<x, x>>
           largest == L!Max({bars[i] : i \in DOMAIN bars} \cup {1})
           height == IF x > 0 THEN L!Max({(x * 100) \div largest, 5}) ELSE 3
<1>1. DOMAIN bars = 1..2 /\ \A i \in 1..2 : bars[i] = x
  OBVIOUS
<1>2. L!LatencyChart(bars) = [i \in 1..2 |-> height]
  <2>1. L!LatencyChart(bars) = [i \in DOMAIN bars |->
            IF bars[i] > 0 THEN L!Max({(bars[i] * 100) \div largest, 5}) ELSE 3]
    BY DEF L!LatencyChart
  <2> HIDE DEF bars, largest
  <2> QED
    BY <1>1, <2>1
<1>3. height \in 3..100
  <2>1. CASE x = 0
    BY <2>1
  <2>2. CASE x > 0
    <3>1. {bars[i] : i \in DOMAIN bars} \cup {1} = {x, 1}
      <4>1. 1 \in 1..2
        OBVIOUS
      <4> QED
        BY <1>1, <4>1
    <3>2. L!Max({x, 1}) = x
      BY <2>2 DEF L!Max
    <3>3. largest = x
      BY <3>1, <3>2
    <3>4. (x * 100) \div x = 100
      BY <2>2
    <3>5. L!Max({100, 5}) = 100
      BY DEF L!Max
    <3>6. height = 100
      BY <2>2, <3>3, <3>4, <3>5
    <3> QED
      BY <3>6
  <2> QED
    BY <2>1, <2>2
<1> HIDE DEF height, bars
<1>4. \A v \in Range(L!LatencyChart(bars)) : v = height
  BY <1>2 DEF Range
<1> QED
  BY <1>3, <1>4 DEF bars

\* Of the runs with at most fifty requests, whatever their latency, the page shows the
\* numbers of k6.
LEMMA NumbersOfRun ==
  ASSUME IsLoadTest
  PROVE  LET health == L!RequestHealthChart(ShownMetrics.totalRequests, ShownMetrics.failedRequests)
             checked == L!ChecksChart(ShownMetrics.checksPassed, ShownMetrics.checksFailed)
         IN  /\ L!formatNumber(ShownMetrics.totalRequests)
                    = Len(input.logins) + Len(input.answers)
             /\ L!formatNumber(ShownMetrics.failedRequests) = Counted.failed
             /\ L!formatNumber(ShownMetrics.checksPassed) = 3 * Cardinality(Paid)
             /\ L!formatNumber(ShownMetrics.checksFailed) = Counted.fails
             /\ L!formatLatency(ShownMetrics.avgLatencyMs) = IF Latency = 0 THEN "-" ELSE Latency
             /\ health.successful + health.failed \in 99..100
             /\ checked.passed + checked.failed \in (IF Counted.passes + Counted.fails = 0
                                                     THEN {0} ELSE 99..100)
             /\ Range(L!LatencyChart(<<ShownMetrics.avgLatencyMs, ShownMetrics.maxLatencyMs>>))
                    \subseteq 3..100
<1> DEFINE total == Counted.total
           failed == Counted.failed
           passes == Counted.passes
           fails == Counted.fails
<1>1. /\ total = Len(input.logins) + Len(input.answers)
      /\ total \in Nat /\ total > 0 /\ failed \in 0..total
      /\ passes = 3 * Cardinality(Paid)
      /\ passes \in Nat /\ fails \in Nat
  BY CountedFacts
<1>2. /\ ShownMetrics.totalRequests = total /\ ShownMetrics.failedRequests = failed
      /\ ShownMetrics.checksPassed = passes /\ ShownMetrics.checksFailed = fails
      /\ ShownMetrics.avgLatencyMs = Latency /\ ShownMetrics.maxLatencyMs = Latency
  BY PageShows
<1>3. Latency \in Nat
  BY DEF Latency, IsLoadTest
<1> HIDE DEF total, failed, passes, fails
<1>4. \A v \in Nat : L!formatNumber(v) = v
  BY UnsetIsApart DEF L!formatNumber
<1>5. L!formatLatency(Latency) = IF Latency = 0 THEN "-" ELSE Latency
  BY <1>3, UnsetIsApart DEF L!formatLatency
<1>6. /\ L!RequestHealthChart(total, failed).successful + L!RequestHealthChart(total, failed).failed
           \in 99..100
  <2> DEFINE good == total - failed
  <2>1. good \in Nat /\ failed \in Nat /\ good + failed = total /\ good + failed > 0
    <3>1. \A a \in Nat : \A b \in 0..a : a - b \in Nat /\ b \in Nat /\ (a - b) + b = a
      OBVIOUS
    <3>2. good \in Nat /\ failed \in Nat /\ good + failed = total
      BY <1>1, <3>1
    <3> QED
      BY <1>1, <3>2
  <2> HIDE DEF good
  <2>2. L!Share(good, good + failed) + L!Share(failed, good + failed) \in 99..100
    BY <2>1, SharesAddUp
  <2>3. L!Max({good, 0}) = good
    BY <2>1 DEF L!Max
  <2>4. L!RequestHealthChart(total, failed) = [successful |-> L!Share(good, total),
                                               failed |-> L!Share(failed, total)]
    BY <2>3 DEF L!RequestHealthChart, good
  <2> QED
    BY <2>1, <2>2, <2>4
<1>7. L!ChecksChart(passes, fails).passed + L!ChecksChart(passes, fails).failed
        \in (IF passes + fails = 0 THEN {0} ELSE 99..100)
  <2>1. /\ L!ChecksChart(passes, fails).passed = L!Share(passes, passes + fails)
        /\ L!ChecksChart(passes, fails).failed = L!Share(fails, passes + fails)
    BY DEF L!ChecksChart
  <2>2. CASE passes + fails = 0
    <3>1. L!Share(passes, passes + fails) = 0 /\ L!Share(fails, passes + fails) = 0
      BY <2>2 DEF L!Share
    <3> QED
      BY <2>1, <2>2, <3>1
  <2>3. CASE passes + fails # 0
    <3>1. passes + fails > 0
      BY <1>1, <2>3
    <3>2. L!Share(passes, passes + fails) + L!Share(fails, passes + fails) \in 99..100
      BY <1>1, <3>1, SharesAddUp
    <3> QED
      BY <2>1, <2>3, <3>2
  <2> QED
    BY <2>2, <2>3
<1>8. Range(L!LatencyChart(<<Latency, Latency>>)) \subseteq 3..100
  BY <1>3, BarsFit
<1>9. failed \in Nat
  BY <1>1
<1>10. /\ L!formatNumber(total) = Len(input.logins) + Len(input.answers)
       /\ L!formatNumber(failed) = failed /\ L!formatNumber(fails) = fails
       /\ L!formatNumber(passes) = 3 * Cardinality(Paid)
  BY <1>1, <1>4, <1>9
<1> QED
  BY <1>2, <1>5, <1>6, <1>7, <1>8, <1>10 DEF failed, passes, fails

LEMMA RunsAreRuns ==
  ASSUME InputKept, IsInput("summary")
  PROVE  IsLoadTest
<1>1. input \in K6Runs
  <2>1. input \in Requests \cup Forms \cup K6Runs /\ input.kind = "summary"
    BY DEF InputKept, IsInput
  <2>2. \A f \in Forms : f.kind = "form"
    BY DEF Forms
  <2>3. \A r \in Requests : r.kind = "load"
    BY DEF Requests
  <2> QED
    BY <2>1, <2>2, <2>3
<1>2. /\ input.nested \in BOOLEAN /\ input.logins \in [1..3 -> {Unset, "a", "b"}]
      /\ input.answers \in UNION {[1..n -> {"paid", "refused", "garbled"}] : n \in 0..3}
      /\ input.avg \in 0..1 /\ input.expectedAvg \in {Unset, 0, 1}
  BY <1>1 DEF K6Runs
<1>3. PICK n \in 0..3 : input.answers \in [1..n -> {"paid", "refused", "garbled"}]
  BY <1>2
<1> DEFINE answers == input.answers
           logins == input.logins
<1>4. n \in Nat /\ DOMAIN answers = 1..n /\ DOMAIN logins = 1..3
  BY <1>2, <1>3
<1>5. \A i \in 1..n : answers[i] \in {"paid", "refused", "garbled"}
  BY <1>3
<1>6. Len(answers) = n /\ Len(logins) = 3
  BY <1>2, <1>3
<1>7. n = 0 <=> answers = <<>>
  <2>1. CASE n = 0
    <3>1. answers \in [1..0 -> {"paid", "refused", "garbled"}]
      BY <1>3, <2>1
    <3>2. answers = <<>>
      BY <3>1
    <3> QED
      BY <2>1, <3>2
  <2>2. CASE n # 0
    <3>1. 1 \in DOMAIN answers
      BY <1>4, <2>2
    <3> QED
      BY <2>2, <3>1
  <2> QED
    BY <2>1, <2>2
<1>8. 3 + n <= 50 /\ 3 > 0
  OBVIOUS
<1> HIDE DEF answers, logins
<1>9. /\ Len(logins) \in Nat /\ DOMAIN logins = 1..Len(logins)
      /\ Len(answers) \in Nat /\ DOMAIN answers = 1..Len(answers)
      /\ Len(answers) = 0 <=> answers = <<>>
      /\ \A i \in 1..Len(answers) : answers[i] \in {"paid", "refused", "garbled"}
      /\ Len(logins) > 0 /\ Len(logins) + Len(answers) <= 50
  BY <1>4, <1>5, <1>6, <1>7, <1>8
<1>10. input.avg \in Nat /\ input.expectedAvg \in Nat \cup {Unset} /\ input.nested \in BOOLEAN
  BY <1>2
<1> QED
  BY <1>9, <1>10 DEF IsLoadTest, answers, logins

LEMMA NumbersHold == InputKept => ResultsPageShowsK6Numbers
<1> SUFFICES ASSUME InputKept, IsInput("summary")
             PROVE  ResultsPageShowsK6Numbers
  BY DEF ResultsPageShowsK6Numbers
<1>1. IsLoadTest
  BY RunsAreRuns
<1> QED
  BY <1>1, NumbersOfRun DEF ResultsPageShowsK6Numbers, ShownMetrics, Result, Latency, Paid

\* The results page shows what k6 has measured, in either form of the summary: for the
\* runs that are enumerated, and (NumbersOfRun) for all of up to fifty requests.
THEOREM NumbersAreShown == CheckSpec => []ResultsPageShowsK6Numbers
BY InputsInvariant, NumbersHold, PTL
=============================================================================
