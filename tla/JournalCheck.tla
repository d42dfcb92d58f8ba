---------------------------- MODULE JournalCheck ----------------------------
(***************************************************************************)
(* Journal checked against reference definitions: every payment between    *)
(* any two accounts, with every amount, fee, tax and opening balance up to *)
(* a bound, is built, validated, posted and refunded.                      *)
(***************************************************************************)
EXTENDS Journal

CONSTANTS
    MaxAmount,   \* amounts are 1..MaxAmount (validatePaymentRequest)
    MaxCharge,   \* fee and tax are -MaxCharge..MaxCharge: only their sum with
                 \* the amount is ever checked
    MaxBalance   \* wallets hold 0..MaxBalance before the payment

ASSUME BoundsOK == MaxAmount \in Nat /\ MaxCharge \in Nat /\ MaxBalance \in Nat

VARIABLES from, to, amount, fee, tax, held

vars == <<from, to, amount, fee, tax, held>>

Init ==
    /\ from \in Accounts /\ to \in Accounts
    /\ amount \in 1..MaxAmount
    /\ fee \in -MaxCharge..MaxCharge /\ tax \in -MaxCharge..MaxCharge
    /\ held \in 0..MaxBalance

Next == UNCHANGED vars

Spec == Init /\ [][Next]_vars

Payment == BuildJournalEntries(from, to, amount, fee, tax)
Balance == [a \in Accounts |-> IF a \in Wallets THEN held ELSE 0]
Posted  == PrepareLedgerEntries(Payment, Balance)

-----------------------------------------------------------------------------
\* buildJournalEntries hands postJournal a journal it accepts exactly when
\* neither charge is negative; no combination of charges slips through.
BuiltJournalsBalance == ValidateJournal(Payment) <=> (fee >= 0 /\ tax >= 0)

\* Every entry is stamped with the balance it leaves behind, also when one
\* account occurs twice (a transfer to oneself, a payment to the fee account).
StampsAreRunningBalances ==
    /\ Len(Posted.entries) = Len(Payment)
    /\ \A i \in DOMAIN Payment :
         LET a == Payment[i].account IN
         Posted.entries[i].balanceAfter = Balance[a] + Net(Payment, a, i)
    /\ \A a \in Accounts : Posted.balance[a] = Balance[a] + Net(Payment, a, Len(Payment))

\* The check of single debits is enough for the journals payments make: no
\* wallet is overdrawn, not even between two entries of a journal.
DebitCheckSuffices ==
    (ValidateJournal(Payment) /\ SufficientBalances(Payment, Balance)) =>
        \A i \in DOMAIN Payment :
            Payment[i].account \in Wallets => Posted.entries[i].balanceAfter >= 0

\* A posted payment can be refunded exactly when it went from wallet to wallet,
\* and the refund puts every balance back but for the fee and the tax.
RefundUndoesPayment ==
    ValidateJournal(Payment) =>
        /\ Refundable(Payment, amount) <=> {from, to} \subseteq Wallets
        /\ Refundable(Payment, amount) =>
             LET refunded == PrepareLedgerEntries(RefundEntries(Payment), Posted.balance).balance
             IN  \A a \in Accounts :
                   refunded[a] = Balance[a] - (IF a = from THEN fee + tax ELSE 0)
                                            + (IF a = FeeRevenue THEN fee ELSE 0)
                                            + (IF a = Treasury THEN tax ELSE 0)
=============================================================================
