------------------------------- MODULE Journal -------------------------------
(***************************************************************************)
(* The pure part of the ledger: how a payment becomes a journal            *)
(* (buildJournalEntries), how a refund is derived from the entries of the  *)
(* payment it undoes (executeReversalTransaction), and what postJournal    *)
(* checks and computes before it writes (validateJournal,                  *)
(* validateBalances, prepareLedgerEntries).  Amounts are BigInt columns    *)
(* and JavaScript bigints: they do not overflow.                           *)
(***************************************************************************)
EXTENDS Integers, Sequences, FiniteSets, Functions

CONSTANTS
    Wallets,         \* accounts of type USER_WALLET
    SystemAccounts,  \* accounts of type SYSTEM
    FeeRevenue,      \* SYSTEM_ACCOUNTS.FEE_REVENUE
    Treasury         \* SYSTEM_ACCOUNTS.TREASURY

ASSUME AccountTypes ==
    /\ Wallets \cap SystemAccounts = {}
    /\ {FeeRevenue, Treasury} \subseteq SystemAccounts

Accounts == Wallets \cup SystemAccounts

EntryType == {"DEBIT", "CREDIT"}
Entry == [account : Accounts, type : EntryType, amount : Int]

-----------------------------------------------------------------------------
(* Building a journal.                                                     *)

AddEntry_Zero(es, a, type, amount) ==           \* mutant: zero amounts kept
    Append(es, [account |-> a, type |-> type, amount |-> amount])
AddEntry(es, a, type, amount) ==
    IF amount <= 0 THEN es
    ELSE Append(es, [account |-> a, type |-> type, amount |-> amount])

\* The payer bears the fee and the tax on top of the amount.
BuildJournalEntries(from, to, amount, fee, tax) ==
    LET paid     == AddEntry(<<>>, from, "DEBIT", amount + fee + tax)
        received == AddEntry(paid, to, "CREDIT", amount)
        charged  == AddEntry(received, FeeRevenue, "CREDIT", fee)
    IN  AddEntry(charged, Treasury, "CREDIT", tax)

\* Positions of the debits, of the credits and of the wallets' entries of a journal.
Debits(es)    == {i \in DOMAIN es : es[i].type = "DEBIT"}
Credits(es)   == {i \in DOMAIN es : es[i].type = "CREDIT"}
OnWallets(es) == {i \in DOMAIN es : es[i].account \in Wallets}

\* The sum of the amounts at the positions I, and the positions I in order.
TotalOf(es, I) == SumFunctionOnSet([i \in DOMAIN es |-> es[i].amount], I)
InOrder(I) == CHOOSE s \in [1..Cardinality(I) -> I] :
                \A i, j \in DOMAIN s : i < j => s[i] < s[j]

\* The wallets' entries of the original: who paid, and who received.
PaidBy(es)     == Debits(es) \cap OnWallets(es)
ReceivedBy(es) == Credits(es) \cap OnWallets(es)

\* What a refund demands of the entries and the amount of the original.
Refundable(es, amount) ==
    /\ Cardinality(OnWallets(es)) >= 2
    /\ PaidBy(es) # {}
    /\ ReceivedBy(es) # {}
    /\ TotalOf(es, ReceivedBy(es)) = amount

\* Every recipient gives back what it received, the first payer gets the total;
\* fee and tax are not refunded.
RefundEntries_Full(es) ==       \* mutant: the payer gets back what it paid
    LET received == InOrder(ReceivedBy(es))
        payer    == CHOOSE i \in PaidBy(es) : \A j \in PaidBy(es) : i <= j
    IN  Append([n \in DOMAIN received |-> [es[received[n]] EXCEPT !.type = "DEBIT"]],
               [es[payer] EXCEPT !.type = "CREDIT"])
RefundEntries(es) ==
    LET received == InOrder(ReceivedBy(es))
        payer    == CHOOSE i \in PaidBy(es) : \A j \in PaidBy(es) : i <= j
    IN  Append([n \in DOMAIN received |-> [account |-> es[received[n]].account, type |-> "DEBIT",
                                           amount |-> es[received[n]].amount]],
               [account |-> es[payer].account, type |-> "CREDIT",
                amount |-> TotalOf(es, ReceivedBy(es))])

-----------------------------------------------------------------------------
(* Posting a journal.                                                      *)

ValidateJournal_Unbalanced(es) ==               \* mutant: no check of the totals
    /\ \A i \in DOMAIN es : es[i].amount > 0
    /\ Debits(es) # {} /\ Credits(es) # {}
ValidateJournal(es) ==
    /\ \A i \in DOMAIN es : es[i].amount > 0
    /\ Debits(es) # {}
    /\ Credits(es) # {}
    /\ TotalOf(es, Debits(es)) = TotalOf(es, Credits(es))

AccountsOf(es) == {es[i].account : i \in DOMAIN es}

\* Each debit of a wallet is compared with the balance before the journal, not
\* with what earlier entries of the journal have left of it.
SufficientBalances_Credits(es, balance) ==      \* mutant: the other side is checked
    \A i \in DOMAIN es :
        (es[i].type = "CREDIT" /\ es[i].account \in Wallets)
            => balance[es[i].account] >= es[i].amount
SufficientBalances(es, balance) ==
    \A i \in DOMAIN es :
        (es[i].type = "DEBIT" /\ es[i].account \in Wallets)
            => balance[es[i].account] >= es[i].amount

Signed(e) == IF e.type = "DEBIT" THEN - e.amount ELSE e.amount

\* The loop of prepareLedgerEntries: the balances in memory once i entries are
\* through.
BalancesAfter_Stale(es, balance) ==             \* mutant: the balance in memory is not updated
    [i \in 0..Len(es) |->
        IF i = 0 THEN balance
        ELSE [balance EXCEPT ![es[i].account] = @ + Signed(es[i])]]
BalancesAfter(es, balance) ==
    LET after[i \in 0..Len(es)] ==
          IF i = 0 THEN balance
          ELSE [after[i - 1] EXCEPT ![es[i].account] = @ + Signed(es[i])]
    IN  after

\* Each entry is stamped with the balance it leaves behind.
PrepareLedgerEntries(es, balance) ==
    [entries |-> [i \in DOMAIN es |->
                    [account |-> es[i].account, type |-> es[i].type, amount |-> es[i].amount,
                     balanceAfter |-> BalancesAfter(es, balance)[i][es[i].account]]],
     balance |-> BalancesAfter(es, balance)[Len(es)]]

\* What the first n entries of a journal move on account a.
Net(es, a, n) ==
    SumFunctionOnSet([i \in DOMAIN es |-> Signed(es[i])], {i \in 1..n : es[i].account = a})
=============================================================================
