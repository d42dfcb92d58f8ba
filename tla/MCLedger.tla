------------------------------ MODULE MCLedger ------------------------------
(***************************************************************************)
(* Instances of Ledger.  Account ids are numbers, in the order of the      *)
(* locks: the deposit account 1, the wallets 2 and 4, and the account that *)
(* collects fee and tax in between.                                        *)
(***************************************************************************)
EXTENDS Ledger, TLC

CONSTANTS t1, t2, t3

\* Deposits before the start have left 3 in wallet 2 and 1 in wallet 4.
ConstOpening == [a \in {1, 2, 3, 4, 5} |-> CASE a = 1 -> -4 [] a = 2 -> 3 [] a = 4 -> 1
                                             [] OTHER -> 0]

Pay(type, from, to, amount, fee, tax) ==
    [type |-> type, from |-> from, to |-> to, amount |-> amount, fee |-> fee, tax |-> tax,
     of |-> None, locking |-> "PESSIMISTIC"]

RefundOf(o) == [Pay("REVERSAL", 2, None, 0, 0, 0) EXCEPT !.of = o]

\* Transfers both ways and to oneself, with charges, a negative fee, a deposit,
\* a withdrawal, and the locking strategy that is not implemented.
MoneyRequests ==
    {Pay("TRANSFER", 2, 4, 1, 1, 1), Pay("TRANSFER", 2, 4, 2, -1, 0),
     Pay("TRANSFER", 4, 2, 1, 0, 0), Pay("TRANSFER", 2, 2, 2, 1, 0),
     Pay("DEPOSIT", 4, 4, 1, 0, 0), Pay("WITHDRAWAL", 2, 2, 2, 0, 0),
     [Pay("TRANSFER", 4, 2, 1, 0, 0) EXCEPT !.locking = "OPTIMISTIC"]}

\* Transfers both ways, and refunds of them, of a deposit and of a refund.
RefundRequests ==
    {Pay("TRANSFER", 2, 4, 1, 1, 0), Pay("TRANSFER", 4, 2, 1, 0, 0),
     Pay("DEPOSIT", 4, 4, 1, 0, 0), RefundOf(t1), RefundOf(t2)}

AnyRequests == MoneyRequests \cup RefundRequests

Calls(R) == \A x \in Txns : req[x] \in R \cup {None}
NoAdministrator == /\ \A m \in Admins : adm[m] = Idle
                   /\ \A a \in Accounts : acct[a].status = "ACTIVE"

\* Constraint: three payments race, or two of them with an administrator, or
\* payments with refunds.  Only starts and administrators leave it.
Narrow ==
    \/ Calls(MoneyRequests) /\ (NoAdministrator \/ \E x \in Txns : pc[x] = "idle")
    \/ Calls(RefundRequests) /\ NoAdministrator

\* Payments that touch the accounts an administrator changes.
StatusRequests == {Pay("TRANSFER", 2, 4, 3, 0, 0), Pay("DEPOSIT", 2, 2, 1, 0, 0)}
=============================================================================
