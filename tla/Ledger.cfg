\* Three payments of every kind race for two wallets, two of them while an
\* administrator changes the status of the wallets, or payments with refunds of
\* them, of refunds and of deposits; all are settled.
SPECIFICATION FairSpec
CONSTANTS
    t1 = t1
    t2 = t2
    t3 = t3
    Wallets = {2, 4}
    SystemAccounts = {1, 3, 5}
    FeeRevenue = 3
    Treasury = 3
    Deposit = 1
    Withdrawal = 5
    Txns = {t1, t2, t3}
    Requests <- AnyRequests
    Admins = {m1}
    Managed = {2, 4}
    Opening <- ConstOpening
    None = None
CONSTRAINT Narrow
INVARIANTS
    TypeOK
    BalancesMatchLedger
    MoneyConserved
    WalletsNeverOverdrawn
    NoLockCycle
    RefundedAtMostOnce
PROPERTIES
    PostsOnlyOnActive
    StartedIsSettled
