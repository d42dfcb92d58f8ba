\* The checks of the controllers of accounts against a payment and each other.
SPECIFICATION Spec
CONSTANTS
    t1 = t1
    t2 = t2
    t3 = t3
    Wallets = {2, 4}
    SystemAccounts = {1, 3, 5}
    FeeRevenue = 3
    Treasury = 3
    Deposit = 1
    Withdrawal = 5
    Txns = {t1, t2}
    Requests <- StatusRequests
    Admins = {m1, m2}
    Managed = {2, 4}
    Opening <- ConstOpening
    None = None
PROPERTIES
    ClosureIsRespected
