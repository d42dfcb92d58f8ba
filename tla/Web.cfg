\* One visit to any of the pages: two things done by the user, two requests in flight
\* (four where a click sends two), one change of the database; or two people who
\* register for two wallets, pay twice between them and leave pages meanwhile.
SPECIFICATION Spec
CONSTANTS
    Unset = Unset
    SystemType <- ConstSystemType
    Owner <- ConstOwner
    Created <- ConstCreated
    Tables <- ConstTables
    Mine = "w2"
    Anomalies <- ConstAnomalies
    Limit = 1
    Entered = {Unset, "t1", "ann", "SUCCESS", "REFUND", "PAYMENT_SUCCEEDED", "COMPLETED", "DEBIT", "CREDIT", "LEDGER_CONSISTENCY", "ACTIVE"}
    MaxTime = 1
    MaxCalls = 2
    MaxMoves = 2
    People = {"ann", "bob"}
    Wallets = {"w1", "w2"}
    MaxPays = 2
INVARIANTS
    SettledPageShowsItsFilters
    ShownStatusIsFresh
    DetailsTellTheAnomalies
    RegisteredKeepsAccount
    EverySuccessIsAPayment
CHECK_DEADLOCK FALSE
