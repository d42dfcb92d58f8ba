\* Two runs of one of the three jobs, on two slots of the worker, one of them failing,
\* while a payment is posted; or one run and two payments that race for the accounts.
SPECIFICATION Spec
SYMMETRY Symmetry
CONSTRAINT Narrow
CONSTANTS
    Accounts = {a, b}
    Txns = {x, y}
    Jobs = {"LEDGER_CONSISTENCY", "ORPHAN_DETECTOR", "ACCOUNT_SANITY"}
    Workers = {w1, w2}
    Runs = {r1, r2}
    MaxTime = 4
    MaxFaults = 1
    None = None
INVARIANTS
    TypeOK
    NothingElseIsSkipped
    OnlyTiesAreReported
    LastPostedIsLatest
