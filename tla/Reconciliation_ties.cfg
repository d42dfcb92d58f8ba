\* One payment to oneself, its two entries written in one millisecond or in two.
SPECIFICATION Spec
SYMMETRY Symmetry
CONSTANTS
    Accounts = {a}
    Txns = {x}
    Jobs = {"ACCOUNT_SANITY"}
    Workers = {w1}
    Runs = {r1}
    MaxTime = 2
    MaxFaults = 0
    None = None
INVARIANTS
    ActualLatestIsFound
