\* Two runs of a job, one after the other.
SPECIFICATION Spec
SYMMETRY Symmetry
CONSTANTS
    Accounts = {a}
    Txns = {x}
    Jobs = {"LEDGER_CONSISTENCY"}
    Workers = {w1}
    Runs = {r1, r2}
    MaxTime = 4
    MaxFaults = 0
    None = None
INVARIANTS
    NoWindowIsSkipped
