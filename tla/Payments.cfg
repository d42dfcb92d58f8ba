\* Three attempts on one key, two sweepers; every behaviour is one of
\* IdempotentPayment, and every payment is settled.
SPECIFICATION FairSpec
CONSTANTS
    a1 = a1
    a2 = a2
    a3 = a3
    t1 = t1
    t2 = t2
    h1 = h1
    u1 = u1
    Keys = {k1}
    Attempts = {a1, a2, a3}
    Txns = {t1, t2}
    Hashed = {h1, h2}
    Unhashed = {u1, u2}
    Sweepers = {s1, s2}
    MaxFaults = 1
    None = None
CONSTRAINT Canonical
INVARIANTS
    TypeOK
    OneTransferPerKey
    RecordsAgree
    KeyMatchesTransaction
    RepliesTruthful
    AnswersOneHash
PROPERTIES
    FinalStaysFinal
    KeepsPromise
    PendingIsSettled
