\* Requests that differ outside the hash, against the error message of
\* verifyRequestHash.
SPECIFICATION Spec
CONSTANTS
    a1 = a1
    a2 = a2
    a3 = a3
    t1 = t1
    t2 = t2
    h1 = h1
    u1 = u1
    Keys = {k1}
    Attempts = {a1, a2}
    Txns = {t1, t2}
    Hashed = {h1}
    Unhashed = {u1, u2}
    Sweepers = {s1}
    MaxFaults = 0
    None = None
INVARIANTS
    AnswersOnePayload
