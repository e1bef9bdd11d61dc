SPECIFICATION FairSpec
CONSTANTS
    Requests = {q1, q2}
    Dispatchers = {d1, d2}
    q1 = q1
    q2 = q2
    d1 = d1
    d2 = d2
    MaxTime = 1
    MaxFaults = 2
INVARIANTS
    Verifies
PROPERTIES
    OutboxLands
    KeepsLedger
CHECK_DEADLOCK FALSE
