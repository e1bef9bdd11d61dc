SPECIFICATION Spec
CONSTANTS
    Requests = {q1, q2}
    NumOps = 2
    Records = {r1}
    Clients = {c1}
    q1 = q1
    q2 = q2
    r1 = r1
    c1 = c1
    Target <- OneRecord
    ClientOf <- OneClient
    MaxBase = 2
    MaxPushes = 2
    MaxFaults = 1
    MaxEdits = 1
    MaxLooks = 1
    NoBase = NoBase
SYMMETRY Symmetry
INVARIANTS
    TypeOK
    BasedOnce
    AcceptedIsApplied
    WatermarkCovers
    StaleHasTicket
CHECK_DEADLOCK FALSE
