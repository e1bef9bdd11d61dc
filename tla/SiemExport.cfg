SPECIFICATION Spec
CONSTANTS
    Exporters = {x1, x2}
    x1 = x1
    x2 = x2
    BatchSize = 2
    MaxAttempts = 2
    Times = {2, 3, 4}
    MaxEvents = 2
    MaxDeliveries = 2
    MaxIncidents = 1
SYMMETRY Symmetry
INVARIANTS
    NotLost
    OnlyLateSkipped
CHECK_DEADLOCK FALSE
