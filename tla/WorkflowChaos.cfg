SPECIFICATION Spec
CONSTANTS
    Workers = {w1, w2}
    w1 = w1
    w2 = w2
    NumSteps = 2
    AgentRun = TRUE
    Risky = {2}
    DeviceSteps = {}
    Faulty = {1}
    MaxSteps = 2
    MaxAttempts = 2
    Hands = {h1}
    h1 = h1
    Ops = {"approve", "retry", "approveRun"}
    MaxOps = 2
    Faults = {"stall", "crash", "query", "rollback", "apiCrash"}
    MaxFaults = 1
    Resumers = {}
SYMMETRY Symmetry
INVARIANTS
    ApprovalGate
    RepeatsBounded
\* A run that has settled, or waits for a human or a device, may stay so.
CHECK_DEADLOCK FALSE
