SPECIFICATION Spec
CONSTANTS
    Workers = {w1, w2}
    w1 = w1
    w2 = w2
    Hands = {h1}
    h1 = h1
    NumSteps = 2
    AgentRun = TRUE
    Risky = {2}
    DeviceSteps = {}
    Faulty = {}
    MaxSteps = 2
    MaxAttempts = 2
    Ops = {"continue"}
    MaxOps = 1
    Faults = {}
    MaxFaults = 0
    Resumers = {"api", "ticker"}
SYMMETRY Symmetry
INVARIANTS
    ApprovedFirst
CHECK_DEADLOCK FALSE
