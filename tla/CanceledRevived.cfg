SPECIFICATION Spec
CONSTANTS
    Workers = {w1, w2}
    w1 = w1
    w2 = w2
    NumSteps = 1
    AgentRun = FALSE
    Risky = {}
    DeviceSteps = {}
    Faulty = {}
    MaxSteps = 1
    MaxAttempts = 2
    Hands = {}
    Ops = {"cancel"}
    MaxOps = 1
    Faults = {}
    MaxFaults = 0
    Resumers = {"api", "ticker"}
SYMMETRY Symmetry
PROPERTIES
    CanceledIsFinal
\* A run that has settled, or waits for a human or a device, may stay so.
CHECK_DEADLOCK FALSE
