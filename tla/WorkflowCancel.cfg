SPECIFICATION Spec
CONSTANTS
    Workers = {w1, w2}
    w1 = w1
    w2 = w2
    NumSteps = 3
    AgentRun = TRUE
    Risky = {2}
    DeviceSteps = {}
    Faulty = {1}
    MaxSteps = 2
    MaxAttempts = 2
    Hands = {h1}
    h1 = h1
    Ops = {"approve", "cancel", "cancelAgent", "retry", "continue", "retryStep", "approveRun"}
    MaxOps = 2
    Faults = {}
    MaxFaults = 0
    Resumers = {}
SYMMETRY Symmetry
INVARIANTS
    OneExecution
    DeadIsQuiet
PROPERTIES
    KeepsPromise
\* A run that has settled, or waits for a human or a device, may stay so.
CHECK_DEADLOCK FALSE
