SPECIFICATION FairSpec
CONSTANTS
    Workers = {w1, w2}
    w1 = w1
    w2 = w2
    NumSteps = 1
    AgentRun = FALSE
    Risky = {}
    DeviceSteps = {1}
    Faulty = {1}
    MaxSteps = 1
    MaxAttempts = 2
    Hands = {}
    Ops = {"retry", "cancelDead"}
    MaxOps = 1
    Faults = {"crash"}
    MaxFaults = 1
    Resumers = {"api", "ticker"}
INVARIANTS
    NotStranded
    DeviceRepeatsBounded
PROPERTIES
    KeepsPromise
    Settles
    DeviceResumed
\* A run that has settled, or waits for a human or a device, may stay so.
CHECK_DEADLOCK FALSE
