SPECIFICATION FairSpec
CONSTANTS
    Workers = {w1, w2}
    w1 = w1
    w2 = w2
    NumSteps = 1
    AgentRun = FALSE
    Risky = {}
    DeviceSteps = {}
    Faulty = {1}
    MaxSteps = 1
    MaxAttempts = 2
    Hands = {h1}
    h1 = h1
    Ops = {"retry", "cancelDead", "retryRun"}
    MaxOps = 1
    Faults = {"crash"}
    MaxFaults = 2
    Resumers = {"api", "ticker"}
INVARIANTS
    NotStranded
    JobAgrees
    SucceededMeansDone
    DeadIsQuiet
PROPERTIES
    Settles
\* A run that has settled, or waits for a human or a device, may stay so.
CHECK_DEADLOCK FALSE
