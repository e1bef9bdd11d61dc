SPECIFICATION FairSpec
CONSTANTS
    Workers = {w1, w2}
    w1 = w1
    w2 = w2
    NumSteps = 3
    AgentRun = TRUE
    Risky = {2, 3}
    DeviceSteps = {}
    Faulty = {1, 2, 3}
    MaxSteps = 3
    MaxAttempts = 2
    Hands = {}
    Ops = {"approve", "reject", "rejectRun", "retry", "cancelDead"}
    MaxOps = 4
    Faults = {}
    MaxFaults = 0
    Resumers = {"api", "ticker"}
INVARIANTS
    TypeOK
    NotStranded
    JobAgrees
    SucceededMeansDone
PROPERTIES
    KeepsPromise
    Settles
\* A run that has settled, or waits for a human or a device, may stay so.
CHECK_DEADLOCK FALSE
