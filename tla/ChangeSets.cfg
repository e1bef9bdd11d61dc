SPECIFICATION StartedSpec
CONSTANTS
    c1 = c1
    c2 = c2
    p1 = p1
    p2 = p2
    u1 = u1
    u2 = u2
    s1 = s1
    T = T
    k1 = k1
    k2 = k2
    ChangeSets = {c1, c2}
    Callers = {p1, p2}
    Subjects = {u1, u2}
    Spaces = {s1}
    Tenant = T
    Keys = {k1, k2}
    Scope <- TenantScope
    Targets <- OneTarget
    Planned <- Plans
    Initial <- Start
    MaxRuns = 1
    MaxBinds = 1
SYMMETRY Symmetry
INVARIANTS
    OneLife
    FourEyes
    EvalGated
PROPERTIES
    Restored
    CanaryKept
CHECK_DEADLOCK FALSE
