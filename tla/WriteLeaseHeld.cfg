SPECIFICATION FairSpec
CONSTANTS
    Execs = {e1, e2, e3}
    Owners = {o1, o2}
    Resources = {r1, r2}
    e1 = e1
    e2 = e2
    e3 = e3
    o1 = o1
    o2 = o2
    r1 = r1
    r2 = r2
    Grants = {1, 2}
    NoLease = NoLease
    Idle = Idle
INVARIANTS
    OneWriter
    WriterCovered
PROPERTIES
    NoTakeover
    EventuallyFree
