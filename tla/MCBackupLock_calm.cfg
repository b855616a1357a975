SPECIFICATION Spec
CONSTANTS
    p1 = p1
    p2 = p2
    p3 = p3
    Proc = {p1, p2, p3}
    NoProc = NoProc
    HostOf <- TwoHosts
    Hazards <- NoHazards
INVARIANT TypeOK
INVARIANT Mutex
INVARIANT NeverCollides
PROPERTY ImplementsExclusiveLock
