SPECIFICATION Spec
CONSTANTS
    p1 = p1
    p2 = p2
    p3 = p3
    Proc = {p1, p2, p3}
    HostOf <- OneHost
    Times = {1, 2, 3}
    DateOf <- TwoDays
    Suffixes = 2
    KeepCount = 1
    Scenarios <- CrashesOrAnything
SYMMETRY Symmetry
CONSTRAINT Bound
INVARIANT TypeOK
INVARIANT DoneIsComplete
INVARIANT ResultIsTrue
INVARIANT LeftoversAreFromKills
INVARIANT CountIsBounded
INVARIANT NothingClobbered
INVARIANT ReservationIsExclusive
