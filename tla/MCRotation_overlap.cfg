SPECIFICATION Spec
CONSTANTS
    Rotor = {r1, r2}
    Snaps = 3
    Ages = {1, 2}
    Sizes = {1, 2}
    Configs <- SomeConfigs
    RemoveMayFail = TRUE
SYMMETRY Symmetry
CONSTRAINT Bound
INVARIANT TypeOK
INVARIANT NewestKept
INVARIANT LimitsHold
INVARIANT NoMoreThanNeeded
INVARIANT DryRunPredicts
INVARIANT ScanIsWhole
