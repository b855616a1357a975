SPECIFICATION Spec
CONSTANTS
    Proc = {p1, p2}
    Seconds = 1
    InitOptions <- SomeInits
    Backups = 2
    SetupOptions <- SomeSetups
    HostOf <- OneHost
    Debounce = 2
    Scenes <- Client
SYMMETRY Symmetry
CHECK_DEADLOCK FALSE
INVARIANT TypeOK
INVARIANT EditedConfigKept
INVARIANT ConfigGapsAreCuts
INVARIANT InstalledIsArmed
INVARIANT UserHookKept
INVARIANT NoHookLoop
INVARIANT IgnoreIsWhole
INVARIANT OkIsSaved
INVARIANT DebounceIsEarned
INVARIANT StatusShowsBackupKey
INVARIANT KeysAreOwn
PROPERTY DryRunsWriteNothing
