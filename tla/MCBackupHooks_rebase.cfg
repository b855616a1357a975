SPECIFICATION Spec
CONSTANTS
    Proc = {p1, p2}
    Seconds = 1
    InitOptions <- SomeInits
    Backups = 2
    SetupOptions <- SomeSetups
    HostOf <- OneHost
    Debounce = 2
    Scenes <- Rebase
CHECK_DEADLOCK FALSE
INVARIANT RebaseIsBackedUp
