SPECIFICATION Spec
CONSTANTS
    Proc = {p1, p2}
    Seconds = 1
    InitOptions <- SomeInits
    Backups = 2
    SetupOptions <- SomeSetups
    HostOf <- OneHost
    Debounce = 2
    Scenes <- Advice
CHECK_DEADLOCK FALSE
INVARIANT AdviceKeepsUserHook
