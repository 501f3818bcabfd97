SPECIFICATION FairSpec
CONSTANTS
    MaxAttempts = 2
    MaxResets = 2
    PerIdle = 2
    InitialBudget = 3
INVARIANTS
    TypeOK
    VerdictMatchesBudget
    OneExpiryPerArming
PROPERTIES
    OnlyLiveAttemptIsCharged
    ImplementsGuard
    WatcherEnds
    QuietAttemptEnds
CHECK_DEADLOCK FALSE
