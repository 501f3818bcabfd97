SPECIFICATION FairSpec
CONSTANTS
    NumModels = 2
    MaxRetryCount = 1
    RetryInterval = 1
    PerIdle = 2
    InitialBudget = 4
    MaxToolDepth = 1
    MaxTraceEvents = 8
    MaxLines = 2
    Statuses = {401, 503}
INVARIANTS
    TypeOK
    TokensFromOneAttempt
    AttemptsInOrder
    TraceTellsOutcomes
    EndExplained
    OneLateAttempt
    TimeoutsAreRetried
PROPERTIES
    RequestEnds
CHECK_DEADLOCK FALSE
