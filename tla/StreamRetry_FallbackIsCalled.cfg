SPECIFICATION Spec
CONSTANTS
    NumModels = 2
    MaxRetryCount = 1
    RetryInterval = 1
    PerIdle = 2
    InitialBudget = 2
    MaxToolDepth = 1
    MaxTraceEvents = 64
    MaxLines = 2
    Statuses = {503}
INVARIANTS
    FallbackIsCalled
CHECK_DEADLOCK FALSE
