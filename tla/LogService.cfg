SPECIFICATION FairSpec
CONSTANTS
    Logs = {l1, l2, l3}
    Capacity = 1
    Errors = {e1}
    ErrorLogSampleN = 1
    MaxWindow = 1
    NoError = noError
INVARIANTS
    TypeOK
    RecordedOnce
    SampledExactly
    DrainComplete
PROPERTIES
    EarlyIsRecorded
    StopReturns
CHECK_DEADLOCK FALSE
