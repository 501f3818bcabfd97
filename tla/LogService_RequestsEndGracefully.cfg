SPECIFICATION Spec
CONSTANTS
    Logs = {l1, l2}
    Capacity = 1
    Errors = {e1}
    ErrorLogSampleN = 1
    MaxWindow = 0
    NoError = noError
INVARIANTS
    RequestsEndGracefully
CHECK_DEADLOCK FALSE
