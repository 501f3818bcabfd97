SPECIFICATION Spec
CONSTANTS
    MaxAttempts = 1
    MaxResets = 2
    PerIdle = 1
    InitialBudget = 2
PROPERTIES
    StaleExpiryIgnored
CHECK_DEADLOCK FALSE
