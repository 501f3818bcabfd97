SPECIFICATION Spec
CONSTANTS
    Words <- MCWords
    Sessions <- MCSessions
    Openings <- MCOpenings
    Appended <- MCAppended
    MaxTurns = 3
INVARIANT UserMessagesKept
CHECK_DEADLOCK FALSE
