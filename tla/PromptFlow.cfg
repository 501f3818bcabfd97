SPECIFICATION Spec
CONSTANTS
    Words <- MCWords
    Sessions <- MCSessions
    Openings <- MCOpenings
    Appended <- MCAppended
    MaxTurns = 3
INVARIANTS
    TypeOK
    ConversationKept
    RefusedExplained
    PrefixStable
    SystemKept
CHECK_DEADLOCK FALSE
