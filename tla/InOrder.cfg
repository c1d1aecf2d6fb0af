SPECIFICATION FairSpec
CHECK_DEADLOCK FALSE
CONSTANTS
    MAX_EVALS = 3
    Session <- OrderlySessions
    Respond <- Rearm
INVARIANTS
    NoReaderOverBytes
    EventsInOrder
    EofComesLast
PROPERTIES
    AllInputSeen
