SPECIFICATION FairSpec
CONSTANTS
    MAX_EVALS = 3
    Session <- FreeSessions
    Respond <- Rearm
INVARIANTS
    TypeOK
    NoReaderOverTypeahead
    EofReachesAll
PROPERTIES
    InputEnds
