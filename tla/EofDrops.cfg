SPECIFICATION Spec
CONSTANTS
    MAX_EVALS = 3
    Session <- PipedSessions
    Respond <- Rearm
INVARIANTS
    EofComesLast
