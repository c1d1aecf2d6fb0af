SPECIFICATION FairSpec
CONSTANTS
    MAX_EVALS = 3
    MAX_FRAMES = 2
    MAX_OUT = 0
    MAX_TIME = 4
    Job = {j1, j2}
    Pid = {p1}
    Code = {0}
    Size = {1, 2}
    Failing = {"fork"}
    Program <- EndingPrograms
    GENS = 2
    NoJob = NoJob
    NoPid = NoPid
    NoTask = NoTask
    Task <- MCTask
    Cont <- MCCont
    Val <- MCVal
    Model <- MCModel
    Apply <- MCApply
    Update <- MCUpdate
INVARIANTS
    NothingLeaks
PROPERTIES
    ProgramEnds
    EffectsEnd
    ResizeIsSeen
