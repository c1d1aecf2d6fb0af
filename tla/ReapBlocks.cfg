SPECIFICATION Spec
CONSTANTS
    MAX_EVALS = 2
    MAX_FRAMES = 2
    MAX_OUT = 0
    MAX_TIME = 0
    Job = {j1, j2}
    Pid = {p1, p2}
    Code = {0}
    Size = {0}
    Failing = {"fork"}
    Program <- PairProgram
    GENS = 2
    NoJob = NoJob
    NoPid = NoPid
    NoTask = NoTask
    Task <- MCTask
    Cont <- MCCont
    Val <- MCVal
    Model <- MCModel
    Apply <- MCApply
    Update <- MCUpdate
INVARIANTS
    BlockingReapIsPrompt
