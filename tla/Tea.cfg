SPECIFICATION Spec
CONSTANTS
    MAX_EVALS = 3
    MAX_FRAMES = 2
    MAX_OUT = 0
    MAX_TIME = 8
    Job = {j1, j2, j3}
    Pid = {p1, p2}
    Code = {0, 1}
    Size = {0}
    Failing = {"fork", "signalfd"}
    Program <- TeaPrograms
    GENS = 2
    NoJob = NoJob
    NoPid = NoPid
    NoTask = NoTask
    Task <- MCTask
    Cont <- MCCont
    Val <- MCVal
    Model <- MCModel
    Apply <- MCApply
    Update <- MCUpdate
INVARIANTS
    NactiveExact
    DrainTagMatches
PROPERTIES
    RefinesTeaLoop
