SPECIFICATION Spec
CONSTANTS
    MAX_EVALS = 3
    MAX_FRAMES = 2
    MAX_OUT = 1
    MAX_TIME = 10
    Job = {j1, j2, j3}
    Pid = {p1, p2}
    Code = {0, 1}
    Size = {0}
    Failing = {}
    Program <- EffectPrograms
    GENS = 2
    NoJob = NoJob
    NoPid = NoPid
    NoTask = NoTask
    Task <- MCTask
    Cont <- MCCont
    Val <- MCVal
    Model <- MCModel
    Apply <- MCApply
    Update <- MCUpdate
SYMMETRY Interchangeable
INVARIANTS
    PipesOwned
PROPERTIES
    ExecResultFaithful
    SleepsFireInOrder
