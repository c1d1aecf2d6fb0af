SPECIFICATION Spec
CHECK_DEADLOCK FALSE
CONSTANTS
    Name <- NameV
    Value <- ValueV
    Moving <- MovingV
    NoName = NoName
    NoValue = NoValue
    Stale = Stale
    NoProgram = NoProgram
    PrimNames <- PrimNamesV
    primval <- primV
    symval <- symV
    Keywords <- KeywordsV
    Startup <- StartupV
    Bundles <- BundlesV
    Hashes <- HashesV
    Definitions <- DefinitionsV
    Scenarios <- ScenariosV
    RuntimeStores <- RuntimeStoresV
    Files <- FilesV
    Dirs = {"/tmp"}
    DEFUN_TABLE_CAP = 20
    DEFUN_OVERFLOW_CAP = 1
    VALUES_TABLE_CAP = 4
    MaxDisplacement = 2
    MaxBuckets = 16
    CALL_STACK_DEPTH = 6
    MaxArgs = 3
    PLAN_MAX_CHAINS = 4
    PLAN_MAX_CMDS = 3
    PLAN_MAX_ARGS = 2
    PLAN_MAX_REDIRS = 2
    PLAN_MAX_DEPTH = 1
    PIPE_CAP = 1
    MaxFaults = 1
INVARIANTS
    TypeOK
    RunsFaithfully
    RootsBalanced
    PlanFaithful
    NothingHeld
PROPERTIES
    KeepsDictionary
    PlanEnds
