CONSTANTS
    NR_TASKS = 4
    NULL = NULL
    KStacks = {s1, s2, s3, s4}
    Dirs = {d1, d2, d3, d4}
    ExitCodes = {0, 1}
    MayExit = {0, 1, 2, 3}
    MayNish = {1, 2, 3}
    MayWait = {}
SPECIFICATION Spec
SYMMETRY Symmetry
INVARIANTS TypeOK OneRunning ResourcesOwned Esp0Allocated NoDeadParent WaiterOwnsChild
CHECK_DEADLOCK FALSE
