CONSTANTS
    NR_TASKS = 4
    NULL = NULL
    KStacks = {s1, s2, s3, s4}
    Dirs = {d1, d2, d3, d4}
    ExitCodes = {0}
    MayExit = {1, 2, 3}
    MayNish = {}
    MayWait = {1, 2, 3}
SPECIFICATION Spec
SYMMETRY Symmetry
INVARIANTS ResourcesOwned
PROPERTIES NoInheritedChildren
CHECK_DEADLOCK FALSE
