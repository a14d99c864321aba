CONSTANTS
    NR_TASKS = 3
    NULL = NULL
    KStacks = {s1, s2, s3}
    Dirs = {d1, d2, d3}
    ExitCodes = {0}
    MayExit = {1, 2}
    MayNish = {1, 2}
    MayWait = {}
SPECIFICATION FairSpec
PROPERTIES EveryReadyTaskRuns NishReturns
