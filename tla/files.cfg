CONSTANTS
    NR_TASKS = 3
    NR_OPEN = 2
    NULL = NULL
    Handles = {h1, h2}
    Root = root
    Top = top
    NISH = nish
    Vnodes = {root, top, tty, nish}
    Dirs = {root, top}
    Covered = {root}
    Tops = {top}
    Ttys = {tty}
    MaxCount <- SmallCounts
SPECIFICATION Spec
SYMMETRY Symmetry
INVARIANTS TypeOK FileCounts BusyFile NodesHeld
CHECK_DEADLOCK FALSE
