CONSTANTS
    Width = 1
    Height = 1
    MemLines = 2
    NR_TTYS = 2
    NONE = NONE
    Chars = {"a"}
    Bytes = {"LF"}
    Commands = {"h", "l", "e", "m", "s", "u"}
    Numbers <- ModeNumbers
SPECIFICATION Spec
INVARIANTS MonitorShowsCurrent
