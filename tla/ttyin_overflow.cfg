CONSTANTS
    TTY_INBUF_LEN = 3
    NR_TTYS = 1
    Keys <- CharKey
    MaxSize = 2
    MaxKeys = 8
SPECIFICATION DeskSpec
INVARIANTS LossOnlyOnOverflow
CHECK_DEADLOCK FALSE
