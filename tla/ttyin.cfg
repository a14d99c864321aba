\* One key and a ring that overflows, or all keys and two ttys
CONSTANTS
    TTY_INBUF_LEN = 3
    NR_TTYS = 2
    Keys <- AllKeys
    MaxSize = 2
    MaxKeys = 8
SPECIFICATION DeskSpec
INVARIANTS TypeOK InOrder NoStuckModifier
CHECK_DEADLOCK FALSE
