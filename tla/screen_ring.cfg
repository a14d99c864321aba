CONSTANTS
    Width = 2
    Height = 2
    MemLines = 3
    NR_TTYS = 1
    NONE = NONE
    Chars = {"a"}
    Bytes = {"BS", "TAB", "LF", "VT", "CR"}
    Commands = {"A", "B", "C", "D", "E", "F", "G", "H", "J", "K"}
    Numbers <- FewNumbers
SPECIFICATION Spec
INVARIANTS TypeOK
PROPERTIES ImplementsTerminal
