CONSTANTS
    Bits = 4
    BlockSize = 2
    HoleSize = 1
    NDirBlocks = 3
    Ptr = 2
    FrameSize = 4
    Calls <- AllCalls
SPECIFICATION CallsSpec
INVARIANTS PrintfRight ClockRight StringsRight ImageReadsBack  ProgramRight
