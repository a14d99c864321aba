\* The names: does sys_reboot unmount the devfs?
SPECIFICATION VfsAlone
CONSTANTS
    Frame = 4
    HeapStart = 4
    HeapSize = 12
    HeapMin = 8
    HeapLimit = 20
    Requests = {1, 3}
    MaxBlocks = 3
    NrFrames = 9
    TabSize = 5
    NrTabs = 3
    MemStart = 1
    IpcPages = 1
    PreHeap = 2
    HeapPageRange <- MCHeapPages
    HeapTop = 5
    UserPages = {10, 11}
    Dirs = {1, 2}
    Contents = {0, 1}
    Tree <- MCTree
    Devices = {"f"}
    MaxMounts = 2
    MaxDevices = 2
    DevPath <- MCDevPath
    SomePaths <- MCSomePaths
    AllPaths <- MCAllPaths
    Heads = 2
    Tracks = 2
    Spt = 2
    MaxCount = 5
    MaxChanges = 1
    TXT_WIDTH = 3
    TXT_HEIGHT = 2
    TAB_WIDTH = 2
    Letters = {"a", "b"}
    Outputs <- MCOutputs
    STRLEN = 7
    Shells = {p, q, r}
    NishChars = {"e", "x", "y", "z"}
    Commands <- MCCommands
INVARIANTS
    RebootUnmounts
CHECK_DEADLOCK FALSE
