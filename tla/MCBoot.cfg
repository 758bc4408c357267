SPECIFICATION Spec
CONSTANTS
    Exceptions = {2, 17}
    Software = {32}
    MaxDepth = 2
    Bits = 5
    PortBits = 4
    Windows <- MCWindows
    Offsets = {1, 31}
    MaxObjects = 2
    MaxCalls = 2
    PageSize = 2
    Slide = 8
    KernelBase = 24
    HeapSize = 6
    Firmwares <- MCFirmwares
    NoTable = NoTable
    MadtHeader = 4
    MaxEntries = 4
INVARIANTS
    FrameTellsTruth
    PortsInWindow
    OnlyLocksLeak
    BootOrder
    HeapApart
    CollectsEveryEntry
PROPERTIES
    ReturnsWhereTaken
    BootEnds
CHECK_DEADLOCK FALSE
