SPECIFICATION Spec
CONSTANTS
    PageSize = 2
    MinSize = 1
    TopPad = 0
    Overhead = 1
    MaxFast = 1
    LargeSize = 2
    MmapThreshold = 2
    MaxMmaps = 3
    ConsolidateThreshold = 3
    TrimThreshold = 4
    NodeSize = 1
    Nodes = 1
    Wrap = 40
    RangeStart = 22
    RangePages = 10
    HeapPages = 4
    Frames = 9
    Span = 3
    Requests <- MCRequests
INVARIANT FreeNeverHalts
