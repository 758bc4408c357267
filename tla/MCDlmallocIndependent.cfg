SPECIFICATION Spec
CONSTANTS
    HeapBase = 4
    HeapEnd = 14
    MmapBase = 24
    MmapEnd = 42
    PageSize = 2
    MaxFast = 2
    MinLarge = 4
    NBins = 6
    largebin_index <- MClargebin_index
    ConsolidateThreshold = 5
    TrimThreshold = 8
    MmapThreshold = 11
    MmapMax = 1
    TopPad = 0
    SizeLimit = 128
    Requests = {3, 6}
    Alignments = {4}
    Counts = {1}
    Lengths = {1}
    Options <- MCOptions
    MaxBlocks = 3
INVARIANT
    CheckMallocState
CHECK_DEADLOCK FALSE
