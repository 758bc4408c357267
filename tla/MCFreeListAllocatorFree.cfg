SPECIFICATION FairSpec
CONSTANTS
    Entries <- LowEntries
    Slide = 48
    VirtPages = 64
    MaxRequest = 3
    Null = Null
INVARIANTS
    FreeReturns
CHECK_DEADLOCK FALSE
