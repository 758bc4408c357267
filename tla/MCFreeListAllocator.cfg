\* Twice the slide is the size of the address space: see the README.
SPECIFICATION FairSpec
CONSTANTS
    Entries <- AdjacentEntries
    Slide = 32
    VirtPages = 64
    MaxRequest = 3
    Null = Null
INVARIANTS
    MemoryAccounted
PROPERTIES
    MergingKeepsRuns
    CallReturns
    ImplementsReservation
