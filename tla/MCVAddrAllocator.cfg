\* Padding, exhaustion of the pool, heap nodes and their failure.
SPECIFICATION FairSpec
CONSTANTS
    TotalPages = 5
    MaxNodes = 2
    HeapNodes = {h1, h2}
    Aligns = {1, 2}
    MaxRequest = 5
    Null = Null
INVARIANTS
    TypeOK
    ListTilesRange
    PoolNodesAccounted
    UsedIsHeld
    CallersView
PROPERTIES
    CallReturns
    ImplementsReservation
