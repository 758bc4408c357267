SPECIFICATION FairSpec
CONSTANTS
    f1 = f1
    f2 = f2
    f3 = f3
    f4 = f4
    f5 = f5
    Frame <- MCFrame
    Root = f1
    Levels = 3
    Fanout = 2
    Virts <- MCVirts
    Requests <- MCRequests
    None = None
INVARIANTS
    TablesApart
    TlbFollowsTables
PROPERTIES
    CallReturns
    ImplementsAddressSpace
