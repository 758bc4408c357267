SPECIFICATION Spec
CONSTANTS
    Vectors = {v1, v2}
    Empty = Empty
    Texts = {Empty, a}
    NBufs = 5
    FirstCapacity = 2
    MaxSize = 3
    Reserves = {3}
    Temp = Temp
    Raw = Raw
VIEW MCView
SYMMETRY MCSymmetry
INVARIANTS
    Ownership
PROPERTY
    ImplementsLists
CHECK_DEADLOCK FALSE
