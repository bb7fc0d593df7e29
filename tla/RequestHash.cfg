SPECIFICATION Spec
CONSTANTS
    t1 = t1
    t2 = t2
    r1 = r1
    r2 = r2
    r3 = r3
    r4 = r4
    none = none
    Thread <- MCThread1
    Level = "serialized"
    Key <- MCKey3
    Receive <- MCReceive
    TableSize = 1
    OverflowSize = 2
    MaxPersistent = 1
    MaxFreed = 1
INVARIANTS
    TypeOK
    CellsAccounted
    
PROPERTIES
    ImplementsRequestMap
SYMMETRY MCSymmetry
CHECK_DEADLOCK FALSE
