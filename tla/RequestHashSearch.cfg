SPECIFICATION Spec
CONSTANTS
    t1 = t1
    t2 = t2
    r1 = r1
    r2 = r2
    r3 = r3
    r4 = r4
    none = none
    Thread <- MCThread2
    Level = "multiple"
    Key <- MCKey2
    Receive <- MCReceive
    TableSize = 1
    OverflowSize = 1
    MaxPersistent = 0
    MaxFreed = 0
INVARIANTS
    SearchFinds
SYMMETRY MCSymmetry
CHECK_DEADLOCK FALSE
