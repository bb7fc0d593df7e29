SPECIFICATION Spec
CONSTANTS
    t1 = t1
    t2 = t2
    a = a
    b = b
    r1 = r1
    r2 = r2
    none = none
    AnySource = AnySource
    AnyTag = AnyTag
    Task <- MCTask
    Calls <- MCCalls
    MaxCalls = 3
    Request <- MCRequest
    Parallel <- MCBoth
    MaxElements = 3
INVARIANTS
    TypeOK
    OwnReceive
    AllMatched
    Converted
    StatesTile
PROPERTIES
    SlotsKept
SYMMETRY MCSymmetry
CHECK_DEADLOCK FALSE
