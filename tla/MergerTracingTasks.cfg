SPECIFICATION Spec
CONSTANTS
    t1 = t1
    t2 = t2
    a = a
    b = b
    r1 = r1
    r2 = r2
    none = none
    AnySource = AnySource
    AnyTag = AnyTag
    Task <- MCTask
    Calls <- MCTracedTasks
    MaxCalls = 3
    Request <- MCRequest
    Parallel <- MCSerial
    MaxElements = 3
INVARIANTS
    Converted
SYMMETRY MCSymmetry
CHECK_DEADLOCK FALSE
