SPECIFICATION Spec
CONSTANTS
    main = main
    c1 = c1
    c2 = c2
    c3 = c3
    f1 = f1
    f2 = f2
    h1 = h1
    h2 = h2
    h3 = h3
    MaxSlots = 4
    Child <- MCChild
    Foreign <- MCForeign
    Handle <- MCHandle
    Setups <- MCLocks
INVARIANTS
    MutexExcludes
CHECK_DEADLOCK FALSE
