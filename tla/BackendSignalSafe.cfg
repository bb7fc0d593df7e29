SPECIFICATION Spec
CONSTANTS
    Threads <- MCThreads
    MaxEvents = 12
    Options <- MCSignal
    MaxStack = 500
INVARIANTS
    NoUseAfterFree
CHECK_DEADLOCK FALSE
