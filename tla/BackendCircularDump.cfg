SPECIFICATION Spec
CONSTANTS
    Threads <- MCThreads
    MaxEvents = 12
    Options <- MCCircular
    MaxStack = 60
INVARIANTS
    CircularIsDumped
CHECK_DEADLOCK FALSE
