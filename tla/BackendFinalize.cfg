SPECIFICATION FairSpec
CONSTANTS
    Threads <- MCThreads
    MaxEvents = 12
    Options <- MCOptions
    MaxStack = 24
INVARIANTS
    TypeOK
    
    
    ProbesOnDisk
    
    SizeBounded
PROPERTIES
    FinalizeTerminates
    InsertionNotInterrupted
CHECK_DEADLOCK FALSE
