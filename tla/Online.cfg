CONSTANTS
    t1 = t1
    t2 = t2
    BE_thread = BE_thread
    Nobody = Nobody
    Order <- MCOrder
    MaxEvents = 6
    Calls <- MCCalls
    MaxCalls <- MCMaxCalls
    MaxAnalyses = 1
SPECIFICATION Spec
INVARIANTS
    TypeOK
    EventsAccounted
    SelectionKept
    

    
    
CHECK_DEADLOCK FALSE
