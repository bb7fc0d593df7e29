SPECIFICATION FairSpec
CONSTANTS
    EventType <- MCEventType
    CachedTypes <- MCCachedTypes
    MaxEvents = 3
    CacheSize = 2
    BatchSizes <- MCBatchSizes
    Reserve <- MCReserve
    MaxMade = 7
INVARIANTS
    TypeOK
    CursorsAgree
    RingHoldsNewest
    FileThenRing
    CachedInOrder
    
    CachedSurvive
PROPERTIES
    FileAppendOnly
    
    ImplementsRecorder
CHECK_DEADLOCK FALSE
