SPECIFICATION Spec
CONSTANTS
    AUTH_SERVERS = 1
    QUEUE_POS = 2
    Arrivals = {"REGISTER", "VIDEO"}
    MaxRequests = 3
INVARIANTS
    TypeOK
    ShmExclusion
    
    BackupConsistent
    NoStaleChoice
    EachRequestOnce
    ArrivalOrder
CHECK_DEADLOCK FALSE
