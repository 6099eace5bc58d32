SPECIFICATION Spec
CONSTANTS
    Regular = {"engine"}
    QUEUE_POS = 1
    MaxRequests = 2
INVARIANTS
    TypeOK
    
    NothingBehind
CHECK_DEADLOCK FALSE
