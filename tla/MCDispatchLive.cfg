SPECIFICATION FairSpec
CONSTANTS
    AUTH_SERVERS = 1
    QUEUE_POS = 1
    Arrivals = {"OTHER"}
    MaxRequests = 2
PROPERTIES
    
    FullIsNoticed
    
CHECK_DEADLOCK FALSE
