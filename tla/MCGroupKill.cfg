SPECIFICATION Spec
CONSTANTS
    AUTH_SERVERS = 1
    QUEUE_POS = 1
    Arrivals = {"OTHER"}
    MaxRequests = 3
INVARIANTS
    OnlyBackupKilled
CHECK_DEADLOCK FALSE
