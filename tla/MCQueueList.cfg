SPECIFICATION Spec
CONSTANTS
    c1 = c1
    c2 = c2
    c3 = c3
    c4 = c4
    Cells = {c1, c2, c3, c4}
    NULL = NULL
    MaxSize = 3
    Arrivals = {"REGISTER", "VIDEO"}
    MaxRequests = 4
INVARIANTS
    TypeOK
    WellFormed
PROPERTIES
    ImplementsBoundedQueue
CHECK_DEADLOCK FALSE
