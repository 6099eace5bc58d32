SPECIFICATION FairSpec
CONSTANTS
    m1 = m1
    m2 = m2
    m3 = m3
    pid = pid
    Mobiles = {m1, m2, m3}
    Stranger = pid
    Units = 2
    ReadUnits = 5
    PipeUnits = 6
    MaxAuthRequests = 1
    MaxStarts = 2
INVARIANTS
    TypeOK
    StrangersNeedOverflow

    
CHECK_DEADLOCK FALSE
