SPECIFICATION Spec
CONSTANTS
    m1 = m1
    m2 = m2
    b1 = b1
    b2 = b2
    Mobiles = {m1, m2}
    Backoffices = {b1, b2}
    Files <- MCFiles
    MaxStarts = 2
SYMMETRY Symmetry
INVARIANTS
    TypeOK
    ConfigFaithful
    StartRecovers
    
    NothingLeft
    OneBackoffice
CHECK_DEADLOCK FALSE
