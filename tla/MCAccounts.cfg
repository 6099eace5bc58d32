SPECIFICATION Spec
CONSTANTS
    m1 = m1
    m2 = m2
    e1 = e1
    Mobiles = {m1, m2}
    Arguments <- MCArguments
    Services = {"VIDEO"}
    AuthEngines = {e1}
    QueueCapacity = 2
    MaxReports = 1
    MaxCommands = 1
INVARIANTS
    TypeOK
    
    OneAccountEach
    AlertsOnce
CHECK_DEADLOCK FALSE
