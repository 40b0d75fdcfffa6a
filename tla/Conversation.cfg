SPECIFICATION FairSpec
CONSTANTS
    a1 = a1
    a2 = a2
    c1 = c1
    c2 = c2
    NoConn = NoConn
    Asks <- TwoAsks
    Conns <- TwoConns
    MaxHistory = 2
    MaxLast = 5
    MaxFailures = 2
CHECK_DEADLOCK FALSE
INVARIANTS
    ViewIsCurrent
    PromptIsComplete
PROPERTIES
    AsksEnd
    IsSerial
