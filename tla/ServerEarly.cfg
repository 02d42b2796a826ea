SPECIFICATION Spec
CONSTANTS
    c1 = c1
    c2 = c2
    NumChildren = 2
    Conns <- TwoConns
    NoConn = NoConn
    NoThread = NoThread
    MaxFailures = 1
    MaxStarts = 2
INVARIANTS
    NewlyGenerated
CHECK_DEADLOCK FALSE
