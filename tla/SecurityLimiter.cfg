SPECIFICATION Spec
CONSTANTS
    t1 = t1
    t2 = t2
    NoThread = NoThread
    Threads <- TwoThreads
    Clients = {1, 2, 3}
    IntRange = 16
    BacklogLen = 2
    BlacklistLen = 2
    MaxRequest = 1
    MaxTime = 1
    Second = 1
    Gaps = {0, 1}
    MaxClock = 2
    MaxCounter = 2
SYMMETRY ThreadSymmetry
INVARIANTS
    TypeOK
    Searchable
PROPERTIES
    BannedRefused
    BanStays
CHECK_DEADLOCK FALSE
