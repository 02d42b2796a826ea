SPECIFICATION Spec
CONSTANTS
    t1 = t1
    t2 = t2
    NoThread = NoThread
    Threads <- OneThread
    Clients = {1, 3, 6}
    IntRange = 8
    BacklogLen = 3
    BlacklistLen = 3
    MaxRequest = 1
    MaxTime = 1
    Second = 1
    Gaps = {0, 1}
    MaxClock = 2
    MaxCounter = 3
PROPERTY BannedRefused
CHECK_DEADLOCK FALSE
