SPECIFICATION FairSpec
CONSTANTS
    Videos <- SomeVideos
    Qualities = {0, 1, 2}
    Positions = {0, 1, 2, 3, 12}
    NoParam = NoParam
    CHUNK_SIZE = 2
    HeaderLen = 1
    UshortRange = 8
    PartialSends = FALSE
    SendSeconds = {1, 2}
    UPPER_LIMIT_TIME = 2000000000
    LOWER_LIMIT_TIME = 1500000000
    MaxRenew = 2
    MaxTime = 3
INVARIANTS
    InBounds
    Complete
    Released
PROPERTIES
    Contiguous
    TransferEnds
CHECK_DEADLOCK FALSE
