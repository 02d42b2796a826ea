SPECIFICATION FairSpec
CONSTANTS
    t1 = t1
    t2 = t2
    t3 = t3
    v1 = v1
    v2 = v2
    v3 = v3
    signA = signA
    NoThread = NoThread
    NoVideo = NoVideo
    ShortSign = ShortSign
    Threads <- ThreeThreads
    Videos <- ThreeVideos
    NoName = NoName
    Atoi <- Numbers
    Signs = {signA}
    Tails = {"none", "x"}
    Asked <- WithSigns
    StreamNums = {1}
    StreamSizes = {0}
    Garbage <- ZeroGarbage
    MemMod = 8
    SignedAuth = TRUE
    ReallocMayFail = FALSE
    FilesIntact = FALSE
INVARIANTS
    Authorised
    Findable
PROPERTIES
    LockReleased
    CacheDrains
