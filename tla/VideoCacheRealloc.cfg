SPECIFICATION Spec
CONSTANTS
    t1 = t1
    t2 = t2
    t3 = t3
    v1 = v1
    v2 = v2
    v3 = v3
    signA = signA
    NoThread = NoThread
    NoVideo = NoVideo
    ShortSign = ShortSign
    Threads <- TwoThreads
    Videos <- TwoVideos
    NoName = NoName
    Atoi <- Numbers
    Signs = {}
    Tails = {"none"}
    Asked <- WithoutSigns
    StreamNums = {1, 2}
    StreamSizes = {1, 2}
    Garbage <- SomeGarbage
    MemMod = 16
    SignedAuth = FALSE
    ReallocMayFail = TRUE
    FilesIntact = TRUE
SYMMETRY TwoSymmetry
INVARIANTS
    MemUsedExact
PROPERTIES
    ImplementsHandles
