SPECIFICATION Spec
CONSTANTS
    t1 = t1
    t2 = t2
    t3 = t3
    v1 = v1
    v2 = v2
    v3 = v3
    signA = signA
    NoThread = NoThread
    NoVideo = NoVideo
    ShortSign = ShortSign
    Threads <- ThreeThreads
    Videos <- ThreeVideos
    NoName = NoName
    Atoi <- Numbers
    Signs = {}
    Tails = {"none"}
    Asked <- WithoutSigns
    StreamNums = {0, 1, 2}
    StreamSizes = {0}
    Garbage <- ZeroGarbage
    MemMod = 8
    SignedAuth = FALSE
    ReallocMayFail = FALSE
    FilesIntact = FALSE
SYMMETRY ThreeSymmetry
INVARIANTS
    NoDangling
    RefCount
    Findable
    OneCopy
PROPERTIES
    FrozenWhilePlaying
    ImplementsHandles
