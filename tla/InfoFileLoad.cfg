SPECIFICATION Spec
CONSTANTS
    NumFiles = 2
    Contents <- SomeContents
    Missing = Missing
    Torn = Torn
    AnyNumbers = {2}
    UshortRange = 3
    NoStream = NoStream
    MaxRuns = 2
    MaxChanges = 1
INVARIANTS
    TypeOK
    OnlyLastIsCut
    RoundTrip
    WithinFile
    CrashExplained
PROPERTIES
    LoadProgress
CHECK_DEADLOCK FALSE
