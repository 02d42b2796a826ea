SPECIFICATION Spec
CONSTANTS
    NumFiles = 2
    Contents <- RepeatedContents
    Missing = Missing
    Torn = Torn
    AnyNumbers = {2}
    UshortRange = 3
    NoStream = NoStream
    MaxRuns = 1
    MaxChanges = 1
INVARIANTS
    LoadsEachFound
CHECK_DEADLOCK FALSE
