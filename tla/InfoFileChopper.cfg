SPECIFICATION Spec
CONSTANTS
    NumFiles = 2
    Contents <- SafeContents
    Missing = Missing
    Torn = Torn
    AnyNumbers = {2}
    UshortRange = 3
    NoStream = NoStream
    MaxRuns = 1
    MaxChanges = 0
INVARIANTS
    ListsEachFound
CHECK_DEADLOCK FALSE
