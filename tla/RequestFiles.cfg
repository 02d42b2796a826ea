\* Every query of a stream with up to five tokens, and files that change.
SPECIFICATION Spec
CONSTANTS
    w = w
    y = y
    Inputs <- MCInputs
    MinLen = 4
    Alnum <- MCAlnum
    Dirs <- MCDirs
    Contents <- MCContents
    Missing = Missing
    NULL = NULL
    ParamMaxLen = 3
    UshortRange = 20
INVARIANTS TypeOK ParsedAsWritten ValuesClean WholeIfStill OneVersion AnswerFitsFiles
CHECK_DEADLOCK FALSE
