CONSTANTS
    Revision = 1
    NumComparators = 3
    LastWord = 3
    Code <- RamCode
    Wide <- RamWide
    Unreadable <- NoCode
    SvcHandler = 12
    GdbCode <- BeyondGdbCode
    TempCode <- RamTempCode

SPECIFICATION Spec

PROPERTY OkMeansArmed
