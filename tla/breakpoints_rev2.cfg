CONSTANTS
    Revision = 2
    NumComparators = 3
    LastWord = 3
    Code <- RamCode
    Wide <- RamWide
    Unreadable <- NoCode
    SvcHandler = 12
    GdbCode <- RamGdbCode
    TempCode <- RamTempCode

SPECIFICATION Spec

INVARIANT TypeOK
INVARIANT OneComparatorEach
INVARIANT NoComparatorLeaked
INVARIANT GdbBreakpointsKept
INVARIANT InternalBreakpointsKept
PROPERTY OkMeansArmed
PROPERTY RemovedMeansCleared
