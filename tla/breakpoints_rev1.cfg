CONSTANTS
    Revision = 1
    NumComparators = 3
    LastWord = 3
    Code <- FlashCode
    Wide <- FlashWide
    Unreadable <- FlashUnreadable
    SvcHandler = 10
    GdbCode <- FlashGdbCode
    TempCode <- FlashTempCode

SPECIFICATION Spec

INVARIANT OneComparatorEach
INVARIANT NoComparatorLeaked
INVARIANT GdbBreakpointsKept
INVARIANT InternalBreakpointsKept
PROPERTY OkMeansArmed
PROPERTY RemovedMeansCleared
