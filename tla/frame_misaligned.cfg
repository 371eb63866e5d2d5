CONSTANTS
    LastWord = 72
    MainTops <- Main
    ProcessTops <- Process
    Values = {1}
    Moves <- UpAndDown
    HandlerWords = 2
    MaxHalts = 1
    MaxWrites = 1

SPECIFICATION Spec
CHECK_DEADLOCK FALSE

INVARIANT StackPointerAsWritten
