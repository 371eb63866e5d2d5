CONSTANTS
    LastWord = 72
    MainTops <- Main
    ProcessTops <- Process
    Values = {1}
    Moves <- UpAndDown
    HandlerWords = 2
    MaxHalts = 2
    MaxWrites = 2

SPECIFICATION Spec
CHECK_DEADLOCK FALSE

INVARIANT ShowsRegisters
INVARIANT RestoresRegisters
INVARIANT RestoresStackPointer
INVARIANT KeepsStack
