CONSTANTS
    Last = 6
    Program <- CallInHandlerProgram
    BranchTargets <- Start
    SvcHandler = 5
    DebugMonPriority = 0
    Level = 1
    JumpTargets <- None
    GdbCode <- None
    TempCode <- None
    CallbackResults <- No
    Range <- None

SPECIFICATION Spec

INVARIANT StepExecutesOne
