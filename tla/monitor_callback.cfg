CONSTANTS
    Last = 10
    Program <- PrimaskProgram
    BranchTargets <- Start
    SvcHandler = 9
    DebugMonPriority = 0
    Level = 1
    JumpTargets <- None
    GdbCode <- None
    TempCode <- InCritical
    CallbackResults <- Both
    Range <- Priority

SPECIFICATION Spec

PROPERTY Transparent
