CONSTANTS
    Last = 10
    Program <- MaxProgram
    BranchTargets <- Start
    SvcHandler = 9
    DebugMonPriority = 0
    Level = 1
    JumpTargets <- None
    GdbCode <- InCritical
    TempCode <- None
    CallbackResults <- No
    Range <- Priority

SPECIFICATION Spec

PROPERTY Transparent
