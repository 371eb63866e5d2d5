CONSTANTS
    Last = 10
    Program <- PrimaskProgram
    BranchTargets <- Start
    SvcHandler = 9
    DebugMonPriority = 0
    Level = 1
    JumpTargets <- None
    GdbCode <- InCritical
    TempCode <- None
    CallbackResults <- No
    Range <- Priority

SPECIFICATION Spec

INVARIANT EveryStepExecutesOne
