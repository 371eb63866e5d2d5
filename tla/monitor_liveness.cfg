CONSTANTS
    Last = 13
    Program <- EndlessProgram
    BranchTargets <- Start
    SvcHandler = 9
    DebugMonPriority = 1
    Level = 1
    JumpTargets <- InSection
    GdbCode <- Handler
    TempCode <- Handler
    CallbackResults <- No
    Range <- NoPriority

SPECIFICATION Spec

INVARIANT RangeStepExecutesOne
PROPERTY ControlCHalts
PROPERTY StepEnds
