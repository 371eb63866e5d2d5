CONSTANTS
    Last = 10
    Program <- PrimaskProgram
    BranchTargets <- Start
    SvcHandler = 9
    DebugMonPriority = 0
    Level = 1
    JumpTargets <- InCritical
    GdbCode <- InCritical
    TempCode <- Handler
    CallbackResults <- Both
    Range <- Priority

SPECIFICATION Spec

INVARIANT StepExecutesOne
INVARIANT SignalMatchesCause
PROPERTY Transparent
PROPERTY NoInterruptDuringStep
