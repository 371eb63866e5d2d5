CONSTANTS
    Last = 10
    Program <- BasepriProgram
    BranchTargets <- Start
    SvcHandler = 10
    DebugMonPriority = 1
    Level = 1
    JumpTargets <- BehindFault
    GdbCode <- BehindFault
    TempCode <- None
    CallbackResults <- No
    Range <- Priority

SPECIFICATION Spec

INVARIANT TypeOK
INVARIANT StepExecutesOne
INVARIANT SignalMatchesCause
PROPERTY Transparent
PROPERTY NoInterruptDuringStep
