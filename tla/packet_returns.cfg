CONSTANTS
    Chars <- Alphabet
    Digits <- Binary
    Weight <- Weights
    Unescaped <- Unescapes
    Capacity = 2
    Commands <- Sessions
    Resuming <- Runs
    MaxCalls = 3
    MaxLosses = 2
    Impatience = 0
SPECIFICATION Spec
CHECK_DEADLOCK FALSE

PROPERTY CallsReturn
PROPERTY InterruptReturns
