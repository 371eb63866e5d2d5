CONSTANTS
    Chars <- Alphabet
    Digits <- Binary
    Weight <- Weights
    Unescaped <- Unescapes
    Capacity = 2
    Commands <- Everything
    Resuming <- Runs
    MaxCalls = 3
    MaxLosses = 2
    Impatience = 1
SPECIFICATION Spec
CHECK_DEADLOCK FALSE

INVARIANT DataFits
INVARIANT ExecutesWhatWasSent
PROPERTY Delivery
