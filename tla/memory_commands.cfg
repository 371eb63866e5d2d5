CONSTANTS
    LastAddress = 15
    Readable <- FlashAndRam
    Writable <- Ram
    DLine = 4
    ILine = 8
    Capacity = 4
    Starts <- Ends
    Lengths <- Sizes
    Blocks = {4}
    Breakpoints = {0}
    MaxCommands = 2

SPECIFICATION Spec

INVARIANT ReadsWhatIsThere
INVARIANT WritesAllOrAPrefix
INVARIANT ExecutesWhatWasWritten
PROPERTY AdvancesPastCall
