CONSTANTS
    NumComparators = 2
    MaxMask = 1
    Requests <- MCRequests
    Bytes <- MCBytes

SPECIFICATION SpecFresh

INVARIANT NamesHitOfThisRun
