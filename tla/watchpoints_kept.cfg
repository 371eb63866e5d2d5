CONSTANTS
    NumComparators = 2
    MaxMask = 1
    Requests <- MCRequests
    Bytes <- MCBytes

SPECIFICATION Spec

INVARIANT WatchesWhatIsRequested
INVARIANT RefusesOnlyWhenFull
PROPERTY ReportsWhatWasTouched
PROPERTY HitsHalt
