CONSTANTS
    NumComparators = 2
    MaxMask = 1
    Requests <- FewRequests
    Bytes <- FewBytes

SPECIFICATION Spec

PROPERTY EveryHitHalts
