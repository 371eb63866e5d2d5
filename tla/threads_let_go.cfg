CONSTANTS
    t1 = t1
    t2 = t2
    t3 = t3
    AllThreads = AllThreads
    NoThread = NoThread
    ThreadOrder <- TwoThreads
    MaxActions = 2
    Room = 0

SPECIFICATION Spec

INVARIANT FrozenWhileHalted
