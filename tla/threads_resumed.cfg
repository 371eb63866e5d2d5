CONSTANTS
    t1 = t1
    t2 = t2
    t3 = t3
    AllThreads = AllThreads
    NoThread = NoThread
    ThreadOrder <- ThreeThreads
    MaxActions = 2
    Room = 0

SPECIFICATION Spec

INVARIANT RunsAsAsked
INVARIANT StepsAsAsked
INVARIANT ListsEveryThread
INVARIANT FrozenForVCont
PROPERTY RejectedChangesNothing
