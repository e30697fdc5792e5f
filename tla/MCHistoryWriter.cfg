\* Two callers, two records of two sizes, limits that fill up.
CONSTANTS
    Callers = {c1, c2}
    Sizes = {1, 2}
    MaxPendingRecords = 2
    MaxPendingBytes = 3
    BatchBytes = 3
    BatchTicks = 2
    EventTicks = 1
    MaxRecords = 2
    MaxTime = 2
SPECIFICATION Spec
INVARIANTS
    FlushedIsDurable
    CleanCloseIsComplete
    NothingForgotten
    MemoryIsBounded
    NoLostWakeup
PROPERTIES
    ImplementsQueue
    WorkSettles
    ClosingEnds
\* The writer ends; afterwards no call changes anything.
CHECK_DEADLOCK FALSE
