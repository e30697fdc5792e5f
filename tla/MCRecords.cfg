\* Three sessions of two processes whose writes may stop anywhere; and one run's
\* monitor and its worker: sleeps of two lengths at any instant, also inside a
\* reading, one of which may fail.
CONSTANTS
    Processes = {p1, p2}
    NoHolder = noholder
    MaxSessions = 3
    MaxRecords = 2
    Pairs = 3
    Floor2 = 7
    Lengths = {3, 5}
    Nothing = nothing
    MaxClock = 2
    MaxSleeps = 2
    MaxFailures = 1
SPECIFICATION MCSpec
INVARIANTS
    AckedIsDurable
    NoInterleaving
    NumbersInOrder
    LegibleAfterOpening
    NoFalseDiscontinuity
    IntervalsMeasure
    CoverageHonest
\* Every bound ends the log; the report ends a run, and its bounds the machine.
CHECK_DEADLOCK FALSE
