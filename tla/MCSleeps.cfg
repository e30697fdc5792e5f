\* A foreground collector through three transitions, with every failure; and a
\* run and the service with two systemd-sleep processes whose operations may
\* overlap, of whose journal records any may be gone, oldest first.
CONSTANTS
    Foreground = TRUE
    Faults = {"storage", "refusal", "impatience"}
    MaxPeriods = 3
    Kinds = {suspend, hibernate}
    Processes = {p1, p2}
    Nothing = nothing
    MaxSleeps = 2
    MaxLost = 4
    MaxEvents = 2
SPECIFICATION MCSpec
INVARIANTS
    SleepAfterFlush
    NoStrayLock
    LockWhenQuiet
    OwnedOnce
    NamesAreEarned
PROPERTIES
    DelayIsBounded
    OwnedIsRecorded
\* Logind may make no further transition, and a run that closed, with every
\* bound used up, stops.
CHECK_DEADLOCK FALSE
