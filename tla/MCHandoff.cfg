\* Two runs, one of which records an event; the service comes and goes.
CONSTANTS
    Runs = {r1, r2}
    Recorders = {r1}
    Nobody = nobody
    Faults = {"answers", "kill"}
    Sampling = FALSE
    MaxStarts = 1
    MaxEvents = 1
SPECIFICATION Spec
INVARIANTS
    EveryEventOnce
    FlushIsDurableLocally
CHECK_DEADLOCK FALSE
