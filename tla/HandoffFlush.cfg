\* The service stops between the sending of an event and the flush.
CONSTANTS
    Runs = {r1}
    Recorders = {r1}
    Nobody = nobody
    Faults = {}
    Sampling = FALSE
    MaxStarts = 1
    MaxEvents = 1
SPECIFICATION Spec
INVARIANT FlushIsDurable
CHECK_DEADLOCK FALSE
