\* Two runs that only sample: the service comes and goes, storage fails.
CONSTANTS
    Runs = {r1, r2}
    Recorders = {}
    Nobody = nobody
    Faults = {"disk", "kill"}
    Sampling = TRUE
    MaxStarts = 1
    MaxEvents = 0
SPECIFICATION Spec
INVARIANT NoDoubleSampling
PROPERTY RecordingResumes
CHECK_DEADLOCK FALSE
