\* Every mode; the log fails only where its failure is heard.
CONSTANTS
    Devices = {d1, d2}
    Modes = {"run", "normal", "sleep"}
    BatteryLogFaults = FALSE
SPECIFICATION Spec
PROPERTIES
    ImplementsObligations
    StopEnds
INVARIANTS
    IntentBeforeMutation
    RestoredOrReported
    OneLateMutation
    FlushedBeforeSleep
    HonestOutcome
CHECK_DEADLOCK FALSE
