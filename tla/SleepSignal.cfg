\* One-shot suspend and hibernate, and signals before logind has answered.
CONSTANTS
    Devices = {d1}
    Modes = {"sleep"}
    BatteryLogFaults = FALSE
SPECIFICATION Spec
INVARIANT SuccessAfterAcceptance
CHECK_DEADLOCK FALSE
