\* The log fails under the report of a battery error: changes go unlogged.
CONSTANTS
    Devices = {d1}
    Modes = {"run"}
    BatteryLogFaults = TRUE
SPECIFICATION Spec
INVARIANT IntentBeforeMutation
CHECK_DEADLOCK FALSE
