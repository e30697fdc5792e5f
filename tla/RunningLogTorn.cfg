\* A process dies inside a record while another has the log open.
CONSTANTS
    Processes = {p1, p2}
    NoHolder = noholder
    MaxSessions = 2
    MaxRecords = 1
SPECIFICATION LogSpec
INVARIANT AckedIsLegible
CHECK_DEADLOCK FALSE
