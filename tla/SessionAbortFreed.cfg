\* The server resets the connection.
SPECIFICATION Spec
CONSTANTS
    p1 = p1
    p2 = p2
    Pcbs = {p1, p2}
    NULL = NULL
    QueueLen = 8
    MboxSize = 8
    MaxTraffic = 2
    Faults = {"lower_err"}
    Timely = TRUE
INVARIANT AbortsActive
