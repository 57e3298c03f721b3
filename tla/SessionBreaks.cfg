\* Connecting fails, chunks are too large, connections break at any time; the queue is the
\* smallest with which the task is always told: two places more than MaxTraffic.
SPECIFICATION FairSpec
CONSTANTS
    p1 = p1
    p2 = p2
    Pcbs = {p1, p2}
    NULL = NULL
    QueueLen = 5
    MboxSize = 8
    MaxTraffic = 3
    Faults = {"dns", "dns_zero", "tls_mem", "hostname", "connect", "write", "oversize", "recv_err", "lower_err"}
    Timely = TRUE
INVARIANT TypeOK
INVARIANT NeverWaitsForNobody
INVARIANT SessionOwnsConnection
INVARIANT NoDoubleAbort
PROPERTY RoundsSpec
PROPERTY SessionsRepeat
PROPERTY OnlyAbortHalts
CHECK_DEADLOCK FALSE
