\* Everything fails, and the TCP/IP thread may be late.
SPECIFICATION Spec
CONSTANTS
    p1 = p1
    p2 = p2
    Pcbs = {p1, p2}
    NULL = NULL
    QueueLen = 2
    MboxSize = 3
    MaxTraffic = 1
    Faults = {"dns", "dns_zero", "queue_mem", "config_mem", "callback_mem", "tls_mem", "hostname", "connect", "write", "oversize", "recv_err", "lower_err", "close_mem"}
    Timely = FALSE
PROPERTY LateAbortIsHarmless
SYMMETRY PcbSymmetry
CHECK_DEADLOCK FALSE
