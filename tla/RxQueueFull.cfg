\* One event more than the queue holds, and another that ends the connection.
SPECIFICATION FairPathSpec
CONSTANTS
    CIRC_BUFF_SZ = 4
    ChunkLens = {1}
    ReadSizes = {2}
    MaxResponse = 3
    MaxStream = 6
    QueueLen = 4
    MaxAcks = 1
PROPERTY NextConnectionFollows
CHECK_DEADLOCK FALSE
