\* A response of the ring's size: is_full is set before write_idx moves.
SPECIFICATION PathSpec
CONSTANTS
    CIRC_BUFF_SZ = 4
    ChunkLens = {1, 2}
    ReadSizes = {2}
    MaxResponse = 4
    MaxStream = 4
    QueueLen = 8
    MaxAcks = 1
INVARIANT DeliveredInOrder
