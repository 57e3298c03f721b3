\* A response longer than the ring: the room test is made on the used bytes.
SPECIFICATION PathSpec
CONSTANTS
    CIRC_BUFF_SZ = 4
    ChunkLens = {2, 3}
    ReadSizes = {2}
    MaxResponse = 8
    MaxStream = 8
    QueueLen = 8
    MaxAcks = 1
INVARIANT RefusesWithoutSpace
