\* Responses smaller than the ring, chunks of every size, and a queue that has
\* room for their events, for HTTPS_CONNECTED, HTTPS_SENT and the last one.
SPECIFICATION FairPathSpec
CONSTANTS
    CIRC_BUFF_SZ = 5
    ChunkLens = {1, 2, 3, 4}
    ReadSizes = {1, 3}
    MaxResponse = 4
    MaxStream = 11
    QueueLen = 7
    MaxAcks = 1
INVARIANT PathTypeOK
INVARIANT NoOverwrite
INVARIANT CountAtRest
INVARIANT NoStrandedByte
INVARIANT QueueHasRoom
INVARIANT NoRefusalAtRest
INVARIANT RingInv
INVARIANT PathInv
PROPERTY RingSpec
PROPERTY FifoSpec
PROPERTY EveryChunkAccepted
PROPERTY NextConnectionFollows
