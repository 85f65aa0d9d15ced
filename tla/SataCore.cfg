\* Five sectors, addresses of 3 (28 bits) and 4 bits (32), counts of up to 2
\* (28 bits) and 3 (48 bits): 3 plus 2 is the end of the disk, 30 loses its upper
\* bits and 14 plus 3 wraps to 1.  An event queue that is full at two entries,
\* data of two writes in the write buffer.
SPECIFICATION Spec
CONSTANTS
    NOR_MAX = 2
    EXT_MAX = 3
    NOR_LBAS = 8
    UINT32 = 16
    MAX_LBA = 4
    EQ_LIMIT = 2
    WR_BUFS = 2
    Lbas = {3, 30}
    Fields = {0, 1, 2}
INVARIANTS TransfersSound
PROPERTIES  EveryCommandEnds
