SPECIFICATION Spec
CONSTANTS
    k1 = k1
    k2 = k2
    early = early
    b1 = b1
    b2 = b2
    b3 = b3
    Keys <- MCKeys
    Content <- MCContent
    Rename <- MCRename
    Buffers <- MCBuffers
    Capacity = 1
    DiskMax = 2
    MaxQueue = 0
    RereadPending = TRUE
    None = None
INVARIANTS PoolDisjoint
CHECK_DEADLOCK FALSE
