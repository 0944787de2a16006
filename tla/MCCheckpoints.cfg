SPECIFICATION Spec
CONSTANTS
    k1 = k1
    k2 = k2
    early = early
    b1 = b1
    b2 = b2
    b3 = b3
    Keys <- MCKeys
    Content <- MCContent
    Rename <- MCRename
    Buffers <- MCBuffers
    Capacity = 1
    DiskMax = 2
    MaxQueue = 0
    RereadPending = FALSE
    None = None
INVARIANTS TypeOK PoolDisjoint CheckpointsSound
PROPERTIES DeferredReleased
CHECK_DEADLOCK FALSE
