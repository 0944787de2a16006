SPECIFICATION Spec
CONSTANTS
    Pages = {p1, p2, p3}
    Slots = {s1, s2}
    DiskMax = 1
    MaxReads = 2
    MaxStream = 1
    MaxQueue = 1
    None = None
    Torn = Torn
    Bad = Bad
INVARIANTS SlotsOwned PagesOnDisk
PROPERTIES Promise AlwaysReturns
CHECK_DEADLOCK FALSE
