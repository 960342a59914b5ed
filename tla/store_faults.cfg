SPECIFICATION Spec

CONSTANTS
    k1 = k1
    k2 = k2
    v1 = v1
    v2 = v2
    Tombstone = Tombstone
    NoINode = NoINode
    NoSnapshot = NoSnapshot
    BadSnapshot = BadSnapshot
    Keys <- MCKeys
    Values <- MCValues
    InodeNum <- MCInodeNum
    SegSize <- MCSegSize
    Header = 1
    RegionThreshold = 4
    MaxRegion = 3
    Ttls = {0, 1}
    Exits = {"close", "export", "crash"}
    Faults = {"append", "create"}
    MaxRecords = 2
    MaxClock = 2

INVARIANTS
    TypeOK
    IndexBacked

CHECK_DEADLOCK FALSE
