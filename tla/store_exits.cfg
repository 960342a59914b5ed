SPECIFICATION MCSpec

CONSTANTS
    k1 = k1
    k2 = k2
    v1 = v1
    v2 = v2
    Tombstone = Tombstone
    NoINode = NoINode
    NoSnapshot = NoSnapshot
    BadSnapshot = BadSnapshot
    Keys <- MCKeys
    Values <- MCValues
    InodeNum <- MCInodeNum
    SegSize <- MCSegSize
    Header = 1
    RegionThreshold = 4
    MaxRegion = 3
    Ttls = {0, 1}
    Exits = {"close", "crash"}
    Faults = {}
    MaxRecords = 4
    MaxClock = 2

INVARIANTS
    LatestWins
    IndexSound
    OffsetIsEnd

PROPERTIES
    ImplementsKV
    Reopens
