SPECIFICATION FairSpec

CONSTANTS
    k1 = k1
    k2 = k2
    v1 = v1
    t1 = t1
    t2 = t2
    t3 = t3
    Tombstone = Tombstone
    NoINode = NoINode
    NoThread = NoThread
    NoResult = NoResult
    NoItem = NoItem
    Keys = {k1}
    Values = {v1}
    InodeNum <- MCInodeNum
    SegSize <- MCSegSize
    Header = 1
    RegionThreshold = 4
    MaxRegion = 7
    Threads = {t1, t2}
    Ops = {"put", "delete", "fetch", "update"}
    Ttls = {2}
    Faults = {"append", "create"}
    Stored = {k1}
    FirstValue = v1
    MaxCalls = 4


INVARIANTS
    TypeOK
    IndexWritten
    OneWinnerPerVersion

PROPERTIES
    Returns
