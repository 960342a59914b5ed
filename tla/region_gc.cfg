SPECIFICATION MCSpec

CONSTANTS
    w1 = w1
    w2 = w2
    Closer = Closer
    NoOne = NoOne
    Writers = {w1}
    NumRegions = 5
    Heads = {"none", "unreadable", "stale", "live"}
    MaxStarts = 2

INVARIANTS
    TypeOK

PROPERTIES
    EmptyCleanupEnds
    OthersGetThrough
    DoneEnds
    NotClosedDuringCleanup

CHECK_DEADLOCK FALSE
