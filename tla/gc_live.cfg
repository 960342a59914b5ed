SPECIFICATION FairSpec

CONSTANTS
    w1 = w1
    w2 = w2
    Closer = Closer
    NoOne = NoOne
    Writers = {w1, w2}
    NumRegions = 5
    Heads = {"live"}
    MaxStarts = 1

PROPERTIES
    CleanupEnds

CHECK_DEADLOCK FALSE
