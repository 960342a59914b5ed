SPECIFICATION FairSpec

CONSTANTS
    c1 = c1
    k1 = k1
    d1 = d1
    c2 = c2
    s1 = s1
    s2 = s2
    Secrets = {s1, s2}
    NoSecret = NoSecret
    Clients = {c1}
    Keys = {k1}
    Kinds <- AllKinds
    Data = {d1}
    Zero = Zero
    Configs <- SeveralConfigs
    Ends = {"early", "listen", "collector", "crash"}
    Faults = {"stat"}
    NoFile = NoFile
    NoItem = NoItem
    MaxLog = 2

INVARIANTS
    ReadsAsWritten
    SameConfigReads

PROPERTIES
    Reopens
