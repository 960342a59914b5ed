SPECIFICATION FairSpec

CONSTANTS
    c1 = c1
    c2 = c2
    k1 = k1
    d1 = d1
    s1 = s1
    s2 = s2
    Secrets = {s1, s2}
    NoSecret = NoSecret
    Clients = {c1, c2}
    Keys = {k1}
    Kinds = {"list"}
    Data = {d1}
    Zero = Zero
    Configs <- OneConfig
    Ends = {"signal"}
    Faults = {"refuse"}
    NoFile = NoFile
    NoItem = NoItem
    MaxLog = 3

INVARIANTS
    TypeOK
    HonestAnswers

PROPERTIES
    ServesKV
    Answered
    ShutdownEnds
