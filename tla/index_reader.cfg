SPECIFICATION FairSpec

CONSTANTS
    MaxEntries = 5

INVARIANTS
    TypeOK
    AllOrError
    NeverWaits

PROPERTIES
    Returns
