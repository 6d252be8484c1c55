SPECIFICATION FairSpec
CONSTANTS
    f1 = f1
    f2 = f2
    Names <- MCNames
    Versions = {v1, v2}
    None = None
    MaxFaults = 3
INVARIANTS
    SpecializeInv
PROPERTIES
    CopiedBeforeDelete
    EventuallyUnpacked
