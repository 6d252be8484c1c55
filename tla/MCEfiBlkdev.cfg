SPECIFICATION Spec
CONSTANTS
    NBlocks = 5
    Data = {d1, d2}
    CACHE_SIZE = 2
INVARIANTS
    WindowInv
PROPERTIES
    ReadCurrentUnlessStale
