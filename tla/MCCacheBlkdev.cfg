SPECIFICATION FairSpec
CONSTANTS
    NBlocks = 3
    Data = {d1, d2}
    MAX_CHAINS = 2
    MayDisable = FALSE
INVARIANTS
    ChainsWellFormed
PROPERTIES
    ReadReturnsView
    ReadsLeaveView
    CallReturns
    ImplementsOverlay
