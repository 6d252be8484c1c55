SPECIFICATION Spec
CONSTANTS
    NBlocks = 2
    payload_offset = 1
    CACHE_SIZE = 1
    Vals = {0, 1}
    Key = 9
INVARIANTS
    StackInv
    DiskHoldsStored
    KeysStayInMemory
