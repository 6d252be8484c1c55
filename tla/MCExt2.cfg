CONSTANTS
    Groups = 2
    BlocksPerGroup = 9
    InodesPerGroup = 4
    Direct = 1
    PerBlock = 2
    Slots = 6
    Files <- MCFiles
    Meta = {0, 1, 9}
    MaxOps = 3
    MaxFaults = 1
SPECIFICATION Spec
INVARIANTS
    FileSystemInv
PROPERTIES
    OthersUntouched
    
CHECK_DEADLOCK FALSE
