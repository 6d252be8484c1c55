CONSTANTS
    GptBlocks = 2
    MaxEntries = 4
    Nodes <- MCNodes
    BootPart = 2
    PayloadOffset = 1
    VfatBlocks = 1
    LastLBA = 10
    LastUsable = 9
    GrubSize = 3
    MaxLen = 3
    MaxRequests = 3
    MaxFaults = 1
SPECIFICATION Spec
INVARIANTS
    HooksInv
PROPERTIES
    ReadsCoherent
    WritesConfined
CHECK_DEADLOCK FALSE
