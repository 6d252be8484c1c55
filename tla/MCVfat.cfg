SPECIFICATION Spec
CONSTANTS
    FATTypes = {"FAT12", "FAT16", "FAT32"}
    Names <- MCNames
    Upper <- MCUpper
    Vendor = "UBUNTU"
    LoaderDirs <- MCLoaderDirs
    CountOfClusters = 7
    ClusterSize = 2
    DirEnts = 5
    RootEnts = 4
    Half = 5
    Paths <- MCPaths
    Sizes = {0, 2, 3}
    MaxOps = 3
    MaxFaults = 1
INVARIANTS
    VfatInv
PROPERTIES
    ReportsTrue
    OthersKept
CHECK_DEADLOCK FALSE
