CONSTANTS
    Paths = {a, b}
    MaxCommands = 3
    MaxFaults = 1
SPECIFICATION MCSpec
INVARIANTS
    TextFilesRead
    KeysOpenVolumes
    ImagesChecked
    FieldsArrive
    
    ImagesInv
PROPERTIES
    CommandsExact
    InjectExact
CHECK_DEADLOCK FALSE
