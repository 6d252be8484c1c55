SPECIFICATION FairSpec
CONSTANTS
    Updates = {u1, u2}
    NoUpdate = NoUpdate
    Lost = Lost
    MaxFaults = 3
INVARIANTS
    SealedForDbx
    PatchOnlyWithUnsealedKeys
    NeverAskedWithoutFaults
PROPERTIES
    NoUpdateSkipped
    UpdateNotLost
    BootEnds
