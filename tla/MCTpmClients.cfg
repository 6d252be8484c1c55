CONSTANTS
    MaxSessions = 1
    MaxObjects = 2
    Nil = Nil
    Garbage = Garbage
    Dbxs = {"dbx1", "dbx2"}
    Commands = {"seal", "sealpolicy", "seallsvmloadpolicy", "seallsvmloadpolicy --secureboot", "unseal", "unseal --cap", "srk", "cappcr11", "capall"}
    MaxFaults = 2
    MaxRuns = 1
SPECIFICATION Spec
INVARIANTS
    ClientsInv
    KeysOnlyAsSealed
    PredictionsHold
