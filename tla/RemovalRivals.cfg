SPECIFICATION Spec
CONSTANTS
    Job = {j1, j2}
    NoJob = NoJob
    Commit = {c1, c2}
    NoCommit = NoCommit
    Holder = {h1}
    NoHold = NoHold
    TreeSize = 2
    Readmit = 1
    MoveRoot = TRUE
    External = {"move", "prune", "unlock", "lock", "holder", "timeout", "commit"}
    MaxExternal = 1
    MaxCrash = 1
INVARIANTS DeletesUnderOwnMarker
PROPERTIES KeepsPromise
SYMMETRY Ids
CHECK_DEADLOCK FALSE
