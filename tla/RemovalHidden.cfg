SPECIFICATION Spec
CONSTANTS
    Job = {j1}
    NoJob = NoJob
    Commit = {c1, c2}
    NoCommit = NoCommit
    Holder = {h1}
    NoHold = NoHold
    TreeSize = 1
    Readmit = 1
    MoveRoot = FALSE
    External = {"commit"}
    MaxExternal = 1
    MaxCrash = 0
PROPERTIES HiddenAtCapturedHead
CHECK_DEADLOCK FALSE
