SPECIFICATION FairSpec
CONSTANTS
    Job = {j1}
    NoJob = NoJob
    Commit = {c1, c2}
    NoCommit = NoCommit
    Holder = {h1}
    NoHold = NoHold
    TreeSize = 3
    Readmit = 1
    MoveRoot = TRUE
    External = {"edit", "commit", "branch", "holder", "unlock", "move", "delete", "prune"}
    MaxExternal = 2
    MaxCrash = 1
INVARIANTS TypeOK ProvenWhileDeleting StraysAreBounded MarkerIsJournaled HiddenIsOwned PinnedWhileDeleting
PROPERTIES HaltFreezes RemovalEnds
CHECK_DEADLOCK FALSE
