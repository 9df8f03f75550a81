SPECIFICATION Spec
CONSTANTS
    Process = {p1, p2}
    PR = {n1}
    Lane = {l1}
    Under <- AllPRs
    Wants <- Reads
    Outcomes = {"ok", "error"}
    Graphite = {TRUE}
    Lag = FALSE
    Queue = FALSE
    Interval = 3
    ReadBudget = 3
    PollBudget = 6
    PushLag = 80
    LeaseTTL = 120
    KeepFor = 150
    Limit = 3
    Epoch = 200
    MaxTime = 207
    MaxHead = 1
    Age = {3}
    After = {FALSE}
    Patient = {TRUE}
    Named = {{}}
    Prefixes = {{l1}}
INVARIANTS ListingsAreRecent
SYMMETRY Ids
CHECK_DEADLOCK FALSE
