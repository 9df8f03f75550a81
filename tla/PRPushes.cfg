SPECIFICATION Spec
CONSTANTS
    Process = {p1, p2}
    PR = {n1}
    Lane = {l1}
    Under <- AllPRs
    Wants <- Reads
    Outcomes = {"ok"}
    Graphite = {TRUE, FALSE}
    Lag = TRUE
    Queue = TRUE
    Interval = 2
    ReadBudget = 2
    PollBudget = 4
    PushLag = 80
    LeaseTTL = 120
    KeepFor = 150
    Limit = 3
    Epoch = 200
    MaxTime = 205
    MaxHead = 2
    Age = {2}
    After = {FALSE}
    Patient = {TRUE}
    Named = {{n1}, {}}
    Prefixes = {{l1}}
INVARIANTS PushesStand
PROPERTIES NothingAges
SYMMETRY Ids
CHECK_DEADLOCK FALSE
