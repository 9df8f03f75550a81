SPECIFICATION Spec
CONSTANTS
    Process = {p1, p2}
    PR = {n1}
    Lane = {}
    Under <- AllPRs
    Wants <- Reads
    Outcomes = {"ok","low","limited","error"}
    Graphite = {TRUE}
    Lag = FALSE
    Queue = FALSE
    Interval = 3
    ReadBudget = 3
    PollBudget = 6
    PushLag = 80
    LeaseTTL = 120
    KeepFor = 150
    Limit = 3
    Epoch = 200
    MaxTime = 206
    MaxHead = 1
    Age = {3}
    After = {FALSE, TRUE}
    Patient = {TRUE}
    Named = {{n1}}
    Prefixes = {{}}
INVARIANTS AnswersAreRecent MissingIsTrue FailureIsLatest
PROPERTIES ClaimsAreSpaced RefusalsAreHeeded
SYMMETRY Ids
CHECK_DEADLOCK FALSE
