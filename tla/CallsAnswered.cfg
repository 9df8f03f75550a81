SPECIFICATION FairSpec
CONSTANTS
    Caller = {c1}
    Waiter = {w1}
    Job = {j1}
    Nobody = Nobody
    KeepDone = 0
    MaxBlocks = 1
INVARIANTS TypeOK FinishReachesWaiters KeptIsAwaited LeasesAreLive StoppedDidNothing
PROPERTIES StopAnswers WaitersWake
CHECK_DEADLOCK FALSE
