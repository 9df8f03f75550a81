SPECIFICATION FairSpec
CONSTANTS
    c1 = c1
    c2 = c2
    Client = {c1, c2}
    Pid = {1, 2}
    Installs <- Upgrade
    Version = {1, 2}
    Release = {1, 2}
    Speaks <- Protocols
    None = None
    Free = Free
    Other = Other
    MaxDaemons = 2
    MaxMishaps = 1
INVARIANTS TypeOK SocketIsServed
PROPERTIES OnlyOutdatedStopped InstallsAlone StopEnds ClientsAnswered
CHECK_DEADLOCK FALSE
