SPECIFICATION Spec
CONSTANTS
    Process = {p1, p2, p3}
    Name = {a, b}
    NoName = NoName
    NoRun = NoRun
    a = a
    b = b
    p1 = p1
    p2 = p2
    p3 = p3
    Claimable <- Lines
    Tasks <- Rebases
    MaxSaves = 3
    MaxWaits = 1
    MaxDeaths = 0
    MaxGone = 1
INVARIANTS Apart
CHECK_DEADLOCK FALSE
