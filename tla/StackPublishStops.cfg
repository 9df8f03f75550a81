SPECIFICATION Spec
CONSTANTS
    low = low
    top = top
    Stack <- Two
    Kinds = {"push"}
    Held = {low, top}
    Conflicting = {low}
    None = None
    MaxOutside = 1
    MaxTrunk = 2
INVARIANT AbortKeepsStops
CHECK_DEADLOCK FALSE
