SPECIFICATION Spec
CONSTANTS
    low = low
    top = top
    Stack <- Two
    Kinds = {"push", "noPush"}
    Held = {low, top}
    Conflicting = {low}
    None = None
    MaxOutside = 2
    MaxTrunk = 2
INVARIANTS TypeOK ReceiptsAreTrue ResolvedKept CheckoutsFollow
PROPERTIES OthersKept SourcesKept
CHECK_DEADLOCK FALSE
