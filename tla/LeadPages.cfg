CONSTANTS
    Leads = {1, 2, 3}
    Grouped = {g1, g2, g3}
    Keys = {1, 2}
    Times = {1, 2}
    Sorts = {"name", "oldest", "recent", "status", "stage", "value", "analyst", "newest", "salesExecTransfers", "leadTransfers", "export"}
    Dash = 3
    Limit = 1
    MaxMoved = 1
    ToLower <- MCToLower
    MaxKept = 1
    Buckets = {1, 2, 3}
    Dimensions = {"reasons", "attributionMix", "analystLeadStats", "salesExecOutcomes"}
    BucketLimit = 1
    MaxOffset = 1
    MaxPages = 4
    Exporters = {x1, x2}
    Exports = {e1, e2, e3}
    LockTime = 1
    MaxClock = 2
SPECIFICATION PagingSpec
SYMMETRY GroupedSymmetry
INVARIANTS NoLeadTwice NoLeadMissed TotalIsTheWalk NoBucketTwice NoBucketMissed ExportsAreSerial
CHECK_DEADLOCK FALSE
