CONSTANTS
    Servers = {a, b}
    Gate = a
    Objects = {"trigramIndex", "table", "foreignKey", "column"}
    Body <- MCBody
    LoginKeys = {"k1", "k2"}
    Limit = 2
    Window = 1
    PruneAt = 2
    MaxTime = 2
SPECIFICATION Spec
INVARIANTS RecordedIsApplied RecordedInOrder ServingMeansMigrated FailuresAnsweredAreBounded RefusedForARecentReason
