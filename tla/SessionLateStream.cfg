\* A stream registered after its session was replaced.
CONSTANTS
    Users = {u1}
    LegacyUsers = {}
    Browsers = {b1}
    Requests = {r1, r2}
    Streams = {s1}
    MaxSid = 2
    MaxRevision = 0
SPECIFICATION Spec
INVARIANT EveryOtherStreamIsKicked
CHECK_DEADLOCK FALSE
