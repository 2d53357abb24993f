\* Two accounts, one with a plain-text password; two requests, two streams.
CONSTANTS
    Users = {u1, u2}
    LegacyUsers = {u1}
    Browsers = {b1}
    Requests = {r1, r2}
    Streams = {s1, s2}
    MaxSid = 2
    MaxRevision = 0
SPECIFICATION Spec
SYMMETRY Symmetry
INVARIANT StaleStreamsAreDropped
PROPERTY DropsKeepToTheirOwn
CHECK_DEADLOCK FALSE
