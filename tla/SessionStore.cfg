\* One account in one browser, two sessions, one revocation and one stream.
CONSTANTS
    Users = {u1}
    LegacyUsers = {}
    Browsers = {b1}
    Requests = {r1, r2}
    Streams = {s1}
    MaxSid = 2
    MaxRevision = 1
SPECIFICATION FairSpec
INVARIANTS
    NoSessionOutlivesRevocation
    ResetPasswordSticks
PROPERTIES
    LogoutEndsOnlyItsOwnSession
    ImplementsLifecycle
    StaleStreamsAreClosed
CHECK_DEADLOCK FALSE
