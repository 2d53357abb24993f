CONSTANTS
    Users = {u1, u2}
    Streams = {s1, s2}
    Logins = {r1}
    Buffer = 2
    MaxEmits = 1
SPECIFICATION Spec
SYMMETRY Symmetry
INVARIANTS BroadcastNeverPanics PresenceIsKnown KickedClientsWereTold
