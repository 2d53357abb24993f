\* Two readers against two writers, with more keys than the map has room for.
CONSTANTS
    Keys = {k1, k2, k3}
    MaxEntries = 2
    Readers = {r1, r2}
    Writers = {w1, w2}
    MaxVersion = 2
SPECIFICATION Spec
SYMMETRY Symmetry
INVARIANTS
    CachedPayloadsAreCurrent
    AnswersSeeAnnouncedWrites
    MapIsBounded
