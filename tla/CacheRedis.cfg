\* Two instances, a reader and a writer of one key; one command may fail.
CONSTANTS
    Keys = {k1}
    MaxEntries = 1
    Instances = {i1, i2}
    Readers = {r1}
    Writers = {w1}
    MaxVersion = 2
    MaxFailures = 1
SPECIFICATION RSpec
SYMMETRY Symmetry
INVARIANTS
    SharedPayloadsAreCurrent
    NobodyIsAhead
    FallbackPayloadsAreCurrent
