CONSTANTS
    People = {1, 2, 3, 4, 5}
    Cast <- MCCast
    Teams = {1, 2}
    Units = {1}
    Readers = {5}
    Requests = {r1, r2}
    BatchSize = 2
    MaxChanges = 1
SPECIFICATION QSpec
SYMMETRY Symmetry
INVARIANTS NobodyTrespasses ToldExactlyOnce
CHECK_DEADLOCK FALSE
