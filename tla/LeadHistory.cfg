\* Two requests on a new or an old lead, two changes of status and a mark.
CONSTANTS
    Requests = {r1, r2}
    Statuses = {"IRRELEVANT", "PAID"}
    Reasons = {why1, why2}
    CreatedAts = {1}
    MaxTime = 1
    MaxLog = 3
SPECIFICATION Spec
SYMMETRY Symmetry
INVARIANTS
    StatusIsInHistory
    AcceptedReasonIsStored
    HistoryIsAChain
PROPERTY MarkIsFinal
