\* Two requests, an executive, two teams, and outcomes of every kind.
CONSTANTS
    Requests = {r1, r2}
    Execs = {x1}
    Teams = {t1, t2}
    Outcomes = {"NOT_CONNECTED", "CLOSED_WON", "CLOSED_LOST"}
    MaxTime = 1
SPECIFICATION Spec
SYMMETRY Symmetry
INVARIANTS
    ClosedHasTime
    WonHasRevenue
    LeadFollowsExec
    NobodyIsWaitedFor
PROPERTY ClosingTimeIsKept
