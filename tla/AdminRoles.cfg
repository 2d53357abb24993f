\* Two requests among three accounts of three roles.
CONSTANTS
    People = {p1, p2, p3}
    Roles = {"SUPERADMIN", "ANALYST_TEAM_LEAD", "LEAD_ANALYST"}
    Requests = {r1, r2}
SPECIFICATION Spec
SYMMETRY Symmetry
INVARIANTS
    SuperadminRemains
PROPERTY SuperadminsAnswerToSuperadmins
CHECK_DEADLOCK FALSE
