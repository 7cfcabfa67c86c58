SPECIFICATION Spec
CONSTANTS
    NoAlliance = NoAlliance
    NoRow = NoRow
    NoUser = NoUser
    Users = {u1, u2}
    Alliances = {a, b}
    Requests = {r1, r2}
    Founded = {a}
    Failures = TRUE
    MaxOps = 4
INVARIANT BannedStayOut
SYMMETRY Symmetry
