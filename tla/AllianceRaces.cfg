SPECIFICATION ModesSpec
CONSTANTS
    NoAlliance = NoAlliance
    NoRow = NoRow
    NoUser = NoUser
    Users = {u1, u2, u3}
    Alliances = {a, b}
    Requests = {r1, r2}
    Founded = {a}
    Failures = TRUE
    MaxOps = 4
    RaceOps = 3
INVARIANTS TypeOK BansStopLaterJoins ActsByAdmins LoneRowsAgree
PROPERTY LoneRolesHold
SYMMETRY Symmetry
