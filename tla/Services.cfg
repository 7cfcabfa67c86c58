SPECIFICATION ServicesSpec
CONSTANTS
    Users = {u, v}
    Sessions = {s, t}
    Tokens = {k}
    Requests = {a, b}
    Existing = {}
    NoUser = NoUser
    NoSession = NoSession
    NoToken = NoToken
    MaxOps = 3
    People <- MCPeople
    Addresses = {"x", "y", "z"}
    Tickets = {"t1"}
    Moderators = {"u1"}
    Admins = {"u1"}
    Registration <- RegisteredAt
    FirstLogin <- LoggedInFrom
    BanOnBannedIp = TRUE
    NoTicket = NoTicket
    Failures = TRUE
    MaxModOps = 2
    Reasons = {"headless", "regular"}
    Weight <- Weights
    Headless = "headless"
    Samples = 2
    Challenges = {"c"}
    Settings <- MCSettings
    DefaultSettings <- MCDefaults
    MaxBotOps = 4
    MaxFailures = 1
    MaxRestarts = 1
    Accounts = {1, 2}
    NoAccount = 0
    PageSize = 2
    Roles = {"plain", "booster"}
    OverrideForSpecial = FALSE
    LinkStates = {"s"}
    MaxGuildOps = 2
    MaxChanges = 2
    MaxConnects = 1
    MaxInAll = 4
    Source <- Legacy
    Cities <- Dump
    Names = {"n1", "u1"}
    MaxId = 6
    Batch = 2
    ImportBatch = 2
    SystemUsers = 2
    MaxRuns = 2
    MaxInserts = 2
    Towns <- MCTowns
    Places <- Grid
    Pixels <- Asked
    Maps <- MCMaps
    MaxFailedLoads = 2
    MaxImports = 1
    MaxQueries = 2
INVARIANTS
    ServicesTypeOK
    EndedSessionsAreRefused
    RecursionIsBounded
    ScoreIsItsReasons FlaggedIsCounted SettingsFollowTheStore
    CooldownsFollowRoles SyncRepairs
    CopiesExactly SequencesAhead
    AnswersAreNearest
PROPERTIES
    SpentTokensAreDead CascadeCovers NoticeFollowsAction
SYMMETRY Symmetry
CHECK_DEADLOCK FALSE
