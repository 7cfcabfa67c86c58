SPECIFICATION BackgroundSpec
CONSTANTS
    Keys = {"ip"}
    Kinds = {"login", "reset", "paint"}
    Refunded = {"login", "reset"}
    Limit <- MCLimit
    Window <- MCWindow
    IdleTTL = 1
    Requests = {"a", "b"}
    MaxTime = 2
    MaxChecks = 5
    StatKeys = {"k1", "k2"}
    CityOf <- MCCityOf
    Failures = TRUE
    MaxPushes = 3
    MaxDay = 1
    Entities = {1, 2}
    Countries = {2}
    CountryOf <- MCCountryOf
    Readers = {"a"}
    Top = 2
    BatchSize = 1
    MaxQueueSize = 1
    Dropped = 1
    Watched = {1}
    MaxPaints = 2
    MaxDays = 1
    MaxFailures = 1
    MaxRequests = 1
INVARIANTS BackgroundTypeOK SlidingWindow ViewIsARanking
PROPERTIES BlocksHold TallyKept EveryPushIsSettled ViewCatchesUp
CHECK_DEADLOCK FALSE
