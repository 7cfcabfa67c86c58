SPECIFICATION Spec
CONSTANTS
    Free = free
    NoUser = NoUser
    Requests = {r1, r2}
    Colors = {c}
    Flags = {f}
    Price <- MCPrice
    PicturePrice = 2
    MaxStep = 1
    ChargeStep = 3
    PixelReward = 1
    LevelDroplets = 1
    LevelMax = 1
    LevelAt <- MCLevelAt
    Full = 2
    Discounted = 1
    Regen = 2
    TimeoutTicks = 1
    StartDroplets = 2
    StartCharges = 2
    StartMax = 4
    Batches = {1, 2}
    Grants <- MCGrants
    MaxOps = 3
    MaxTime = 1
INVARIANTS TypeOK BooksBalance StaleIsOwed EnjoyedWasBought CopiesAreOld
PROPERTY SanctionsBind
SYMMETRY RequestSymmetry
