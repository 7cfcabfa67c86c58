SPECIFICATION FairSpec
CONSTANTS
    NoRow = NoRow
    NoTile = NoTile
    Reconciler = reconciler
    Tiles = {t1, t2}
    Pixels = {x1}
    Palette = {1}
    Painters = {p1}
    Viewers = {}
    Ids <- MCIds
    MaxTiles = 1
    PixelChunk = 1
    ReconcileLimit = 1
    Seeded = {t1}
    Faults = {}
    MaxPaints = 2
    MaxLoads = 0
    MaxScans = 1
PROPERTIES TasksEnd 
