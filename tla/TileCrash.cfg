SPECIFICATION Spec
CONSTANTS
    NoRow = NoRow
    NoTile = NoTile
    Reconciler = reconciler
    Tiles = {t1}
    Pixels = {x1, x2}
    Palette = {1}
    Painters = {p1}
    Viewers = {v1}
    Ids <- MCIds
    MaxTiles = 1
    PixelChunk = 1
    ReconcileLimit = 1
    Seeded = {t1}
    Faults = {"db", "crash"}
    MaxPaints = 2
    MaxLoads = 1
    MaxScans = 1
INVARIANTS TypeOK NeverStoredIsFound
PROPERTIES PromiseKept
