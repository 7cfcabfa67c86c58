SPECIFICATION Spec
CONSTANTS
    NoRow = NoRow
    NoTile = NoTile
    Reconciler = reconciler
    Tiles = {t1}
    Pixels = {x1, x2}
    Palette = {1}
    Painters = {p1}
    Viewers = {}
    Ids <- MCIds
    MaxTiles = 1
    PixelChunk = 1
    ReconcileLimit = 1
    Seeded = {t1}
    Faults = {}
    MaxPaints = 1
    MaxLoads = 0
    MaxScans = 0
INVARIANT GridIsTruth
