SPECIFICATION FairSpec
CONSTANTS
    NoRow = NoRow
    NoTile = NoTile
    Reconciler = reconciler
    Tiles = {t1}
    Pixels = {x1}
    Palette = {1}
    Painters = {p1}
    Viewers = {}
    Ids <- MCIds
    MaxTiles = 1
    PixelChunk = 1
    ReconcileLimit = 1
    Seeded = {}
    Faults = {}
    MaxPaints = 1
    MaxLoads = 0
    MaxScans = 0
PROPERTY DirtyIsFlushed
