SPECIFICATION Spec
CONSTANTS
    NoRow = NoRow
    NoTile = NoTile
    Reconciler = reconciler
    Tiles = {t1, t2}
    Pixels = {x1}
    Palette = {1}
    Painters = {p1, p2}
    Viewers = {v1}
    Ids <- MCIds
    MaxTiles = 1
    PixelChunk = 1
    ReconcileLimit = 1
    Seeded = {t1}
    Faults = {"db"}
    MaxPaints = 2
    MaxLoads = 1
    MaxScans = 0
INVARIANTS EngineInvariant WrittenIsOwed ShownWasRecorded
SYMMETRY RequestSymmetry
