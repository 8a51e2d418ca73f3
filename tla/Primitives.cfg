SPECIFICATION Spec
CONSTANTS
    Fraction = 5
    Integer = 5
    WordBits = 13
    TileWidth = 2
    TileHeight = 2
    MetaWidth = 2
    MetaHeight = 2
    Workgroup = 2
    Scales = {1, 2}
    ScreenWidth = 8
    ScreenLines = 4
    RingPages = 16
    WordPages = 3
    TmemWords = 128
    PageSize = 64
    NumPages = 16
    RasterState = {r1, r2}
    BlendState = {b1}
    TileInfo = {t1, t2, t3, t4}
    MaxRasterStates = 2
    MaxBlendStates = 2
    MaxTileInfos = 3
    NumTiles = 2
    MaxPrimitives = 2
    MaxSpanJobs = 2
    MaxJobs = 1
    MaxTileInstances = 2
    MaxTiles = 1
    MaxTMEMInstances = 3
    IndexRange = 3
INVARIANTS
    UploadIsScatter
    LoadSeesMemory
    TexturesAreExact
    PixelsKeepTheirInputs
    BinningFindsEveryTile
    BlendsInOrder
    ReadbackIntact
    FramebufferKeeps
    RendererIsTold
    NoOverflow
    IndicesResolve
CHECK_DEADLOCK FALSE
