SPECIFICATION MCSpec
CONSTANTS
    w1 = w1
    w2 = w2
    p1 = p1
    p2 = p2
    Keys = {1, 2}
    Labels = {1, 2}
    Writers = {w1, w2}
    MaxTick = 3
    DefaultLimit = 2
    MinDiaryWindow = 1
    DiaryWindowFactor = 1
    NoRow = NoRow
    Unknown = Unknown
    Openers = {w1, w2}
    OldRows = {p1, p2}
    OldVersions = {0, 4, 6}
    MaxOpens = 3
    Projects = {p1, p2}
    Points = {1, 2}
    Clients = {w1, w2}
    MaxRequests = 2
    Dims = {1, 2}
    MIGRATED_DIM = 1
    NoPoint = NoPoint
    NoShape = NoShape
    Names = {p1, p2}
    Chunks = {k1, k2}
    Extractors = {w1, w2}
    MaxSteps = 3
    MAX_CHUNKS = 1
    MinFetch = 3
    b1 = b1
    b2 = b2
    b3 = b3
    b4 = b4
    Plain = {b1}
    Images = {b2}
    Caches = {b3}
    Shared = {b4}
    Db = Db
    Wal = Wal
    MaxCommits = 1
    MaxEdits = 1
    MaxBackups = 1
    MaxRestores = 1
    NoArchive = NoArchive
    Pictures = {b1, b2, b3}
    Watched = {b1}
    Bytes = {p1, p2}
    Viewers = {w1, w2}
    MAX_IMAGES = 1
    MaxShots = 2
    MaxAsks = 2
    Watcher = Watcher
    NoPicture = NoPicture
    NoBytes = NoBytes
INVARIANTS
    StoresTypeOK
    StoresAgree
    MigrationsAreSafe
    
    DeletedIsGone
    GraphIsKept
    
    
    ImagesAreFound
PROPERTIES
    CreationTimeIsKept
SYMMETRY MCSymmetry
CHECK_DEADLOCK FALSE
