SPECIFICATION ViewsSpec
CONSTANTS
    None = None
    MaxReviews = 2
    MaxClicks = 2
    MaxFaults = 1
    Transcripts = {1, 2}
    Records <- MCRecords
    PageRecords = 2
    MaxLinks = 2
    MaxHides = 1
    MaxFailures = 1
    Folders = {1, 2}
    Parent <- MCParent
    Files = {3, 4}
    Images = {3}
    Queries = {5}
    MaxActs = 6
    MaxLost = 1
    Paths = {1, 2}
    MaxChanges = 2
    MaxMoves = 3
    MaxErrors = 1
    MaxOutput = 4
    DeviceQueries = {2}
    Retained = 2
    QueueLimit = 2
    FrameLimit = 2
    Limit = 1
    HighWater = 1
    LowWater = 1
    MaxSizes = 1
    MaxBreaks = 1
    MaxTyped = 1
    Views = {1, 2}
    Rooms = {1, 2}
    InvalidLimit = 2
    MaxLayouts = 2
    MaxLosses = 1
INVARIANTS
    
    ReviewShown
    TranscriptContiguous
    HandedInOrder
    
PROPERTIES
    PaneKeeps
    ViewsSettle
CHECK_DEADLOCK FALSE
