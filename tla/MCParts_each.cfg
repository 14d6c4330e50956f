\* Every part on its own; nothing distinguishes the two buses.
CONSTANTS
    Period = 3
    Horizon = 12
    bus1 = bus1
    bus2 = bus2
    None = None
    AnyBus = AnyBus
    Buses = {bus1, bus2}
    MaxFrame = 2
    MaxMessages = 3
    Ids = {1, 2}
    Threads = {"recv", "job"}
    KeyMax = 2
    StampTime = 2
    Frames = {"match", "other"}
    Filters <- TwoFilters
    Capacity = 3
    Budget = 2
    TraceBatch = 4
    MaxSeq = 7
    Signals = {"speed", "temp", "fuel"}
    Windows = {1, 3}
    Interval = 2
    SeriesMax = 2
    CatalogMax = 2
    Dbcs <- OneDbc
    Remembered <- OneSelection
    Live <- Decodes
    Late = 1
    GraphBatch = 1
    GraphTime = 3
    MaxCalls = 3
SPECIFICATION MCSpec
SYMMETRY BusSymmetry
INVARIANTS
    OneSendPerSlot
    StreamIsDecoded
    RateIsOfTheKey
    SeriesShowTheWindow
PROPERTIES
    PlottedAreKept
    KeepsTheLog
CHECK_DEADLOCK FALSE
