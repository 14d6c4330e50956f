\* A remembered path, its bus connected: the next save drops it.
CONSTANTS
    vcan0 = vcan0
    vcan1 = vcan1
    can0 = can0
    sample = sample
    mux = mux
    usual = usual
    other = other
    speed = speed
    engine = engine
    Names = {vcan0, vcan1, can0}
    Up = {vcan0, vcan1}
    Paths = {sample, mux}
    NoPath = NoPath
    Keep = Keep
    DefaultName = vcan0
    DefaultPath = sample
    Settings = {usual, other}
    DefaultSetting = usual
    Malformed = Malformed
    Signals = {speed}
    Definitions = {engine}
    Absent = Absent
    Partial = Partial
    InitialFiles <- Files
    MaxBuses = 2
    MaxSelected = 1
    MaxJobs = 1
    Debounce = 2
    MaxPending = 1
    MaxSteps = 3
    MaxExits = 1
    MaxFaults = 1
    MaxEvents = 4
SPECIFICATION Spec
PROPERTIES
    PathsAreKept
CHECK_DEADLOCK FALSE
