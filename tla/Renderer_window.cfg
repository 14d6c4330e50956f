SPECIFICATION Spec
CONSTANTS
    Names = {vcan0, vcan1}
    NoName = NoName
    MaxCalls = 4
    MaxCrashes = 1
    LastBusName = vcan0
    Hydrated = 1
INVARIANTS
    TypeOK
    ShownMirrorsOpen
    RowsMirrorJobs
    DbcShownIsLoaded
PROPERTIES
    SwitchSwapsCatalog
CHECK_DEADLOCK FALSE
