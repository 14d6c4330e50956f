\* Three faults of every kind.
CONSTANTS
    None = None
    MaxFaults = 3
    SpawnMayFail = TRUE
    BadFrames = TRUE
SPECIFICATION FairSpec
INVARIANTS
    TypeOK
    NoOrphan
    OneEngine
    RequestsReachLatest
PROPERTIES
    Recovers
    DisconnectIsNoticed
