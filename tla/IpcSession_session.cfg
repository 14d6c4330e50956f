\* Three requests, two of them in flight at most; oversize batches happen.
CONSTANTS
    None = None
    MaxPending = 2
    HighWater = 1
    MayOversize = TRUE
    MaxRequests = 3
SPECIFICATION FairSpec
INVARIANTS
    TypeOK
    AnswersAreTrue
    BatchesOfKnownBuses
PROPERTIES
    EverySettles
    FramesReachMain
