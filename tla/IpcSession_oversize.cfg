\* One bus; a batch of its frames is over 1 MiB.
CONSTANTS
    None = None
    MaxPending = 1
    HighWater = 1
    MayOversize = TRUE
    MaxRequests = 1
SPECIFICATION FairSpec
PROPERTIES
    PendingFramesFlow
