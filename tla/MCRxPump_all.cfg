\* Two buses share a batch; recv threads, a cyclic job and one-shot sends share the queues.
CONSTANTS
    b1 = b1
    b2 = b2
    loop = loop
    recv1 = recv1
    recv2 = recv2
    job1 = job1
    Buses = {b1, b2}
    Order <- InOrderOpened
    Threads = {loop, recv1, recv2, job1}
    Loop = loop
    Feeds <- FeedsOf
    NoFrame = NoFrame
    Capacity = 2
    BatchMax = 3
    MaxMade <- FramesOf
SPECIFICATION FairSpec
INVARIANTS
    TypeOK
    Accounted
    PerThreadOrder
    DiscardedOnlyIfOvertaken
    FairShare
PROPERTIES
    QueuesEmpty
