\* One bus and two jobs that contend for its lock; joins may time out.
CONSTANTS
    i1 = i1
    i2 = i2
    x = x
    y = y
    j1 = j1
    j2 = j2
    None = None
    Ifaces = {i1}
    BusIds = {x}
    JobIds = {j1, j2}
    JoinMayTimeOut = TRUE
SPECIFICATION FairSpec
PROPERTIES
    HandlersFinish
