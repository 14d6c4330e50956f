\* Two buses on two interfaces and two jobs; joins complete.
CONSTANTS
    i1 = i1
    i2 = i2
    x = x
    y = y
    j1 = j1
    j2 = j2
    None = None
    Ifaces = {i1, i2}
    BusIds = {x, y}
    JobIds = {j1, j2}
    JoinMayTimeOut = FALSE
SPECIFICATION Spec
SYMMETRY Symmetry
INVARIANTS
    TypeOK
    OneSocketPerIface
    ClosedIsSilent
    RegistriesAgree
    StoppedJobIsSilent
PROPERTIES
    BusesAreIsolated
