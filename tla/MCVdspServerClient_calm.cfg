SPECIFICATION VdspSpec
CONSTANTS
    Threads = {t1, t2}
    Handles = {h1, h2, h3}
    NoThread = noThread
    BinderThread = binderThread
    NoHandle = noHandle
    WorkTypes = {normal, faceid}
    MaxType = maxType
    Kinds = {"send"}
    FdCount = 2
    MaxDeaths = 0
    CountDepth = 1
    Overlap = "alike"
    CloseBusy = FALSE
    OpenFails = FALSE
    CloseFails = FALSE
    NullBinderOk = FALSE
INVARIANTS
    VdspTypeOK
    FdWorkingExact
    OpenHandlesKeepTheirFd
    FdsDistinct
    OpenedCountExact
PROPERTIES
    ImplementsSharedDevice
