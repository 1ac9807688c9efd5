SPECIFICATION VdspSpec
CONSTANTS
    Threads = {t1, t2, t3}
    Handles = {h1, h2, h3}
    NoThread = noThread
    BinderThread = binderThread
    NoHandle = noHandle
    WorkTypes = {normal, faceid}
    MaxType = maxType
    Kinds = {"send", "power"}
    FdCount = 3
    MaxDeaths = 0
    CountDepth = 1
    Overlap = "any"
    CloseBusy = FALSE
    OpenFails = FALSE
    CloseFails = FALSE
    NullBinderOk = FALSE
INVARIANTS
    OpenHandlesKeepTheirFd
