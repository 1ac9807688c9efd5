SPECIFICATION VdspSpec
CONSTANTS
    Threads = {t1, t2}
    Handles = {h1, h2}
    NoThread = noThread
    BinderThread = binderThread
    NoHandle = noHandle
    WorkTypes = {normal}
    MaxType = maxType
    Kinds = {"send", "power"}
    FdCount = 2
    MaxDeaths = 0
    CountDepth = 1
    Overlap = "none"
    CloseBusy = FALSE
    OpenFails = FALSE
    CloseFails = TRUE
    NullBinderOk = FALSE
INVARIANTS
    CloseClosesDevice
