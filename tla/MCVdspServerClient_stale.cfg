SPECIFICATION VdspSpec
CONSTANTS
    Threads = {t1, t2}
    Handles = {h1, h2}
    NoThread = noThread
    BinderThread = binderThread
    NoHandle = noHandle
    WorkTypes = {normal}
    MaxType = maxType
    Kinds = {"send"}
    FdCount = 2
    MaxDeaths = 1
    CountDepth = 1
    Overlap = "any"
    CloseBusy = FALSE
    OpenFails = FALSE
    CloseFails = FALSE
    NullBinderOk = FALSE
SYMMETRY Symmetry
INVARIANTS
    OldHandlesRefused
CHECK_DEADLOCK FALSE
