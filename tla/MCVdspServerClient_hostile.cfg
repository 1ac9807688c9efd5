SPECIFICATION VdspSpec
CONSTANTS
    Threads = {t1, t2}
    Handles = {h1, h2}
    NoThread = noThread
    BinderThread = binderThread
    NoHandle = noHandle
    WorkTypes = {normal}
    MaxType = maxType
    Kinds = {"send"}
    FdCount = 2
    MaxDeaths = 1
    CountDepth = 0
    Overlap = "any"
    CloseBusy = TRUE
    OpenFails = TRUE
    CloseFails = TRUE
    NullBinderOk = TRUE
INVARIANTS
    LockExclusive
    GWorkingExact
    NotClosedUnderCommands
    
PROPERTIES
    CallsReturn
CHECK_DEADLOCK FALSE
