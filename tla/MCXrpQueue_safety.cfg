SPECIFICATION XrpSpec
CONSTANTS
    Threads = {t1, t2}
    Requests = {r1, r2}
    Worker = worker
    None = none
    ThreadStarts = {FALSE, TRUE}
    GroupArgs = {FALSE, TRUE}
CHECK_DEADLOCK FALSE
SYMMETRY Symmetry
INVARIANTS
    XrpTypeOK
    RefCountsExact
    QueueNotUsedAfterFree
    EventNotUsedAfterFree
    RunningCommandKeepsItsObjects
    DestroyDrains
    NoLostWakeup
    AnsweredNotFailed
PROPERTIES
    SignalledOnce
