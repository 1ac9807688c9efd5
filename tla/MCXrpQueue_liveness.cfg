SPECIFICATION XrpSpec
CONSTANTS
    Threads = {t1, t2}
    Requests = {r1, r2}
    Worker = worker
    None = none
    ThreadStarts = {TRUE}
    GroupArgs = {FALSE}
PROPERTIES
    WaitReturns
    ImplementsOrderedChannel
    UnreferencedQueueIsFreed

