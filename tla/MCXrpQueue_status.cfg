SPECIFICATION XrpSpec
CONSTANTS
    Threads = {t1}
    Requests = {r1}
    Worker = worker
    None = none
    ThreadStarts = {TRUE}
    GroupArgs = {FALSE}
CHECK_DEADLOCK FALSE
INVARIANTS
    SuccessMeansAnswered
