SPECIFICATION XrpSpec
CONSTANTS
    Threads = {t1}
    Requests = {r1}
    Worker = worker
    None = none
    ThreadStarts = {FALSE}
    GroupArgs = {FALSE}
CHECK_DEADLOCK FALSE
PROPERTIES
    WaitReturns
