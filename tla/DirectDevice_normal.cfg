SPECIFICATION DirectSpec
CONSTANTS
    Clients = {c1}
    NoHandle = noHandle
    Addresses = {20, 44}
    Descriptors = {3, 4, 5, 6}
    Word = 16
    MaxHandles = 1
    MaxBuffers = 1
    MaxLeaks = 1
CHECK_DEADLOCK FALSE
INVARIANTS
    CommandsReachDriver
