SPECIFICATION DevicesSpec
CONSTANTS
    Threads = {t1, t2}
    Buffers = {b1, b2}
    Worker = worker
    None = none
    MaxRecords = 2
    MaxOwned = 3
    Clients = {c1, c2}
    NoHandle = noHandle
    Addresses = {20, 44, 60}
    Descriptors = {0, 4, 5, 6, 7}
    Word = 16
    MaxHandles = 1
    MaxBuffers = 1
    MaxLeaks = 1
CHECK_DEADLOCK FALSE
SYMMETRY Symmetry
INVARIANTS
    GroupTypeOK
    CountersExact
    GroupNotUsedAfterFree
    CommandBuffersLive
    NothingLeaks
    DirectTypeOK
    FilesOwned
    DeviceRefsExact
    HandlesLeadToDevices
    DirectCommandsReachDriver
