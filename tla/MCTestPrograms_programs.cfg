SPECIFICATION ProgramsSpec
CONSTANTS
    Widths = {1, 2, 3}
    Heights = {1, 2}
    FrameSizes <- MCFrameSizes
    Pitch = 2
    Cuts = {0, 1, 2, 3, 4, 6, 30}
    MaxLoops = 2
    Cells = {c1, c2, c3}
    Inners = {i1, i2, i3}
    Null = Null
    Garbage = Garbage
    MaxTimes = 1
    IonThreads = {t1, t2}
    MaxFd = 4
CHECK_DEADLOCK FALSE
INVARIANTS
    WrittenIsRead
    TruncatedIsRefused
    ConversionsKeepPixels
    EndsOnlyWhenDone
    HandlesExact
    IonFilesExact
PROPERTIES
    TestEnds
