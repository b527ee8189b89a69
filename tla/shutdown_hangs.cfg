\* One thread and a real mutex: shutdown never returns.
SPECIFICATION FairSpec
CONSTANTS
    t1 = t1
    t2 = t2
    t3 = t3
    Threads = {t1}
    Main = t1
    NoOne = NoOne
    RealMutex = TRUE
    Instrumented = TRUE
    InitArgs <- BufferOfTwo
    Faults = {}
    Readers = FALSE
    MaxFd = 1
    ProgramFds = {0}
    MaxCalls = 1
    Bound <- OneLife
    Stale = Stale
    Torn = Torn
CHECK_DEADLOCK FALSE
PROPERTIES
    ShutdownReturns
