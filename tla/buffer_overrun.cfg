\* Two threads insert before either flushes: the buffer outgrows max_records.
SPECIFICATION Spec
CONSTANTS
    t1 = t1
    t2 = t2
    t3 = t3
    Threads = {t1, t2}
    Main = t1
    NoOne = NoOne
    RealMutex = TRUE
    Instrumented = TRUE
    InitArgs <- BufferOfTwo
    Faults = {}
    Readers = FALSE
    MaxFd = 1
    ProgramFds = {0}
    MaxCalls = 2
    Bound <- OneInit
    Stale = Stale
    Torn = Torn
INVARIANTS
    NoOverrun
