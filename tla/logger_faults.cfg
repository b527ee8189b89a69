\* Two threads, a real mutex, every fault, file or pipe or an invalid
\* configuration: main may hang in shutdown, so the system may stop.
SPECIFICATION Spec
CONSTANTS
    t1 = t1
    t2 = t2
    t3 = t3
    Threads = {t1, t2}
    Main = t1
    NoOne = NoOne
    RealMutex = TRUE
    Instrumented = TRUE
    InitArgs <- AnyConfig
    Faults = {"mutex", "malloc", "path", "open", "write"}
    Readers = TRUE
    MaxFd = 1
    ProgramFds = {0}
    MaxCalls = 2
    Bound <- OneLife
    Stale = Stale
    Torn = Torn
CHECK_DEADLOCK FALSE
INVARIANTS
    MutualExclusion
    LogOrder
PROPERTIES
    ImplementsCallSiteLog
