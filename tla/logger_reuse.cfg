\* One thread and the mutex stubs: init, shutdown and init again, in any order.
SPECIFICATION Spec
CONSTANTS
    t1 = t1
    t2 = t2
    t3 = t3
    Threads = {t1}
    Main = t1
    NoOne = NoOne
    RealMutex = FALSE
    Instrumented = FALSE
    InitArgs <- FileOrPipe
    Faults = {"path", "open", "write"}
    Readers = TRUE
    MaxFd = 2
    ProgramFds = {0}
    MaxCalls = 2
    Bound <- TwoLives
    Stale = Stale
    Torn = Torn
INVARIANTS
    NoOverrun
    LoggingIsUsable
PROPERTIES
    ImplementsCallSiteLog
