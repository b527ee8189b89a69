\* Three threads, a buffer of two or a configuration that turns logging off, a
\* real mutex, short writes and no shutdown (which hangs): every call returns.
SPECIFICATION FairSpec
CONSTANTS
    t1 = t1
    t2 = t2
    t3 = t3
    Threads = {t1, t2, t3}
    Main = t1
    NoOne = NoOne
    RealMutex = TRUE
    Instrumented = TRUE
    InitArgs <- TwoOrInvalid
    Faults = {"write"}
    Readers = FALSE
    MaxFd = 1
    ProgramFds = {0}
    MaxCalls = 1
    Bound <- NoShutdown
    Stale = Stale
    Torn = Torn
INVARIANTS
    TypeOK
    NoLeakedLock
    OverrunBound
PROPERTIES
    ImplementsCallSiteLog
    FullIsFlushed
    CallsReturn
