\* A configuration with max_records = 0: init fails, and closes descriptor 0.
SPECIFICATION Spec
CONSTANTS
    t1 = t1
    t2 = t2
    t3 = t3
    Threads = {t1}
    Main = t1
    NoOne = NoOne
    RealMutex = TRUE
    Instrumented = TRUE
    InitArgs <- OnlyInvalid
    Faults = {}
    Readers = FALSE
    MaxFd = 1
    ProgramFds = {0}
    MaxCalls = 1
    Bound <- OneInit
    Stale = Stale
    Torn = Torn
PROPERTIES
    ProgramDescriptorsKept
