\* A program without threads, and the child that it may fork.
SPECIFICATION Spec
CONSTANTS
    r1 = r1
    r2 = r2
    c1 = c1
    main = main
    other = other
    Root = {r1, r2}
    Child = {c1}
    Thread = {main, other}
    Main = main
    None = None
    Settings <- Single
    AtomicHalves = 2
    PipeSize = 6
    MaxCalls <- Calls
CHECK_DEADLOCK FALSE
INVARIANTS
    PidIsProcess
