\* One child, batches of one or two records, pipes that keep one record together
\* and hold three.  All stops when the programs have ended or hang;
\* NobodyWaitsForEver says what else they may stop for.
SPECIFICATION FairSpec
CONSTANTS
    r1 = r1
    r2 = r2
    c1 = c1
    main = main
    other = other
    Root = {r1, r2}
    Child = {c1}
    Thread = {main, other}
    Main = main
    None = None
    Settings <- Worlds
    AtomicHalves = 2
    PipeSize = 6
    MaxCalls <- Calls
CHECK_DEADLOCK FALSE
INVARIANTS
    TypeOK
    RecordsAreWhole
    NoDuplicates
    InOrder
    PidTellsThreads
    ReturnedIsLogged
    FlockExcludes
    ReaderIsRight
PROPERTIES
    InvalidIsReal
    NobodyWaitsForEver
