\* All commands, two signals at any point; a script that has
\* locked itself stops, and DriverEnds says that nothing else does.
SPECIFICATION FairSpec
CONSTANTS
    Options <- SomeOptions
    Statuses <- SomeStatuses
    MaxSignals = 2
    Interruptible = TRUE
    Faults = {"tool", "popen"}
CHECK_DEADLOCK FALSE
INVARIANTS
    TypeOK
    TimeoutIsReal
    CulpritIsNamed
    NoOrphan
    SelfLockNeedsTwo
PROPERTIES
    ImplementsPipeline
    DriverEnds
