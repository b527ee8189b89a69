\* max_records=9.
SPECIFICATION Spec
CONSTANTS
    IntBits = 8
    Signature <- SystemCalls
    Arguments <- NineRecords
    NondetName <- Nondet
    WrapperName <- Wrappers
CHECK_DEADLOCK FALSE
INVARIANTS
    LoggingAsConfigured
