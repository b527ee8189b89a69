\* The standard label of mmap.
SPECIFICATION Spec
CONSTANTS
    IntBits = 8
    Signature <- SystemCalls
    Arguments <- MmapResult
    NondetName <- Nondet
    WrapperName <- Wrappers
CHECK_DEADLOCK FALSE
INVARIANTS
    OperandsExist
