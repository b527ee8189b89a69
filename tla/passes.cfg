\* Every program of up to two calls in main and one in the helper that has
\* sources and sinks; one call of any kind in main and at most one in the helper
\* with every configuration, the odd ones too.  Libraries that get a main,
\* some of which have been through that before; the print mode on these and on a
\* program with every source and sink.  Reads and writes with
\* output files that can and cannot be opened.  clam-prov ends: PassesEnd says how.
SPECIFICATION FairSpec
CONSTANTS
    IntBits = 8
    Signature <- SystemCalls
    Arguments <- EveryRun
    NondetName <- Nondet
    WrapperName <- Wrappers
CHECK_DEADLOCK FALSE
INVARIANTS
    TypeOK
    LibraryIsReached
    PrintedAsLabelled
    ProgramPreserved
    CallSitesAreNumbered
    SinksHaveOwnWrapper
    AnalysisSeesTags
    MapIsFaithful
    EveryCallSiteIsLogged
    MainBracketsLogging
PROPERTIES
    PassesEnd
