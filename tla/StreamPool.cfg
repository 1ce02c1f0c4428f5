CONSTANTS
    Callers = {c1, c2, c3, c4}
    NumStreams = 2
    NoCaller = NoCaller
    NoStream = NoStream
SPECIFICATION FairPoolSpec
INVARIANTS
    FrontBacked
    DestroyedQuiescent
PROPERTIES
    ImplementsLease
    DrainCompletes
    PoolProgress
CHECK_DEADLOCK FALSE
