CONSTANTS
    Labels <- MCLabels
    Names <- MCNames
    Programs <- Either
SPECIFICATION FairSpec
INVARIANTS
    NoUninitialisedRead
    UninitialisedIsJustified
    ReallocationThroughStart
PROPERTIES
    AnalysisEnds
CHECK_DEADLOCK FALSE
