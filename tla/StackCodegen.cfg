CONSTANTS
    Labels <- MCLabels
    Programs <- MCPrograms
    Expected = 1
SPECIFICATION GenSpec
INVARIANTS
    AcceptedIsTyped
    HeuristicSilent
    TypedIsAccepted
    DepthsRealised
    CodeFollowsProgram
CHECK_DEADLOCK FALSE
