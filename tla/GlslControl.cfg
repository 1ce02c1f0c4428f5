CONSTANTS
    MaxRounds = 6
    Programs <- All
SPECIFICATION Spec
INVARIANTS
    FollowsThePath
    OperandsArrive
    StructureIsSound
CHECK_DEADLOCK FALSE
