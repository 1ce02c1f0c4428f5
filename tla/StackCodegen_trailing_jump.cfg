CONSTANTS
    Labels <- MCLabels
    Programs <- Jumping
    Expected = 1
SPECIFICATION GenSpec
INVARIANT NotTakenContinues
CHECK_DEADLOCK FALSE
