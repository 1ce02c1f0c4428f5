CONSTANTS
    Labels <- MCLabels
    Arrays <- MCArrays
    Sizes <- MCSizes
    Threshold = 1
    Programs <- MCPrograms
    MaxRounds = 9
SPECIFICATION Spec
INVARIANTS
    ConstantsHold
    SizesAgree
    PropagationEnds
    ValidProgramsAccepted
CHECK_DEADLOCK FALSE
