CONSTANTS
    Labels <- MCLabels
    Arrays <- MCArrays
    Sizes <- MCSizes
    Threshold = 1
    Programs <- LoopPrograms
    MaxRounds = 9
SPECIFICATION Spec
INVARIANT SizesAlwaysAgree
CHECK_DEADLOCK FALSE
