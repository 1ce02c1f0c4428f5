CONSTANTS
    Labels <- MCLabels
    Props <- MCProps
    Arrays <- MCArrays
    Indices <- MCIndices
    Sources <- MCSources
    Calls <- MCCalls
    MaxFrames = 2
SPECIFICATION Spec
INVARIANTS
    HandlesBalance
    PropsAsWritten
    ArraysHold
    AcceptedCompiles
CHECK_DEADLOCK FALSE
