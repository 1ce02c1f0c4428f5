SPECIFICATION Spec
CONSTANTS
    Labels = {}
    Modulus = 3
    Fuel = 8
    Samples <- MCSamples
    Programs <- MCPrograms
INVARIANTS
    AcceptedIsValid
PROPERTIES
    InliningKeepsMeaning
CHECK_DEADLOCK FALSE
