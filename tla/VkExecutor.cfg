CONSTANTS
    Callers = {c1, c2}
    NumStreams = 2
    NoCaller = NoCaller
    NoStream = NoStream
    Frames = {f1, f2}
    NumPlanes = 3
    Processed = {1, 3}
    NumBuffers = 2
    Blank = Blank
    Handles = {h1, h2}
    MaxFaults = 1
SPECIFICATION FairSpec
INVARIANTS
    FrameIntegrity
    StreamQuiet
    DescriptorsCurrent
    LeakNeedsFailure
PROPERTIES
    FrameAnswered
CHECK_DEADLOCK FALSE
