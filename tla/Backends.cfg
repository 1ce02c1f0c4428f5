CONSTANTS
    UnaryFn <- MCUnaryFn
    BinaryFn <- MCBinaryFn
    PixelAt <- MCPixelAt
    Geometries <- AllGeometries
    Families <- AllFamilies
    Inputs = 2
    Buffers = 1
    PropValue = 4
    MaxSample = 3
    MaxDepth = 9
    MaxValue = 20
    Excluded <- Known
SPECIFICATION Spec
INVARIANTS
    BackendsAgree
    LoadsStayInside
    EveryPixelOnce
PROPERTIES
    SortsAsDocumented
CHECK_DEADLOCK FALSE
