CONSTANTS
    Frames <- MCFrames
    Filters <- MCFilters
    FilterOf <- MCFilterOf
    NumPlanes = 3
    Processed <- MCProcessed
    Key <- MCKey
    Tiles <- MCTiles
    TileOf <- MixedTiles
    NumInputs = 2
SPECIFICATION FairSpec
INVARIANTS
    CallsOwnFunction
    PublishedIsCompiled
    NoFrameLeaks
PROPERTIES
    RequestEnds
CHECK_DEADLOCK FALSE
