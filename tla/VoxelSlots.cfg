SPECIFICATION VoxelSpec
CONSTANTS
    BatchSize = 2
    MaxNumPoints = 3
    MaxPointsPerVoxel = 2
    MaxPillarNum = 2
    GridSize = 3
    Padding = 1
    PointsSizes <- MCPointsSizes
    PointValues = {4, 5}
    Careful = TRUE
    Stale = Stale
    OutOfRange = OutOfRange
INVARIANTS
    SlotsOwned
    PillarsComplete
    FeaturesCurrent
