SPECIFICATION VoxelSpec
CONSTANTS
    BatchSize = 2
    MaxNumPoints = 3
    MaxPointsPerVoxel = 2
    MaxPillarNum = 2
    GridSize = 3
    Padding = 1
    PointsSizes <- MCPointsSizes
    PointValues = {4, 5}
    Careful = FALSE
    Stale = Stale
    OutOfRange = OutOfRange
CHECK_DEADLOCK FALSE
INVARIANTS
    PillarInBatch
