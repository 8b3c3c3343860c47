SPECIFICATION NvtxSpec
CONSTANTS
    Threads = {t1, t2}
    MaxDepth = 3
    Careful = TRUE
INVARIANTS
    RangesMatch
    FlagFollowsPauses
