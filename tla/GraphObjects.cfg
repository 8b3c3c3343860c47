SPECIFICATION GraphSpec
CONSTANTS
    Null = Null
    Absent = Absent
    Empty = Empty
    Graphs = {g1, g2}
    Execs = {e1, e2}
    Streams = {s1, s2}
    Handles = {h1, h2, h3}
    Instances = {i1, i2}
    MaxCaptures = 3
    Faults = {"create", "instantiate", "invalidate", "null_graph"}
    Careful = TRUE
SYMMETRY MCSymmetry
CHECK_DEADLOCK FALSE
INVARIANTS
    GraphTypeOK
    CaptureOwned
    OwnGraph
    HandlesOwned
    InstancesShared
