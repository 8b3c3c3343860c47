SPECIFICATION Spec
CONSTANTS
    Null = Null
    None = None
    Unresolved = Unresolved
    HostPtr = HostPtr
    small = small
    mid = mid
    large = large
    NbIOTensors = 2
    Inputs = {0}
    Outputs = {1}
    Dynamic = {0}
    Shapes <- MCShapes
    Bytes <- MCBytes
    FlatShape <- MCFlatShape
    Profiles = {0}
    Admits <- MCAdmits
    MaxShape <- MCMaxShape
    OutShape <- MCOutShape
    UserPtr = {}
    Streams = {Internal}
    Internal = Internal
    Configs <- AllConfigs
    Faults = {"alloc"}
    MaxAllocs = 2
CHECK_DEADLOCK FALSE
INVARIANTS
    FrozenBound
    LaunchCurrent
    LaunchLive
PROPERTIES
    TensorMapIsBuffers
