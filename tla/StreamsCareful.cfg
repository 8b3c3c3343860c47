SPECIFICATION StreamsSpec
CONSTANTS
    None = None
    Internal = Internal
    Streams = {Internal, external, other}
    Careful = TRUE
    MaxVersions = 2
    MaxRuns = 2
    MaxReads = 1
    MaxGrowths = 1
    Faults = {"record"}
CHECK_DEADLOCK FALSE
INVARIANTS
    StreamsTypeOK
    NoRace
    BufferLive
    InputCurrent
    OutputDelivered
