SPECIFICATION CallSpec
CONSTANTS
    None = None
    Legacy = Legacy
    Callers = {c1, c2}
    Streams = {Legacy, s1, s2}
    NonBlocking = {s2}
    Functions = {"gather", "fuse", "pool"}
    Rows = 2
    SeqLen = 3
    ImageTokenCount = 2
    Inputs <- MCInputs
    Faults = {"malloc", "call", "launch"}
    Careful = TRUE
SYMMETRY MCSymmetry
INVARIANTS
    CallHonest
    EmbeddingsComplete
    PoolComplete
