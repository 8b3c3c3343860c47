SPECIFICATION MemorySpec
CONSTANTS
    Null = Null
    None = None
    device_buffer = device_buffer
    pinned_buffer = pinned_buffer
    page = page
    Objects = {o1}
    Blocks = {b1, b2, b3}
    Extern = {device_buffer}
    ExternKind <- MCExternKind
    ExternSize <- MCExternSize
    Types = {"DEVICE"}
    Sizes = {0, 1, 4}
    Faults = {}
SYMMETRY MCSymmetry
CHECK_DEADLOCK FALSE
INVARIANTS
    ViewOwnsNothing
