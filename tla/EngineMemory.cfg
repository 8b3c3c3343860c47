SPECIFICATION EngineTensorSpec
CONSTANTS
    Null = Null
    None = None
    Unsized = Unsized
    small = small
    medium = medium
    large = large
    page = page
    Tensors = {t1, t2}
    Objects = {o1, o2}
    Blocks = {b1, b2, b3}
    Shapes <- MCShapes
    Bytes <- MCBytes
    Extern = {page}
    ExternKind <- MCExternKind
    ExternSize <- MCExternSize
    Types = {"DEVICE", "PINNED"}
    Sizes = {0, 2}
    Faults = {"malloc", "mallocAsync"}
SYMMETRY MCSymmetry
CHECK_DEADLOCK FALSE
INVARIANTS
    CopyAccepted
    TransferLive
    OneOwner
    ClientKeeps
PROPERTIES
    TensorsAreBuffers
