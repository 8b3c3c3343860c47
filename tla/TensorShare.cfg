SPECIFICATION TensorSpec
CONSTANTS
    Null = Null
    None = None
    Unsized = Unsized
    small = small
    large = large
    device_buffer = device_buffer
    Tensors = {t1, t2, t3}
    Objects = {o1}
    Blocks = {b1, b2}
    Shapes <- MCShapes
    Bytes <- MCBytes
    Extern = {device_buffer}
    ExternKind <- MCExternKind
    ExternSize <- MCExternSize
    Types = {"DEVICE"}
    Sizes = {0}
    Faults = {}
SYMMETRY MCSymmetry
CHECK_DEADLOCK FALSE
INVARIANTS
    TensorTypeOK
    TensorsOwnMemory
    CapacityBacked
    TransferInBounds
