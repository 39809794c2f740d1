CONSTANTS
    Attrs <- MCAttrs
    InodeArgs <- MCInodeArgs
    ULongWidth = 7
    UIntWidth = 4
    BlockSize = 4
    DeviceBytes = 1000
    SizeArgIsInt = FALSE
    IntWidth = 16
    Faults = FALSE
    ReadSizes = {0, 3, 7}
    Offsets <- SeekOffsets
    MaxPtr = 12
    Overreads = {0, 1, 2}
    None = None
SPECIFICATION Spec
INVARIANT TypeOK ReadDelivers OverreadAligned BufferTiled OpensNamedAttribute
