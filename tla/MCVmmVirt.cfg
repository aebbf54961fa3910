CONSTANTS
    PageSize = 4
    BitmapBits = 6
    KernelEnd = 18
    AddrSize = 256
    DirSize = 8
    TableSize = 4
    FramesSize = 1
    Entries = 14
    FieldSize = 16
    Ranges <- MCRanges
SPECIFICATION Spec
INVARIANTS VirtPhysTranslates
CHECK_DEADLOCK FALSE
