CONSTANTS
    Dirs = 8
    Entries = 8
    KERNEL_BASE = 32
    KernelStart = 3
    KernelEnd = 15
    TablesAt = 6
    VgaFrame = 2
    GdtFrame = 3
    Infos <- OneInfo
    Frames <- MCFrames
    MaxCalls = 1
SPECIFICATION Spec
INVARIANT GdtMapped
CHECK_DEADLOCK FALSE
