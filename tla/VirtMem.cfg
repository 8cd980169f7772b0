CONSTANTS
    Dirs = 8
    Entries = 8
    KERNEL_BASE = 32
    KernelStart = 3
    KernelEnd = 15
    TablesAt = 6
    VgaFrame = 2
    GdtFrame = 3
    Infos <- MCInfos
    Frames <- MCFrames
    MaxCalls = 3
SPECIFICATION Spec
INVARIANTS TypeOK KernelMapped TablePointersExact MappingsHold StaleOnlyInIdentity
PROPERTY ReservedBlocksFresh
CHECK_DEADLOCK FALSE
