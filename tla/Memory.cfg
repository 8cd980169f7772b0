CONSTANTS
    ByteBits = 2
    WordBytes = 2
    NBytes = 96
    Mmaps <- MCMmaps
    KernelRegion <- MCKernelRegion
    VgaRegion <- MCVgaRegion
    Dirs = 6
    Entries = 32
    KERNEL_BASE = 96
    KernelStart = 12
    KernelEnd = 36
    TablesAt = 29
    VgaFrame = 10
    GdtFrame = 12
    Infos <- MCInfos
    PAGE_SIZE = 128
    CHUNK_PAGES = 4
    HEAP_PAGES = 32
    Word = 8192
    Requests = {16, 40}
SPECIFICATION Spec
INVARIANT HeapHasItsOwnFrames
PROPERTIES MallocGrantsMemory BootSucceeds
CHECK_DEADLOCK FALSE
