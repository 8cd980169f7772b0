CONSTANTS
    ByteBits = 2
    WordBytes = 2
    NBytes = 10
    PageUnits = 2
    Mmaps <- MCMmaps
    KernelRegion <- MCKernelRegion
    VgaRegion <- MCVgaRegion
SPECIFICATION Spec
INVARIANTS TypeOK NoUnavailPageGranted OnlyPageZeroLeaks
PROPERTIES ImplementsGrants HonestRefusal
