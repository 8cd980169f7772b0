CONSTANTS
    Masks <- MCMasks
    Lines <- MCLines
    Bytes = {1, 2}
    MaxKeys = 2
SPECIFICATION FairSpec
INVARIANTS TypeOK KeysInOrder OnlyUnhandledStay
PROPERTIES KeysServed EoiEndsOwn
