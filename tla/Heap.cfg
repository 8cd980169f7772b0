CONSTANTS
    PAGE_SIZE = 64
    CHUNK_PAGES = 7
    HEAP_PAGES = 28
    Word = 2048
    Requests <- MCRequests
SPECIFICATION Spec
INVARIANTS TypeOK ListIntact SizesHoldHeaders NaturallyAligned
PROPERTIES ImplementsGrants BlockListIsBump
