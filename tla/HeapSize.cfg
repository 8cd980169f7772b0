CONSTANTS
    PAGE_SIZE = 64
    CHUNK_PAGES = 7
    HEAP_PAGES = 35
    Word = 4096
    Requests <- MCRequests
SPECIFICATION Spec
INVARIANT BlockAreaIsHeap
