---------------------------- MODULE KernelMemory ----------------------------
(***************************************************************************)
(* How the kernel gets its memory (bootstrap.s, kernel.cpp and             *)
(* HeapAllocator::init_heap_pages): the page allocator, the page tables    *)
(* and the heap composed, in the order of the boot, and then any sequence  *)
(* of allocations.  Each step is a step of the components that take part   *)
(* in it.                                                                  *)
(***************************************************************************)
EXTENDS Integers, Sequences, FiniteSets

CONSTANTS
    ByteBits, WordBytes, NBytes, Mmaps, KernelRegion, VgaRegion,
    Dirs, Entries, KERNEL_BASE, KernelStart, KernelEnd, TablesAt,
    VgaFrame, GdtFrame, Infos,
    PAGE_SIZE, CHUNK_PAGES, HEAP_PAGES, Word, Requests

VARIABLES
    mem_bitmap, last_alloc, phase, mmap, reserved, granted, page_call,
    page_dir, page_tables, stage, boot, seen, reserved_blocks, maps, calls,
    heap_blocks, slab, owned, call,
    pc,      \* the next step of the boot; "main" when it is over, "assert"
             \* when one has failed, "end" when kernel_early_main returned 1
    heap,    \* the heap's first virtual page, 0 before reserve_block
    chunks,  \* phys_heap_chunks: the first frame of each chunk so far
    mapped,  \* pages of the last chunk mapped so far
    ndebug   \* the build: a release (make grub-image) has no asserts

pages_vars == <<mem_bitmap, last_alloc, phase, mmap, reserved, granted, page_call>>
paging_vars == <<page_dir, page_tables, stage, boot, seen, reserved_blocks, maps, calls>>
heap_vars == <<heap_blocks, slab, owned, call>>
vars == <<pages_vars, paging_vars, heap_vars, pc, heap, chunks, mapped, ndebug>>

P == INSTANCE PhysMemAllocator WITH PageUnits <- 1, call <- page_call
V == INSTANCE VirtMemAllocator WITH
        Frames <- P!Page, MaxCalls <- HEAP_PAGES, blocks <- reserved_blocks
H == INSTANCE HeapAllocator WITH blocks <- heap_blocks

ASSUME OneMachineAssumption ==
    /\ Dirs * Entries = P!NPages
    /\ HEAP_PAGES = Entries
    /\ CHUNK_PAGES = ByteBits * WordBytes
    /\ KernelRegion = [addr |-> KernelStart, len |-> KernelEnd - KernelStart,
                       type |-> "reserved"]
    /\ VgaRegion = [addr |-> VgaFrame, len |-> 1, type |-> "reserved"]

\* What the components assume holds of the machine they run on together.
ASSUME ComponentsAssumption ==
    /\ P!GeometryAssumption /\ P!MmapAssumption /\ P!ReservedRegionsAssumption
    /\ V!GeometryAssumption /\ V!InfosAssumption /\ V!RoomAssumption
    /\ H!GeometryAssumption /\ H!RequestsAssumption

n_chunks == HEAP_PAGES \div CHUNK_PAGES

Init ==
    /\ P!Init /\ V!Init /\ H!Init
    /\ pc = "setup_paging"
    /\ heap = 0 /\ chunks = <<>> /\ mapped = 0
    /\ ndebug \in BOOLEAN

-----------------------------------------------------------------------------
setup_paging ==
    /\ pc = "setup_paging"
    /\ \E m \in Infos : V!setup_paging(m)
    /\ pc' = IF stage' = "early" THEN "init_mmap" ELSE "assert"
    /\ UNCHANGED <<ndebug, pages_vars, heap_vars, heap, chunks, mapped>>

\* kernel_early_main gives up when there is no memory map.
no_mmap ==
    /\ pc = "init_mmap"
    /\ pc' = "end"
    /\ UNCHANGED <<ndebug, pages_vars, paging_vars, heap_vars, heap, chunks, mapped>>

init_mmap ==
    /\ pc = "init_mmap"
    /\ \E m \in Mmaps : P!init_mmap(m)
    /\ pc' = "reserve_block"
    /\ UNCHANGED <<ndebug, paging_vars, heap_vars, heap, chunks, mapped>>

\* The rest of kernel_early_main is init_heap_pages.
reserve_block ==
    /\ pc = "reserve_block"
    /\ V!reserve_block
    /\ \E d \in reserved_blocks' : heap' = d * Entries
    /\ pc' = "alloc32"
    /\ UNCHANGED <<ndebug, pages_vars, heap_vars, chunks, mapped>>

\* The pages alloc32 returned; a release goes on with its null.
NewChunk == IF page_call'.pages = {} /\ ndebug THEN {0} ELSE page_call'.pages

\* Slip: the loop over the chunks runs once more.
alloc32_once_more ==
    /\ pc = "alloc32"
    /\ Len(chunks) <= n_chunks
    /\ P!alloc32
    /\ \/ /\ page_call'.pages = {} /\ ~ndebug
          /\ pc' = "assert"
          /\ UNCHANGED <<chunks, mapped>>
       \/ \E f \in NewChunk :
            /\ \A g \in NewChunk : f <= g
            /\ chunks' = Append(chunks, f)
            /\ mapped' = 0
            /\ pc' = "map_page"
    /\ UNCHANGED <<ndebug, paging_vars, heap_vars, heap>>

\* A null chunk fails the assert, when there is one.
alloc32 ==
    /\ pc = "alloc32"
    /\ Len(chunks) < n_chunks
    /\ P!alloc32
    /\ \/ /\ page_call'.pages = {} /\ ~ndebug
          /\ pc' = "assert"
          /\ UNCHANGED <<chunks, mapped>>
       \/ \E f \in NewChunk :
            /\ \A g \in NewChunk : f <= g
            /\ chunks' = Append(chunks, f)
            /\ mapped' = 0
            /\ pc' = "map_page"
    /\ UNCHANGED <<ndebug, paging_vars, heap_vars, heap>>

\* Slip: every page of a chunk is mapped to its first frame.
map_page_to_first_frame ==
    /\ pc = "map_page"
    /\ V!map_at(heap + CHUNK_PAGES * (Len(chunks) - 1) + mapped, chunks[Len(chunks)])
    /\ mapped' = mapped + 1
    /\ pc' = IF mapped' = CHUNK_PAGES THEN "alloc32" ELSE pc
    /\ UNCHANGED <<ndebug, pages_vars, heap_vars, heap, chunks>>

map_page ==
    /\ pc = "map_page"
    /\ V!map_at(heap + CHUNK_PAGES * (Len(chunks) - 1) + mapped,
                chunks[Len(chunks)] + mapped)
    /\ mapped' = mapped + 1
    /\ pc' = IF mapped' = CHUNK_PAGES THEN "alloc32" ELSE pc
    /\ UNCHANGED <<ndebug, pages_vars, heap_vars, heap, chunks>>

first_block ==
    /\ pc = "alloc32" /\ Len(chunks) = n_chunks
    /\ H!init_heap_pages
    /\ pc' = "_init"
    /\ UNCHANGED <<ndebug, pages_vars, paging_vars, heap, chunks, mapped>>

\* The static constructors, then the start of kernel_main.
_init ==
    /\ pc = "_init"
    /\ P!PhysMemAllocatorCtor
    /\ pc' = "clear_ident_map"
    /\ UNCHANGED <<ndebug, paging_vars, heap_vars, heap, chunks, mapped>>

clear_ident_map ==
    /\ pc = "clear_ident_map"
    /\ V!clear_ident_map
    /\ pc' = "main"
    /\ UNCHANGED <<ndebug, pages_vars, heap_vars, heap, chunks, mapped>>

malloc(n) ==
    /\ pc = "main"
    /\ H!malloc(n)
    /\ UNCHANGED <<ndebug, pages_vars, paging_vars, pc, heap, chunks, mapped>>

Boot == \/ setup_paging \/ no_mmap \/ init_mmap \/ reserve_block \/ alloc32
        \/ map_page \/ first_block \/ _init \/ clear_ident_map
Next == Boot \/ \E n \in Requests : malloc(n)

Spec == Init /\ [][Next]_vars /\ WF_vars(Boot)

-----------------------------------------------------------------------------
(* Properties.                                                             *)

HeapPages == {heap + i : i \in 0 .. HEAP_PAGES - 1}
Ready == pc \in {"_init", "clear_ident_map", "main"}

\* A release that ran out of memory has chunks at address 0.
Served == 0 \notin {chunks[i] : i \in DOMAIN chunks}

\* Every page of the heap, headers and slabs included, reaches one frame, and
\* one that alloc32 handed out: not the image with the page tables in it, nor
\* the text buffer, nor what the memory map keeps.  No other page of the
\* higher half reaches it, but the boot information's, which nobody reads any
\* more.  Three components agree on this, across the clearing of the identity
\* map without a flush.
HeapHasItsOwnFrames ==
    Ready /\ Served =>
        LET reached == {s \in seen : s[1] \in HeapPages}
        IN  /\ reached = {<<v, V!Translate(v)>> : v \in HeapPages}
            /\ {s[2] : s \in reached} \subseteq
                   granted \ (reserved \cup V!Kernel \cup {VgaFrame, 0})
            /\ \A s \in reached, t \in seen :
                   s[2] = t[2] /\ t[1] >= KERNEL_BASE =>
                       \/ t = s
                       \/ \E m \in boot : t[1] - KERNEL_BASE \in m.info \cup m.mmap

\* malloc hands out physical memory no byte of which it has handed out before,
\* although it only knows of virtual addresses and the slabs' chunks may lie
\* anywhere in memory.
Physical(S) == {V!Translate(heap + (a \div PAGE_SIZE)) * PAGE_SIZE + (a % PAGE_SIZE) :
                    a \in S}
M == INSTANCE Grants WITH Unit <- 0 .. P!NPages * PAGE_SIZE - 1,
                          owned <- Physical(owned), fresh <- Physical(H!Fresh)
MallocGrantsMemory == [][pc = "main" /\ Served => M!Next]_vars

\* The boot ends in kernel_main unless there is no memory map, the boot
\* information is out of reach, or there are fewer usable words of pages than
\* the heap has chunks, the word of page 0 not counted: no assert fails and no
\* page table is out of reach for another reason.  Only then does a release,
\* which has no asserts, go on with a heap that lacks memory of its own.
Usable == {w \in P!Units("alloc32") : w # 0 /\ P!WordPages(w) \cap reserved = {}}
BootSucceeds ==
    <>(\/ pc \in {"main", "end"}
       \/ pc = "assert" /\ stage = "hang"
       \/ pc = "assert" /\ Cardinality(Usable) < n_chunks)
    /\ [](Ready /\ ~Served => ndebug /\ Cardinality(Usable) < n_chunks)
=============================================================================
