--------------------------- MODULE HeapAllocator ---------------------------
(***************************************************************************)
(* The kernel heap (heap_allocator.cpp, memory.cpp): HEAP_PAGES contiguous *)
(* pages.  The first (CHUNK_PAGES-3) pages are carved into a list of       *)
(* blocks with headers; the last three chunks are slabs of 8, 16 and 32    *)
(* byte slots with a bitmap each.  There is no free: operator delete       *)
(* asserts.  Addresses are offsets from the heap's first byte, and the     *)
(* linked list of blocks is the sequence of its nodes.                     *)
(***************************************************************************)
EXTENDS Integers, SequencesExt

CONSTANTS
    PAGE_SIZE, CHUNK_PAGES, HEAP_PAGES,
    Word,       \* 2^32: size_t arithmetic wraps at it
    Requests    \* the sizes asked for

HEAP_BLOCK_ALIGN == 64
HeaderSize == 64             \* sizeof(HeapBlock): the union is alignas(64)
SlabSize == <<8, 16, 32>>    \* slab8, slab16, slab32
Slab == 1 .. 3
NULL == -1                   \* no offset into the heap

HeapBytes  == HEAP_PAGES * PAGE_SIZE
ChunkBytes == CHUNK_PAGES * PAGE_SIZE
NChunks    == HEAP_PAGES \div CHUNK_PAGES

ASSUME GeometryAssumption ==
    /\ PAGE_SIZE \in Nat \ {0}
    /\ PAGE_SIZE % HEAP_BLOCK_ALIGN = 0
    /\ CHUNK_PAGES \in Nat /\ CHUNK_PAGES > 3
    /\ HEAP_PAGES \in Nat
    /\ HEAP_PAGES % CHUNK_PAGES = 0
    /\ HEAP_PAGES >= 4 * CHUNK_PAGES
    /\ Word \in Nat /\ Word > HeapBytes

ASSUME RequestsAssumption == Requests \subseteq 0 .. Word - 1

VARIABLES
    blocks,  \* the list from heap on: [addr, size, allocated]
    slab,    \* the slots in use in each slab's bitmap
    owned,   \* history: the bytes handed out
    call     \* history: the latest request and its result

vars == <<blocks, slab, owned, call>>

Block == [addr : Int, size : 0 .. Word - 1, allocated : BOOLEAN]

\* Slip: the slabs start one chunk late.
SlabBaseLate(s) == (NChunks - 3 + s) * ChunkBytes

\* The chunk init_heap_pages gives to slab s (n_chunks-3, -2, -1), and the
\* slots its bitmap has bits for.
SlabBase(s) == (NChunks - 4 + s) * ChunkBytes

\* Slip: every bitmap has the size of slab8's.
Slab8Count(s) == (ChunkBytes \div (SlabSize[1] * 8)) * 8

SlotCount(s) == (ChunkBytes \div (SlabSize[s] * 8)) * 8
Slot(s) == 0 .. SlotCount(s) - 1

TypeOK ==
    /\ blocks \in Seq(Block)
    /\ slab \in [Slab -> SUBSET Nat]
    /\ \A s \in Slab : slab[s] \subseteq Slot(s)
    /\ owned \subseteq 0 .. HeapBytes - 1
    /\ call \in [size : 0 .. Word - 1, ret : 0 .. HeapBytes - 1 \cup {NULL}]

Sub(a, b) == (a - b) % Word

Init ==
    /\ blocks = <<>>
    /\ slab = [s \in Slab |-> {}]
    /\ owned = {}
    /\ call = [size |-> 0, ret |-> NULL]

\* The last part of init_heap_pages: one free block at the heap's start.
FirstBlock ==
    [addr |-> 0, size |-> (CHUNK_PAGES - 3) * PAGE_SIZE, allocated |-> FALSE]
init_heap_pages ==
    /\ blocks = <<>>
    /\ blocks' = <<FirstBlock>>
    /\ UNCHANGED <<slab, owned, call>>

Return(n, r) ==
    /\ call' = [size |-> n, ret |-> r]
    /\ owned' = IF r = NULL THEN owned ELSE owned \cup (r .. r + n - 1)

-----------------------------------------------------------------------------
FreeSlots(s) == Slot(s) \ slab[s]

\* slab8_malloc, slab16_malloc and slab32_malloc: the lowest clear bit.
slab_malloc(s, n) ==
    \E j \in FreeSlots(s) :
        /\ \A k \in FreeSlots(s) : j <= k
        /\ slab' = [slab EXCEPT ![s] = @ \cup {j}]
        /\ Return(n, SlabBase(s) + SlabSize[s] * j)
        /\ UNCHANGED blocks

\* Slip: a block that is exactly large enough does not fit.
FitsLarger(b, n) == ~b.allocated /\ Sub(b.size, HeaderSize) > n

Fits(b, n) == ~b.allocated /\ Sub(b.size, HeaderSize) >= n

\* Slip: the leftover is not rounded down to the alignment.
LeftoverUnrounded(b, n) == Sub(Sub(b.size, HeaderSize), n)

Leftover(b, n) ==
    LET rest == Sub(Sub(b.size, HeaderSize), n)
    IN  rest - (rest % HEAP_BLOCK_ALIGN)

\* Slip: the node keeps its whole size when it is split.
SplitKeepsSize(i, n) ==
    LET b == blocks[i]
        left == Leftover(b, n)
        next == [addr |-> b.addr + Sub(b.size, left), size |-> left,
                 allocated |-> FALSE]
    IN  IF left > 0
        THEN InsertAt(ReplaceAt(blocks, i, [b EXCEPT !.allocated = TRUE]), i + 1, next)
        ELSE ReplaceAt(blocks, i, [b EXCEPT !.allocated = TRUE])

\* The list after node i took a request of n bytes: what is left over
\* becomes a free block behind it.
Split(i, n) ==
    LET b == blocks[i]
        left == Leftover(b, n)
        node == [addr |-> b.addr, size |-> Sub(b.size, left), allocated |-> TRUE]
        next == [addr |-> b.addr + node.size, size |-> left,
                 allocated |-> FALSE]
    IN  IF left > 0 THEN InsertAt(ReplaceAt(blocks, i, node), i + 1, next)
                    ELSE ReplaceAt(blocks, i, node)

block_malloc(n) ==
    /\ \/ \E i \in DOMAIN blocks :
            /\ Fits(blocks[i], n)
            /\ \A j \in DOMAIN blocks : Fits(blocks[j], n) => i <= j
            /\ blocks' = Split(i, n)
            /\ Return(n, blocks[i].addr + HeaderSize)
       \/ /\ \A i \in DOMAIN blocks : ~Fits(blocks[i], n)
          /\ Return(n, NULL)
          /\ UNCHANGED blocks
    /\ UNCHANGED slab

\* malloc tries the slabs whose slots are big enough, smallest first.
SlabsFor(n) == {s \in Slab : n <= SlabSize[s] /\ FreeSlots(s) # {}}

malloc(n) ==
    /\ blocks # <<>>
    /\ \/ /\ n > HeapBytes
          /\ Return(n, NULL)
          /\ UNCHANGED <<blocks, slab>>
       \/ /\ n <= HeapBytes
          /\ \E s \in SlabsFor(n) : /\ \A t \in SlabsFor(n) : s <= t
                                    /\ slab_malloc(s, n)
       \/ /\ n <= HeapBytes
          /\ SlabsFor(n) = {}
          /\ block_malloc(n)

Next == init_heap_pages \/ \E n \in Requests : malloc(n)

Spec == Init /\ [][Next]_vars

-----------------------------------------------------------------------------
(* Properties.                                                             *)

\* No byte of the heap is handed out twice, across the block list and the
\* three slabs, whatever the order of requests.
Fresh == IF call.ret = NULL THEN {} ELSE call.ret .. call.ret + call.size - 1
G == INSTANCE Grants WITH Unit <- 0 .. HeapBytes - 1, owned <- owned,
                          fresh <- Fresh
ImplementsGrants == G!Init /\ [][G!Next]_vars

\* The blocks of the list tile the block area, each starting where the one
\* before it ends, and no byte a caller owns lies in a header: a caller that
\* fills its memory cannot break the list.
ListIntact ==
    /\ \A i \in 1 .. Len(blocks) - 1 :
          blocks[i + 1].addr = blocks[i].addr + blocks[i].size
    /\ blocks # <<>> =>
          /\ blocks[1].addr = 0
          /\ Last(blocks).addr + Last(blocks).size = FirstBlock.size
    /\ \A i \in DOMAIN blocks : \A a \in 0 .. HeaderSize - 1 :
          blocks[i].addr + a \notin owned

\* A block is never smaller than its header, so the unsigned difference in
\* the fit test does not wrap into a huge size.
SizesHoldHeaders == \A i \in DOMAIN blocks : blocks[i].size >= HeaderSize

\* malloc's memory is aligned for any object of the size asked for: to every
\* power of two up to 64 that the size reaches.
NaturallyAligned ==
    call.ret # NULL => \A k \in {1, 2, 4, 8, 16, 32, 64} :
                           k <= call.size => call.ret % k = 0

\* The first-fit search never has a choice: every call that the slabs do not
\* serve is a bump allocation.  It loses nothing but headers and rounding,
\* and returns null exactly when the rest of the block area is too small.
Brk == IF blocks = <<>> THEN 0
       ELSE IF Last(blocks).allocated THEN FirstBlock.size ELSE Last(blocks).addr
B == INSTANCE BumpAllocator WITH
        Header <- HeaderSize, Align <- HEAP_BLOCK_ALIGN,
        Limit <- FirstBlock.size, brk <- Brk, last <- call
BlockListIsBump ==
    B!Init /\ [][blocks # <<>> /\ slab' = slab =>
                    B!Bump(call'.size) \/ B!Refuse(call'.size, NULL)]_vars

\* heap_allocator.h:9 says the heap is 4MiB: a request is refused only when
\* the memory outside the slabs cannot hold it.  The first block is not that
\* large: its size counts pages of one chunk, not the chunks of the heap.
BlockAreaIsHeap ==
    blocks # <<>> /\ call.ret = NULL /\ call.size > 0 =>
        LET used == {i \in DOMAIN blocks : blocks[i].allocated}
        IN  FoldFunctionOnSet(+, 0, [i \in DOMAIN blocks |-> blocks[i].size], used)
              + HeaderSize + call.size > SlabBase(1)
=============================================================================
