------------------------- MODULE KernelMemoryProofs -------------------------
(***************************************************************************)
(* Proofs about the boot of the memory system: every behaviour of the      *)
(* composition is a behaviour of each component, so what is proved of the  *)
(* components holds in it, and with it what they promise together.         *)
(***************************************************************************)
EXTENDS KernelMemory, RingArithmetic, FiniteSetTheorems

\* The components with their proofs, in the state of the composition.
PP == INSTANCE PhysMemAllocatorProofs WITH PageUnits <- 1, call <- page_call
VP == INSTANCE VirtMemAllocatorProofs WITH
        Frames <- P!Page, MaxCalls <- HEAP_PAGES, blocks <- reserved_blocks
HP == INSTANCE HeapAllocatorProofs WITH blocks <- heap_blocks

-----------------------------------------------------------------------------
(* The components' assumptions.                                            *)

LEMMA PhysAssumptions ==
    PP!GeometryAssumption /\ PP!MmapAssumption /\ PP!ReservedRegionsAssumption
BY ComponentsAssumption
   DEF P!Region, PP!Region, P!RegionType, PP!RegionType, P!Below4G, PP!Below4G,
       P!NPages, PP!NPages

LEMMA PagingAssumptions ==
    VP!GeometryAssumption /\ VP!InfosAssumption /\ VP!RoomAssumption
BY ComponentsAssumption
   DEF V!Page, VP!Page, V!Kernel, VP!Kernel, V!VIRT_TO_PD_INDEX, VP!VIRT_TO_PD_INDEX

LEMMA HeapAssumptions == HP!GeometryAssumption /\ HP!RequestsAssumption
BY ComponentsAssumption
   DEF H!HEAP_BLOCK_ALIGN, HP!HEAP_BLOCK_ALIGN, H!HeapBytes, HP!HeapBytes

-----------------------------------------------------------------------------
(* The steps of a component are the same under both of its names.          *)

LEMMA PhysSteps ==
    /\ P!Init => PP!Init
    /\ \A m : P!init_mmap(m) => PP!init_mmap(m)
    /\ P!PhysMemAllocatorCtor => PP!PhysMemAllocatorCtor
    /\ P!alloc32 => PP!alloc32
<1>1. P!Init => PP!Init
  BY DEF P!Init, PP!Init, P!NoCall, PP!NoCall
<1>2. \A m : P!init_mmap(m) => PP!init_mmap(m)
  BY DEF P!init_mmap, PP!init_mmap, P!MarkedBy, PP!MarkedBy, P!UnavailPages,
         PP!UnavailPages, P!Page, PP!Page, P!NPages, PP!NPages
<1>3. P!PhysMemAllocatorCtor => PP!PhysMemAllocatorCtor
  BY DEF P!PhysMemAllocatorCtor, PP!PhysMemAllocatorCtor
<1>4. P!alloc32 => PP!alloc32
  BY DEF P!NPages, P!Page, P!BytePages, P!WordPages, P!Units, P!Pages,
         P!StartUnit, P!FreeIn, P!Fits, P!Block, P!LosesPageZero, P!Returnable,
         P!FirstPass, P!SecondPass, P!Found, P!Lost, P!Grant, P!Refuse, P!Alloc,
         P!alloc32,
         PP!NPages, PP!Page, PP!BytePages, PP!WordPages, PP!Units, PP!Pages,
         PP!StartUnit, PP!FreeIn, PP!Fits, PP!Block, PP!LosesPageZero,
         PP!Returnable, PP!FirstPass, PP!SecondPass, PP!Found, PP!Lost, PP!Grant,
         PP!Refuse, PP!Alloc, PP!alloc32
<1>5. QED
  BY <1>1, <1>2, <1>3, <1>4

LEMMA PagingSteps ==
    /\ V!Init => VP!Init
    /\ \A m : V!setup_paging(m) => VP!setup_paging(m)
    /\ V!reserve_block => VP!reserve_block
    /\ V!clear_ident_map => VP!clear_ident_map
    /\ \A v, f : V!map_at(v, f) => VP!map_at(v, f)
<1>1. V!Init => VP!Init
  BY DEF V!Init, VP!Init, V!None, VP!None, V!Dir, VP!Dir, V!Entry, VP!Entry
<1>2. \A m : V!setup_paging(m) => VP!setup_paging(m)
  BY DEF V!setup_paging, VP!setup_paging, V!SharesFirstTable, VP!SharesFirstTable,
         V!FirstOf, VP!FirstOf, V!SetupDir, VP!SetupDir, V!SetupTables, VP!SetupTables,
         V!TableOf, VP!TableOf, V!Current, VP!Current, V!Translate, VP!Translate,
         V!Walk, VP!Walk, V!Page, VP!Page, V!Dir, VP!Dir, V!Entry, VP!Entry,
         V!None, VP!None, V!Kernel, VP!Kernel, V!IdentDir, VP!IdentDir,
         V!HighDir, VP!HighDir, V!VIRT_TO_PD_INDEX, VP!VIRT_TO_PD_INDEX,
         V!VIRT_TO_PT_INDEX, VP!VIRT_TO_PT_INDEX
<1>3. V!reserve_block => VP!reserve_block
  BY DEF V!reserve_block, VP!reserve_block, V!Running, VP!Running, V!Dir, VP!Dir,
         V!None, VP!None, V!load_page_table, VP!load_page_table,
         V!VIRT_TO_PD_INDEX, VP!VIRT_TO_PD_INDEX
<1>4. V!clear_ident_map => VP!clear_ident_map
  BY DEF V!clear_ident_map, VP!clear_ident_map, V!IdentDir, VP!IdentDir,
         V!None, VP!None, V!VIRT_TO_PD_INDEX, VP!VIRT_TO_PD_INDEX
<1>5. \A v, f : V!map_at(v, f) => VP!map_at(v, f)
  BY DEF V!map_at, VP!map_at, V!Running, VP!Running, V!WriteEntry, VP!WriteEntry,
         V!get_page_table, VP!get_page_table, V!Reached, VP!Reached,
         V!Current, VP!Current, V!Translate, VP!Translate, V!Walk, VP!Walk,
         V!Page, VP!Page, V!Dir, VP!Dir, V!None, VP!None,
         V!VIRT_TO_PD_INDEX, VP!VIRT_TO_PD_INDEX,
         V!VIRT_TO_PT_INDEX, VP!VIRT_TO_PT_INDEX
<1>6. QED
  BY <1>1, <1>2, <1>3, <1>4, <1>5

LEMMA HeapSteps ==
    /\ H!Init => HP!Init
    /\ H!init_heap_pages => HP!init_heap_pages
    /\ \A n : H!malloc(n) => HP!malloc(n)
<1>1. H!Init => HP!Init
  BY DEF H!Init, HP!Init, H!Slab, HP!Slab, H!NULL, HP!NULL
<1>2. H!init_heap_pages => HP!init_heap_pages
  BY DEF H!init_heap_pages, HP!init_heap_pages, H!FirstBlock, HP!FirstBlock
<1>3. \A n : H!malloc(n) => HP!malloc(n)
  BY DEF H!malloc, HP!malloc, H!block_malloc, HP!block_malloc, H!slab_malloc,
         HP!slab_malloc, H!SlabsFor, HP!SlabsFor, H!FreeSlots, HP!FreeSlots,
         H!Slot, HP!Slot, H!SlotCount, HP!SlotCount, H!SlabBase, HP!SlabBase,
         H!Slab, HP!Slab, H!SlabSize, HP!SlabSize, H!NChunks, HP!NChunks,
         H!ChunkBytes, HP!ChunkBytes, H!HeapBytes, HP!HeapBytes, H!Return, HP!Return,
         H!NULL, HP!NULL, H!Fits, HP!Fits, H!Split, HP!Split, H!Leftover, HP!Leftover,
         H!Sub, HP!Sub, H!HeaderSize, HP!HeaderSize,
         H!HEAP_BLOCK_ALIGN, HP!HEAP_BLOCK_ALIGN,
         H!InsertAt, HP!InsertAt, H!ReplaceAt, HP!ReplaceAt
<1>4. QED
  BY <1>1, <1>2, <1>3

-----------------------------------------------------------------------------
(* Every behaviour of the composition is one of each component: a step is  *)
(* a step of the component or leaves its variables alone.                  *)

LEMMA PhysBehaves == Spec => PP!Spec
<1>1. Init => PP!Init
  BY PhysSteps DEF Init
<1>2. [Next]_vars => [PP!Next]_(PP!vars)
  <2> SUFFICES ASSUME [Next]_vars PROVE PP!Next \/ UNCHANGED PP!vars
    OBVIOUS
  <2>1. CASE init_mmap
    BY <2>1, PhysSteps DEF init_mmap, PP!Next
  <2>2. CASE alloc32
    BY <2>2, PhysSteps DEF alloc32, PP!Next
  <2>3. CASE _init
    BY <2>3, PhysSteps DEF _init, PP!Next
  <2>4. CASE setup_paging \/ no_mmap \/ reserve_block \/ map_page
    BY <2>4 DEF setup_paging, no_mmap, reserve_block, map_page, pages_vars, PP!vars
  <2>5. CASE first_block \/ clear_ident_map \/ \E n \in Requests : malloc(n)
    BY <2>5 DEF first_block, clear_ident_map, malloc, pages_vars, PP!vars
  <2>6. CASE UNCHANGED vars
    BY <2>6 DEF vars, pages_vars, PP!vars
  <2>7. QED
    BY <2>1, <2>2, <2>3, <2>4, <2>5, <2>6 DEF Next, Boot
<1>3. QED
  BY <1>1, <1>2, PTL DEF Spec, PP!Spec

LEMMA HeapBehaves == Spec => HP!Spec
<1>1. Init => HP!Init
  BY HeapSteps DEF Init
<1>2. [Next]_vars => [HP!Next]_(HP!vars)
  <2> SUFFICES ASSUME [Next]_vars PROVE HP!Next \/ UNCHANGED HP!vars
    OBVIOUS
  <2>1. CASE first_block
    BY <2>1, HeapSteps DEF first_block, HP!Next
  <2>2. CASE \E n \in Requests : malloc(n)
    BY <2>2, HeapSteps DEF malloc, HP!Next
  <2>3. CASE setup_paging \/ no_mmap \/ init_mmap \/ reserve_block \/ alloc32
    BY <2>3 DEF setup_paging, no_mmap, init_mmap, reserve_block, alloc32, heap_vars, HP!vars
  <2>4. CASE map_page \/ _init \/ clear_ident_map
    BY <2>4 DEF map_page, _init, clear_ident_map, heap_vars, HP!vars
  <2>5. CASE UNCHANGED vars
    BY <2>5 DEF vars, heap_vars, HP!vars
  <2>6. QED
    BY <2>1, <2>2, <2>3, <2>4, <2>5 DEF Next, Boot
<1>3. QED
  BY <1>1, <1>2, PTL DEF Spec, HP!Spec

LEMMA PhysInvariant == Spec => []PP!IInv
BY PhysBehaves, PP!Inductive, PhysAssumptions, PTL

LEMMA HeapInvariant == Spec => []HP!IInv
BY HeapBehaves, HP!Inductive, HeapAssumptions, PTL

-----------------------------------------------------------------------------
(* The numbers: a chunk of the heap is a word of pages.                    *)

NWords == NBytes \div WordBytes
Words  == 0 .. NWords - 1

\* The pages of a word, from its first.
WordOf(w) == w * CHUNK_PAGES .. w * CHUNK_PAGES + CHUNK_PAGES - 1

LEMMA Exact ==
    ASSUME NEW n \in Nat, NEW k \in Nat \ {0}, n % k = 0
    PROVE  n \div k \in Nat /\ (n \div k) * k = n
<1>1. n = k * (n \div k) + (n % k) /\ n \div k \in Nat
  BY SMTT(30)
<1>2. QED
  BY <1>1

LEMMA Sizes ==
    /\ CHUNK_PAGES \in Nat \ {0} /\ Entries \in Nat \ {0} /\ Dirs \in Nat \ {0}
    /\ NWords \in Nat /\ NWords * CHUNK_PAGES = P!NPages
    /\ n_chunks \in Nat \ {0} /\ n_chunks * CHUNK_PAGES = HEAP_PAGES
    /\ HEAP_PAGES = Entries /\ Dirs * Entries = P!NPages
    /\ P!NPages \in Nat
<1>1. /\ ByteBits \in Nat \ {0} /\ WordBytes \in Nat \ {0} /\ NBytes \in Nat \ {0}
      /\ NBytes % WordBytes = 0
  BY ComponentsAssumption DEF P!GeometryAssumption
<1>2. /\ Entries \in Nat \ {0} /\ Dirs \in Nat \ {0}
  BY ComponentsAssumption DEF V!GeometryAssumption
<1>3. CHUNK_PAGES \in Nat /\ CHUNK_PAGES > 3 /\ HEAP_PAGES \in Nat
      /\ HEAP_PAGES % CHUNK_PAGES = 0 /\ HEAP_PAGES >= 4 * CHUNK_PAGES
  BY ComponentsAssumption DEF H!GeometryAssumption
<1>4. NWords \in Nat /\ NWords * WordBytes = NBytes
  BY <1>1, Exact DEF NWords
<1>5. NWords * CHUNK_PAGES = P!NPages
  <2>1. CHUNK_PAGES = ByteBits * WordBytes
    BY OneMachineAssumption
  <2>2. P!NPages = ByteBits * NBytes
    BY DEF P!NPages
  <2> HIDE DEF NWords
  <2>3. NWords * (ByteBits * WordBytes) = ByteBits * (NWords * WordBytes)
    BY <1>1, <1>4, SMTT(30)
  <2>4. QED
    BY <1>4, <2>1, <2>2, <2>3
<1>6. n_chunks \in Nat /\ n_chunks * CHUNK_PAGES = HEAP_PAGES
  BY <1>3, Exact DEF n_chunks
<1>7. n_chunks # 0
  BY <1>3, <1>6
<1>8. HEAP_PAGES = Entries /\ Dirs * Entries = P!NPages
  BY OneMachineAssumption
<1>9. P!NPages \in Nat
  BY <1>1 DEF P!NPages
<1>10. QED
  BY <1>2, <1>3, <1>4, <1>5, <1>6, <1>7, <1>8, <1>9

\* Chunk i of n, counted from 0, has its pages below n chunks.
LEMMA ChunkBounds ==
    ASSUME NEW n \in Nat, NEW i \in 0 .. n - 1, NEW j \in 0 .. CHUNK_PAGES - 1
    PROVE  /\ i * CHUNK_PAGES \in Nat
           /\ i * CHUNK_PAGES + CHUNK_PAGES <= n * CHUNK_PAGES
           /\ i * CHUNK_PAGES + j \in 0 .. n * CHUNK_PAGES - 1
           /\ (i * CHUNK_PAGES = 0 <=> i = 0)
           /\ (i * CHUNK_PAGES + j) \div CHUNK_PAGES = i
<1>1. CHUNK_PAGES \in Nat \ {0} /\ n \in Nat \ {0} /\ i \in Nat
  BY Sizes
<1>2. /\ i * CHUNK_PAGES \in Nat
      /\ i * CHUNK_PAGES + CHUNK_PAGES <= n * CHUNK_PAGES
      /\ i * CHUNK_PAGES + j \in 0 .. n * CHUNK_PAGES - 1
      /\ i = 0 => i * CHUNK_PAGES = 0
      /\ i > 0 => i * CHUNK_PAGES >= CHUNK_PAGES
  BY <1>1, IndexBounds
<1>3. (i * CHUNK_PAGES + j) \div CHUNK_PAGES = i
  BY <1>1, IndexRow
<1>4. QED
  BY <1>1, <1>2, <1>3

LEMMA WordFacts ==
    ASSUME NEW w \in Words
    PROVE  /\ w * CHUNK_PAGES \in Nat
           /\ w * CHUNK_PAGES = 0 <=> w = 0
           /\ WordOf(w) \subseteq P!Page
           /\ w * CHUNK_PAGES \in WordOf(w)
           /\ PP!WordPages(w) = WordOf(w)
<1>1. /\ CHUNK_PAGES \in Nat \ {0} /\ NWords \in Nat /\ w \in Nat
      /\ w \in 0 .. NWords - 1 /\ NWords * CHUNK_PAGES = P!NPages
  BY Sizes DEF Words
<1>2. \A j \in 0 .. CHUNK_PAGES - 1 :
          /\ w * CHUNK_PAGES \in Nat
          /\ w * CHUNK_PAGES + j \in 0 .. P!NPages - 1
          /\ w * CHUNK_PAGES = 0 <=> w = 0
          /\ (w * CHUNK_PAGES + j) \div CHUNK_PAGES = w
  BY <1>1, ChunkBounds
<1>3. w * CHUNK_PAGES \in Nat /\ (w * CHUNK_PAGES = 0 <=> w = 0)
  <2>1. 0 \in 0 .. CHUNK_PAGES - 1
    BY <1>1
  <2>2. QED
    BY <1>2, <2>1
<1> DEFINE x == w * CHUNK_PAGES
<1>4. ASSUME NEW p \in WordOf(w)
      PROVE  p \in P!Page /\ p \div CHUNK_PAGES = w
  <2>1. p \in x .. x + CHUNK_PAGES - 1
    BY DEF WordOf
  <2>2. x \in Nat /\ \A j \in 0 .. CHUNK_PAGES - 1 :
            x + j \in 0 .. P!NPages - 1 /\ (x + j) \div CHUNK_PAGES = w
    BY <1>2, <1>3
  <2> HIDE DEF x
  <2>3. p - x \in 0 .. CHUNK_PAGES - 1 /\ x + (p - x) = p
    BY <1>1, <2>1, <2>2
  <2>4. QED
    BY <2>2, <2>3 DEF P!Page
<1>5. ASSUME NEW p \in P!Page, p \div CHUNK_PAGES = w
      PROVE  p \in WordOf(w)
  <2>1. p \in Nat
    BY Sizes DEF P!Page
  <2>2. p = CHUNK_PAGES * (p \div CHUNK_PAGES) + (p % CHUNK_PAGES)
        /\ p % CHUNK_PAGES \in 0 .. CHUNK_PAGES - 1
    BY <1>1, <2>1, SMTT(30)
  <2>3. p = x + (p % CHUNK_PAGES)
    BY <1>1, <1>5, <2>2
  <2>4. x \in Nat
    BY <1>3
  <2> HIDE DEF x
  <2>5. p \in x .. x + CHUNK_PAGES - 1
    BY <1>1, <2>2, <2>3, <2>4
  <2>6. QED
    BY <2>5 DEF WordOf, x
<1>6. PP!WordPages(w) = {p \in P!Page : p \div CHUNK_PAGES = w}
  BY OneMachineAssumption
     DEF PP!WordPages, PP!Page, P!Page, PP!NPages, P!NPages
<1>7. w * CHUNK_PAGES \in WordOf(w)
  BY <1>1, <1>3 DEF WordOf
<1>8. QED
  BY <1>3, <1>4, <1>5, <1>6, <1>7

LEMMA UnitsAreWords == PP!Units("alloc32") = Words
BY DEF PP!Units, Words, NWords

-----------------------------------------------------------------------------
(* The order of the boot, and the chunks alloc32 returned.                 *)

Early    == {"init_mmap", "reserve_block", "alloc32", "map_page", "_init",
             "clear_ident_map"}
HasBlock == {"alloc32", "map_page", "_init", "clear_ident_map", "main"}

\* How far the boot is: what the allocator's phase, the reserved block and
\* the numbers of chunks and pages are at each of its steps.
OrderInv ==
    /\ pc \in Early \cup {"setup_paging", "main", "assert", "end"}
    /\ chunks \in Seq(Nat) /\ Len(chunks) <= n_chunks
    /\ mapped \in Nat
    /\ pc \in {"setup_paging", "init_mmap"} => phase = "bss"
    /\ pc \in {"reserve_block", "alloc32", "map_page", "_init"} => phase = "early"
    /\ pc \in {"clear_ident_map", "main"} => phase = "main"
    /\ pc \in {"setup_paging", "init_mmap", "reserve_block"} =>
           reserved_blocks = {} /\ chunks = <<>>
    /\ pc \in HasBlock => \E d \in V!Dir : reserved_blocks = {d} /\ heap = d * Entries
    /\ pc = "map_page" => Len(chunks) > 0 /\ mapped < CHUNK_PAGES
    /\ Ready => Len(chunks) = n_chunks

\* The chunks the allocator had memory for.
Got == {i \in DOMAIN chunks : chunks[i] # 0}

\* Every chunk is a word of pages, no two that are not null are the same, and
\* together they are what the page allocator has granted.
ChunkInv ==
    /\ \A i \in DOMAIN chunks : \E w \in Words : chunks[i] = w * CHUNK_PAGES
    /\ \A i, j \in Got : chunks[i] = chunks[j] => i = j
    /\ \A p : p \in granted <=> \E i \in Got : p \in chunks[i] .. chunks[i] + CHUNK_PAGES - 1

LEMMA InitOrder == Init => OrderInv /\ ChunkInv
<1> SUFFICES ASSUME Init PROVE OrderInv /\ ChunkInv
  OBVIOUS
<1>1. /\ pc = "setup_paging" /\ chunks = <<>> /\ mapped = 0
      /\ phase = "bss" /\ granted = {} /\ reserved_blocks = {}
  BY DEF Init, P!Init, V!Init
<1>2. OrderInv
  BY <1>1, Sizes DEF OrderInv, Early, HasBlock, Ready
<1>3. Got = {} /\ DOMAIN chunks = {}
  BY <1>1 DEF Got
<1>4. ChunkInv
  BY <1>1, <1>3 DEF ChunkInv
<1>5. QED
  BY <1>2, <1>4

\* A call of alloc32 that returned pages gives the chunk the first of them.
LEMMA NewChunkIs ==
    ASSUME NEW S, NEW f \in S, \A g \in S : f <= g,
           NEW w \in Words, S = WordOf(w)
    PROVE  f = w * CHUNK_PAGES
<1> DEFINE x == w * CHUNK_PAGES
<1>1. x \in Nat /\ x \in WordOf(w) /\ CHUNK_PAGES \in Nat
  BY WordFacts, Sizes
<1>2. S = x .. x + CHUNK_PAGES - 1
  BY DEF WordOf
<1>3. x \in S
  BY <1>1
<1> HIDE DEF x
<1>4. f <= x /\ f \in x .. x + CHUNK_PAGES - 1
  BY <1>2, <1>3
<1>5. f = x
  BY <1>1, <1>4
<1>6. QED
  BY <1>5 DEF x

LEMMA Alloc32Keeps ==
    ASSUME PP!IInv, OrderInv, ChunkInv, alloc32
    PROVE  OrderInv' /\ ChunkInv'
<1> DEFINE pages == page_call'.pages
           n     == Len(chunks)
<1>1. /\ pc = "alloc32" /\ n < n_chunks /\ phase = "early"
      /\ UNCHANGED <<ndebug, heap, reserved_blocks>>
  BY DEF alloc32, OrderInv, paging_vars
<1>2. PP!TypeOK /\ granted \subseteq mem_bitmap /\ PP!alloc32
  BY PhysSteps DEF PP!IInv, PP!OnlyPageZeroLeaks, alloc32
<1>3. /\ granted' = granted \cup pages
      /\ pages \cap mem_bitmap = {}
      /\ 0 \notin pages
      /\ phase' = phase
      /\ pages = {} \/ \E w \in Words : pages = WordOf(w)
  BY <1>2, PP!Alloc32Effect, PhysAssumptions, UnitsAreWords, WordFacts
<1>4. chunks \in Seq(Nat) /\ n \in Nat /\ \A i \in 1 .. n : chunks[i] \in Nat
  BY DEF OrderInv
<1>5. PICK d \in V!Dir : reserved_blocks = {d} /\ heap = d * Entries
  BY <1>1 DEF OrderInv, HasBlock
<1>6. CASE pc' = "assert" /\ pages = {} /\ UNCHANGED <<chunks, mapped>>
  <2>1. OrderInv'
    BY <1>1, <1>3, <1>6 DEF OrderInv, Early, HasBlock, Ready
  <2>2. ChunkInv'
    BY <1>3, <1>6 DEF ChunkInv, Got
  <2>3. QED
    BY <2>1, <2>2
<1>7. ASSUME NEW f \in NewChunk, \A g \in NewChunk : f <= g,
             chunks' = Append(chunks, f), mapped' = 0, pc' = "map_page"
      PROVE  OrderInv' /\ ChunkInv'
  <2>1. \/ f = 0 /\ pages = {}
        \/ f # 0 /\ f \in pages /\ \E w \in Words : pages = WordOf(w) /\ f = w * CHUNK_PAGES
    <3>1. CASE pages = {}
      BY <1>7, <3>1 DEF NewChunk
    <3>2. CASE pages # {}
      <4>1. PICK w \in Words : pages = WordOf(w)
        BY <1>3, <3>2
      <4>2. NewChunk = pages
        BY <3>2 DEF NewChunk
      <4>3. f = w * CHUNK_PAGES
        BY <1>7, <4>1, <4>2, NewChunkIs
      <4>4. f # 0
        BY <1>3, <1>7, <4>2
      <4>5. QED
        BY <1>7, <4>1, <4>2, <4>3, <4>4
    <3>3. QED
      BY <3>1, <3>2
  <2>2. \E w \in Words : f = w * CHUNK_PAGES
    <3>1. 0 \in Words /\ 0 = 0 * CHUNK_PAGES
      <4>1. NWords # 0
        <5>1. Dirs * Entries # 0
          BY Sizes
        <5>2. QED
          BY <5>1, Sizes
      <4>2. QED
        BY <4>1, Sizes DEF Words
    <3>2. QED
      BY <2>1, <3>1
  <2>3. f \in Nat
    BY <2>2, WordFacts
  <2>4. /\ chunks' \in Seq(Nat) /\ Len(chunks') = n + 1 /\ chunks'[n + 1] = f
        /\ DOMAIN chunks' = 1 .. n + 1 /\ DOMAIN chunks = 1 .. n
        /\ \A i \in 1 .. n : chunks'[i] = chunks[i]
    BY <1>4, <1>7, <2>3
  <2> HIDE DEF pages, n
  <2>5. OrderInv'
    <3>1. n + 1 <= n_chunks /\ n + 1 > 0
      BY <1>1, <1>4, Sizes
    <3>2. 0 < CHUNK_PAGES
      BY Sizes
    <3>3. QED
      BY <1>1, <1>3, <1>5, <1>7, <2>4, <3>1, <3>2 DEF OrderInv, Early, HasBlock, Ready
  <2>6. \A i \in DOMAIN chunks' : \E w \in Words : chunks'[i] = w * CHUNK_PAGES
    BY <1>4, <2>2, <2>4 DEF ChunkInv
  <2>7. CASE f = 0 /\ pages = {}
    <3>1. Got' = Got
      BY <1>4, <2>4, <2>7 DEF Got
    <3>2. \A i \in Got : i \in 1 .. n /\ chunks'[i] = chunks[i]
      BY <2>4 DEF Got
    <3>3. granted' = granted
      BY <1>3, <2>7
    <3>4. ChunkInv'
      BY <2>6, <3>1, <3>2, <3>3 DEF ChunkInv
    <3>5. QED
      BY <2>5, <3>4
  <2>8. CASE f # 0 /\ f \in pages /\ \E w \in Words : pages = WordOf(w) /\ f = w * CHUNK_PAGES
    <3>1. Got' = Got \cup {n + 1} /\ n + 1 \notin Got
      BY <1>4, <2>4, <2>8 DEF Got
    <3>2. \A i \in Got : i \in 1 .. n /\ chunks'[i] = chunks[i] /\ chunks[i] \in Nat
      BY <1>4, <2>4 DEF Got
    <3>3. pages = f .. f + CHUNK_PAGES - 1
      BY <2>8 DEF WordOf
    <3>4. ASSUME NEW i \in Got PROVE chunks[i] # f
      <4>1. chunks[i] \in granted
        <5>1. chunks[i] \in chunks[i] .. chunks[i] + CHUNK_PAGES - 1
          BY <3>2, Sizes
        <5>2. QED
          BY <5>1 DEF ChunkInv
      <4>2. f \notin granted
        BY <1>2, <1>3, <2>8
      <4>3. QED
        BY <4>1, <4>2
    <3>5. \A i, j \in Got' : chunks'[i] = chunks'[j] => i = j
      BY <2>4, <3>1, <3>2, <3>4 DEF ChunkInv
    <3>6. \A p : p \in granted' <=> \E i \in Got' :
                     p \in chunks'[i] .. chunks'[i] + CHUNK_PAGES - 1
      <4>1. \A p : p \in granted <=> \E i \in Got :
                     p \in chunks'[i] .. chunks'[i] + CHUNK_PAGES - 1
        BY <3>2 DEF ChunkInv
      <4>2. \A p : p \in pages <=> p \in chunks'[n + 1] .. chunks'[n + 1] + CHUNK_PAGES - 1
        BY <2>4, <3>3
      <4>3. QED
        BY <1>3, <3>1, <4>1, <4>2
    <3>7. ChunkInv'
      BY <2>6, <3>5, <3>6 DEF ChunkInv
    <3>8. QED
      BY <2>5, <3>7
  <2>9. QED
    BY <2>1, <2>7, <2>8
<1>8. QED
  BY <1>6, <1>7 DEF alloc32

LEMMA StepOrder ==
    ASSUME PP!IInv, OrderInv, ChunkInv, [Next]_vars
    PROVE  OrderInv' /\ ChunkInv'
<1>1. ASSUME UNCHANGED <<chunks, granted>>
      PROVE  ChunkInv'
  BY <1>1 DEF ChunkInv, Got
<1>2. CASE setup_paging
  <2>1. /\ pc' \in {"init_mmap", "assert"}
        /\ UNCHANGED <<chunks, granted, mapped, phase, reserved_blocks, heap>>
        /\ pc = "setup_paging"
    BY <1>2 DEF setup_paging, pages_vars, V!setup_paging
  <2>2. OrderInv'
    BY <2>1 DEF OrderInv, Early, HasBlock, Ready
  <2>3. QED
    BY <1>1, <2>1, <2>2
<1>3. CASE no_mmap
  <2>1. OrderInv'
    BY <1>3 DEF no_mmap, pages_vars, paging_vars, OrderInv, Early, HasBlock, Ready
  <2>2. QED
    BY <1>1, <1>3, <2>1 DEF no_mmap, pages_vars
<1>4. CASE init_mmap
  <2>1. /\ pc = "init_mmap" /\ pc' = "reserve_block" /\ phase' = "early"
        /\ UNCHANGED <<chunks, granted, mapped, reserved_blocks, heap>>
    BY <1>4 DEF init_mmap, paging_vars, P!init_mmap
  <2>2. OrderInv'
    BY <2>1 DEF OrderInv, Early, HasBlock, Ready
  <2>3. QED
    BY <1>1, <2>1, <2>2
<1>5. CASE reserve_block
  <2>1. /\ pc = "reserve_block" /\ pc' = "alloc32"
        /\ UNCHANGED <<chunks, granted, mapped, phase>>
        /\ reserved_blocks = {}
    BY <1>5 DEF reserve_block, pages_vars, OrderInv
  <2>2. PICK d \in V!Dir : reserved_blocks' = reserved_blocks \cup {d}
    BY <1>5 DEF reserve_block, V!reserve_block
  <2>3. reserved_blocks' = {d} /\ heap' = d * Entries
    BY <1>5, <2>1, <2>2 DEF reserve_block
  <2>4. OrderInv'
    BY <2>1, <2>3 DEF OrderInv, Early, HasBlock, Ready
  <2>5. QED
    BY <1>1, <2>1, <2>4
<1>6. CASE alloc32
  BY <1>6, Alloc32Keeps
<1>7. CASE map_page
  <2>1. /\ pc = "map_page" /\ mapped' = mapped + 1
        /\ pc' = IF mapped' = CHUNK_PAGES THEN "alloc32" ELSE pc
        /\ UNCHANGED <<chunks, granted, phase, reserved_blocks, heap>>
    BY <1>7 DEF map_page, pages_vars, V!map_at
  <2>2. pc' = "map_page" => mapped' < CHUNK_PAGES
    BY <2>1, Sizes DEF OrderInv
  <2>3. PICK d \in V!Dir : reserved_blocks = {d} /\ heap = d * Entries
    BY <2>1 DEF OrderInv, HasBlock
  <2>4. mapped' \in Nat
    BY <2>1 DEF OrderInv
  <2>5. OrderInv'
    BY <2>1, <2>2, <2>3, <2>4 DEF OrderInv, Early, HasBlock, Ready
  <2>6. QED
    BY <1>1, <2>1, <2>5
<1>8. CASE first_block
  <2>1. /\ pc = "alloc32" /\ pc' = "_init" /\ Len(chunks) = n_chunks
        /\ UNCHANGED <<chunks, granted, mapped, phase, reserved_blocks, heap>>
    BY <1>8 DEF first_block, pages_vars, paging_vars
  <2>2. OrderInv'
    BY <2>1 DEF OrderInv, Early, HasBlock, Ready
  <2>3. QED
    BY <1>1, <2>1, <2>2
<1>9. CASE _init
  <2>1. /\ pc = "_init" /\ pc' = "clear_ident_map" /\ phase' = "main"
        /\ UNCHANGED <<chunks, granted, mapped, reserved_blocks, heap>>
    BY <1>9 DEF _init, paging_vars, P!PhysMemAllocatorCtor
  <2>2. OrderInv'
    BY <2>1 DEF OrderInv, Early, HasBlock, Ready
  <2>3. QED
    BY <1>1, <2>1, <2>2
<1>10. CASE clear_ident_map
  <2>1. /\ pc = "clear_ident_map" /\ pc' = "main"
        /\ UNCHANGED <<chunks, granted, mapped, phase, reserved_blocks, heap>>
    BY <1>10 DEF clear_ident_map, pages_vars, V!clear_ident_map
  <2>2. OrderInv'
    BY <2>1 DEF OrderInv, Early, HasBlock, Ready
  <2>3. QED
    BY <1>1, <2>1, <2>2
<1>11. CASE (\E n \in Requests : malloc(n)) \/ UNCHANGED vars
  <2>1. UNCHANGED <<pc, chunks, granted, mapped, phase, reserved_blocks, heap>>
    BY <1>11 DEF malloc, vars, pages_vars, paging_vars
  <2>2. OrderInv'
    BY <2>1 DEF OrderInv, Early, HasBlock, Ready
  <2>3. QED
    BY <1>1, <2>1, <2>2
<1>12. QED
  BY <1>2, <1>3, <1>4, <1>5, <1>6, <1>7, <1>8, <1>9, <1>10, <1>11 DEF Next, Boot

LEMMA OrderInvariant == Spec => [](PP!IInv /\ OrderInv /\ ChunkInv)
<1>1. Init => OrderInv /\ ChunkInv
  BY InitOrder
<1>2. PP!IInv /\ OrderInv /\ ChunkInv /\ [Next]_vars => (OrderInv /\ ChunkInv)'
  BY StepOrder
<1>3. QED
  BY <1>1, <1>2, PhysInvariant, PTL DEF Spec

-----------------------------------------------------------------------------
(* The pages init_heap_pages maps.                                         *)

\* Page j of chunk i, as map_page is to return it.
PageAt(i, j)  == heap + (i - 1) * CHUNK_PAGES + j
FrameAt(i, j) == chunks[i] + j
HeapEntry(i, j) == <<PageAt(i, j), FrameAt(i, j)>>

\* It lies in the reserved block, and its frame is one of the machine's.
LEMMA HeapPageFacts ==
    ASSUME OrderInv, ChunkInv, pc \in HasBlock,
           NEW i \in 1 .. n_chunks, NEW j \in 0 .. CHUNK_PAGES - 1
    PROVE  /\ PageAt(i, j) \in P!Page
           /\ PageAt(i, j) \in heap .. heap + HEAP_PAGES - 1
           /\ PageAt(i, j) \div Entries \in reserved_blocks
           /\ i <= Len(chunks) => chunks[i] \in Nat /\ FrameAt(i, j) \in P!Page
<1> DEFINE k == (i - 1) * CHUNK_PAGES + j
<1>1. PICK d \in V!Dir : reserved_blocks = {d} /\ heap = d * Entries
  BY DEF OrderInv
<1>2. /\ i - 1 \in 0 .. n_chunks - 1
      /\ CHUNK_PAGES \in Nat \ {0} /\ n_chunks \in Nat
      /\ n_chunks * CHUNK_PAGES = Entries /\ HEAP_PAGES = Entries
      /\ Entries \in Nat \ {0} /\ Dirs \in Nat \ {0}
      /\ Dirs * Entries = P!NPages
      /\ d \in 0 .. Dirs - 1
  BY Sizes DEF V!Dir
<1>3. k \in 0 .. Entries - 1 /\ (i - 1) * CHUNK_PAGES \in Nat
  BY <1>2, ChunkBounds
<1>4. PageAt(i, j) = d * Entries + k
  <2>1. d * Entries \in Nat
    BY <1>2, IndexBounds, <1>3
  <2>2. QED
    BY <1>1, <1>2, <1>3, <2>1 DEF PageAt
<1> HIDE DEF k
<1>5. d * Entries + k \in 0 .. Dirs * Entries - 1 /\ d * Entries \in Nat
  BY <1>2, <1>3, IndexBounds
<1>6. (d * Entries + k) \div Entries = d
  <2>1. d \in Nat
    BY <1>2
  <2>2. QED
    BY <1>2, <1>3, <2>1, IndexRow
<1>7. ASSUME i <= Len(chunks)
      PROVE  chunks[i] \in Nat /\ FrameAt(i, j) \in P!Page
  <2>1. i \in DOMAIN chunks
    BY <1>2, <1>7 DEF OrderInv
  <2>2. PICK w \in Words : chunks[i] = w * CHUNK_PAGES
    BY <2>1 DEF ChunkInv
  <2>3. w \in 0 .. NWords - 1 /\ NWords \in Nat /\ NWords * CHUNK_PAGES = P!NPages
    BY Sizes DEF Words
  <2>4. w * CHUNK_PAGES + j \in 0 .. P!NPages - 1 /\ w * CHUNK_PAGES \in Nat
    BY <2>3, ChunkBounds
  <2>5. QED
    BY <2>2, <2>4 DEF FrameAt, P!Page
<1>8. PageAt(i, j) \in P!Page /\ PageAt(i, j) \in heap .. heap + HEAP_PAGES - 1
  BY <1>1, <1>2, <1>3, <1>4, <1>5 DEF P!Page
<1>9. PageAt(i, j) \div Entries \in reserved_blocks
  BY <1>1, <1>4, <1>6
<1>10. QED
  BY <1>7, <1>8, <1>9

\* Different pages of the heap are different places in its chunks.
LEMMA PlacesApart ==
    ASSUME heap \in Nat,
           NEW i \in 1 .. n_chunks, NEW j \in 0 .. CHUNK_PAGES - 1,
           NEW a \in 1 .. n_chunks, NEW b \in 0 .. CHUNK_PAGES - 1,
           PageAt(i, j) = PageAt(a, b)
    PROVE  i = a /\ j = b
<1>1. /\ i - 1 \in 0 .. n_chunks - 1 /\ a - 1 \in 0 .. n_chunks - 1
      /\ CHUNK_PAGES \in Nat \ {0} /\ n_chunks \in Nat
  BY Sizes
<1> DEFINE x == (i - 1) * CHUNK_PAGES
           y == (a - 1) * CHUNK_PAGES
<1>2. x \in Nat /\ (x + j) \div CHUNK_PAGES = i - 1
  BY <1>1, ChunkBounds
<1>3. y \in Nat /\ (y + b) \div CHUNK_PAGES = a - 1
  BY <1>1, ChunkBounds
<1>4. heap + x + j = heap + y + b
  BY DEF PageAt
<1>5. i - 1 = a - 1 => x = y
  OBVIOUS
<1> HIDE DEF x, y
<1>6. x + j = y + b
  BY <1>2, <1>3, <1>4
<1>7. i - 1 = a - 1
  BY <1>2, <1>3, <1>6
<1>8. QED
  BY <1>1, <1>2, <1>3, <1>5, <1>6, <1>7

\* Every page of the heap is in one of its chunks.
LEMMA HeapPlaces ==
    ASSUME heap \in Nat, NEW v \in heap .. heap + HEAP_PAGES - 1
    PROVE  \E i \in 1 .. n_chunks, j \in 0 .. CHUNK_PAGES - 1 : v = PageAt(i, j)
<1> DEFINE k == v - heap
           q == k \div CHUNK_PAGES
           j == k % CHUNK_PAGES
<1>1. /\ CHUNK_PAGES \in Nat \ {0} /\ n_chunks \in Nat
      /\ n_chunks * CHUNK_PAGES = HEAP_PAGES /\ HEAP_PAGES \in Nat
  BY Sizes
<1>2. k \in Nat /\ k < HEAP_PAGES /\ v = heap + k
  BY <1>1
<1> HIDE DEF k
<1>3. k = CHUNK_PAGES * q + j /\ q \in Nat /\ j \in 0 .. CHUNK_PAGES - 1
  BY <1>1, <1>2, SMTT(30)
<1> HIDE DEF q, j
<1>4. q < n_chunks
  <2>1. SUFFICES ASSUME q >= n_chunks PROVE FALSE
    BY <1>1, <1>3
  <2>2. q * CHUNK_PAGES >= n_chunks * CHUNK_PAGES
    BY <1>1, <1>3, <2>1, SMTT(30)
  <2>3. CHUNK_PAGES * q = q * CHUNK_PAGES /\ q * CHUNK_PAGES \in Nat
    BY <1>1, <1>3, SMTT(30)
  <2>4. QED
    BY <1>1, <1>2, <1>3, <2>2, <2>3
<1>5. q + 1 \in 1 .. n_chunks /\ (q + 1) - 1 = q
  BY <1>1, <1>3, <1>4
<1>6. v = PageAt(q + 1, j)
  <2>1. CHUNK_PAGES * q = q * CHUNK_PAGES /\ q * CHUNK_PAGES \in Nat
    BY <1>1, <1>3, SMTT(30)
  <2>2. v = heap + q * CHUNK_PAGES + j
    BY <1>1, <1>2, <1>3, <2>1
  <2>3. QED
    BY <1>5, <2>2 DEF PageAt
<1>7. QED
  BY <1>3, <1>5, <1>6

\* What map_page is called with next.
LEMMA NextCall ==
    ASSUME OrderInv, ChunkInv, map_page
    PROVE  /\ Len(chunks) \in 1 .. n_chunks /\ mapped \in 0 .. CHUNK_PAGES - 1
           /\ PageAt(Len(chunks), mapped) \in VP!Page
           /\ FrameAt(Len(chunks), mapped) \in P!Page
           /\ VP!map_at(PageAt(Len(chunks), mapped), FrameAt(Len(chunks), mapped))
<1> DEFINE n == Len(chunks)
<1>1. /\ pc \in HasBlock /\ n \in 1 .. n_chunks /\ mapped \in 0 .. CHUNK_PAGES - 1
  BY Sizes DEF map_page, OrderInv, HasBlock
<1>2. PageAt(n, mapped) = heap + CHUNK_PAGES * (n - 1) + mapped
  <2>1. CHUNK_PAGES * (n - 1) = (n - 1) * CHUNK_PAGES
    <3>1. CHUNK_PAGES \in Nat /\ n - 1 \in Nat
      BY <1>1, Sizes
    <3>2. QED
      BY <3>1, SMTT(30)
  <2>2. QED
    BY <2>1 DEF PageAt
<1>3. V!map_at(PageAt(n, mapped), FrameAt(n, mapped))
  BY <1>2 DEF map_page, FrameAt
<1>4. VP!map_at(PageAt(n, mapped), FrameAt(n, mapped))
  BY <1>3, PagingSteps
<1>5. PageAt(n, mapped) \in P!Page /\ FrameAt(n, mapped) \in P!Page
  <2>1. n <= Len(chunks)
    BY <1>1
  <2>2. QED
    BY <1>1, <2>1, HeapPageFacts
<1>6. P!Page = VP!Page
  BY OneMachineAssumption DEF P!Page, VP!Page
<1>7. QED
  BY <1>1, <1>4, <1>5, <1>6

LEMMA PagingBehaves == Spec => VP!Spec
<1>1. Init => VP!Init
  BY PagingSteps DEF Init
<1>2. OrderInv /\ ChunkInv /\ [Next]_vars => [VP!Next]_(VP!vars)
  <2> SUFFICES ASSUME OrderInv, ChunkInv, [Next]_vars
               PROVE  VP!Next \/ UNCHANGED VP!vars
    OBVIOUS
  <2>1. CASE setup_paging
    BY <2>1, PagingSteps DEF setup_paging, VP!Next
  <2>2. CASE reserve_block
    BY <2>2, PagingSteps DEF reserve_block, VP!Next
  <2>3. CASE clear_ident_map
    BY <2>3, PagingSteps DEF clear_ident_map, VP!Next
  <2>4. CASE map_page
    BY <2>4, NextCall DEF VP!Next
  <2>5. CASE no_mmap \/ init_mmap \/ alloc32 \/ first_block \/ _init
    BY <2>5 DEF no_mmap, init_mmap, alloc32, first_block, _init, paging_vars, VP!vars
  <2>6. CASE \E n \in Requests : malloc(n)
    BY <2>6 DEF malloc, paging_vars, VP!vars
  <2>7. CASE UNCHANGED vars
    BY <2>7 DEF vars, paging_vars, VP!vars
  <2>8. QED
    BY <2>1, <2>2, <2>3, <2>4, <2>5, <2>6, <2>7 DEF Next, Boot
<1>3. QED
  BY <1>1, <1>2, OrderInvariant, PTL DEF Spec, VP!Spec

\* The boot and the mallocs after it use each component only in ways the
\* component's own specification allows: the kernel is a behaviour of the page
\* allocator, of paging and of the heap at once, with the other two's steps
\* between, so what is proved of each alone holds of it here.  For paging this is
\* an argument: that map_page is called only on the heap's pages, in the block
\* reserved for them and on frames below the end of memory, has to be carried
\* along (OrderInv, ChunkInv).
THEOREM ComponentsBehave == Spec => PP!Spec /\ VP!Spec /\ HP!Spec
BY PhysBehaves, PagingBehaves, HeapBehaves, PTL

LEMMA PagingInvariant == Spec => []VP!HInv
BY PagingBehaves, VP!AlwaysHInv, PagingAssumptions, PTL

-----------------------------------------------------------------------------
(* What init_heap_pages has mapped so far.                                 *)

IsMapped(i, j) ==
    /\ i \in 1 .. Len(chunks) /\ j \in 0 .. CHUNK_PAGES - 1
    /\ pc = "map_page" /\ i = Len(chunks) => j < mapped

Mappings == {<<m.page, m.frame>> : m \in maps}

\* The stage of paging follows the boot, and map_page has returned exactly the
\* pages of the chunks so far, each mapped once, to its own frame.
PageInv ==
    /\ pc \in Early => stage = "early"
    /\ pc = "main" => stage = "main"
    /\ pc = "setup_paging" => maps = {}
    /\ pc \in Early \cup {"main"} =>
          \A m : m \in Mappings <=> \E i, j : IsMapped(i, j) /\ m = HeapEntry(i, j)
    /\ \A m, n \in maps : m.page = n.page => m = n

\* Steps that map nothing and leave the chunks alone.
LEMMA SameMaps ==
    ASSUME OrderInv, PageInv, pc \in Early \cup {"main"},
           pc # "map_page", pc' # "map_page",
           UNCHANGED <<maps, chunks, heap>>
    PROVE  \A m : m \in Mappings' <=> \E i, j : IsMapped(i, j)' /\ m = HeapEntry(i, j)'
<1>1. \A i, j : IsMapped(i, j)' <=> IsMapped(i, j)
  BY DEF IsMapped
<1>2. \A i, j : HeapEntry(i, j)' = HeapEntry(i, j)
  BY DEF HeapEntry, PageAt, FrameAt
<1>3. \A m : m \in Mappings <=> \E i, j : IsMapped(i, j) /\ m = HeapEntry(i, j)
  BY DEF PageInv
<1>4. Mappings' = Mappings
  BY DEF Mappings
<1>5. QED
  BY <1>1, <1>2, <1>3, <1>4

LEMMA MapPageKeeps ==
    ASSUME VP!HInv, OrderInv, ChunkInv, PageInv, map_page
    PROVE  PageInv'
<1> DEFINE n == Len(chunks)
           v == PageAt(n, mapped)
           f == FrameAt(n, mapped)
<1>1. /\ pc = "map_page" /\ stage = "early" /\ pc' \in {"map_page", "alloc32"}
      /\ mapped' = mapped + 1
      /\ pc' = "map_page" <=> mapped + 1 # CHUNK_PAGES
      /\ UNCHANGED <<heap, chunks>>
  BY DEF map_page, PageInv, Early
<1>2. /\ n \in 1 .. n_chunks /\ mapped \in 0 .. CHUNK_PAGES - 1
      /\ v \in VP!Page /\ f \in P!Page /\ VP!map_at(v, f)
  BY NextCall
<1> HIDE DEF v, f
<1>3. VP!IInv
  BY DEF VP!HInv
<1>4. VP!Writes({}, {}, v, f)
  BY <1>2, <1>3, VP!MapAtWrites, PagingAssumptions
<1>5. stage' # "fault"
  BY <1>1, <1>2, <1>4, VP!WriteDoesNotFault, PagingAssumptions
<1>6. /\ maps' = maps \cup {[page |-> v, frame |-> f, call |-> calls]}
      /\ stage' = stage
  BY <1>2, <1>3, <1>4, <1>5, VP!WriteEffect, PagingAssumptions
<1>7. \A i, j : HeapEntry(i, j)' = HeapEntry(i, j)
  BY <1>1 DEF HeapEntry, PageAt, FrameAt
<1>8. <<v, f>> = HeapEntry(n, mapped)
  BY DEF HeapEntry, v, f
<1>new. PICK r : /\ maps' = maps \cup {r}
                 /\ r.page = v /\ r.frame = f
  <2>1. PICK r : r = [page |-> v, frame |-> f, call |-> calls]
    OBVIOUS
  <2>2. r.page = v /\ r.frame = f /\ maps' = maps \cup {r}
    BY <1>6, <2>1
  <2>3. QED
    BY <2>2
<1>9. \A i, j : IsMapped(i, j)' <=> IsMapped(i, j) \/ (i = n /\ j = mapped)
  <2>1. CHUNK_PAGES \in Nat
    BY Sizes
  <2>2. QED
    BY <1>1, <1>2, <2>1 DEF IsMapped
<1>10. \A m : m \in Mappings <=> \E i, j : IsMapped(i, j) /\ m = HeapEntry(i, j)
  BY <1>1 DEF PageInv, Early
<1> HIDE DEF n
<1>11. \A m : m \in Mappings' <=> \E i, j : IsMapped(i, j)' /\ m = HeapEntry(i, j)'
  <2>1. \A m : m \in Mappings' <=> m \in Mappings \/ m = <<v, f>>
    BY <1>new DEF Mappings
  <2>2. QED
    BY <1>7, <1>8, <1>9, <1>10, <2>1
<1>12. \A m \in maps : m.page # v
  <2>1. SUFFICES ASSUME NEW m \in maps, m.page = v PROVE FALSE
    OBVIOUS
  <2>2. <<m.page, m.frame>> \in Mappings
    BY DEF Mappings
  <2>3. PICK i, j : IsMapped(i, j) /\ <<m.page, m.frame>> = HeapEntry(i, j)
    BY <1>10, <2>2
  <2>4. PageAt(i, j) = PageAt(n, mapped)
    BY <2>1, <2>3 DEF HeapEntry, v
  <2>5. /\ i \in 1 .. n /\ n \in 1 .. n_chunks /\ j \in 0 .. CHUNK_PAGES - 1
        /\ i = n => j < mapped
    BY <1>1, <1>2, <2>3 DEF IsMapped, n
  <2>6. i \in 1 .. n_chunks /\ heap \in Nat
    <3>1. n_chunks \in Nat /\ Entries \in Nat
      BY Sizes
    <3>2. PICK d \in V!Dir : heap = d * Entries
      BY <1>1 DEF OrderInv, HasBlock
    <3>3. d \in Nat /\ d * Entries \in Nat
      BY <3>1, SMTT(30) DEF V!Dir
    <3>4. QED
      BY <2>5, <3>1, <3>2, <3>3
  <2>7. i = n /\ j = mapped
    BY <1>2, <2>4, <2>5, <2>6, PlacesApart
  <2>8. QED
    BY <1>2, <2>5, <2>7
<1>13. \A a, b \in maps' : a.page = b.page => a = b
  BY <1>1, <1>new, <1>12 DEF PageInv
<1>14. QED
  BY <1>1, <1>6, <1>11, <1>13 DEF PageInv, Early

LEMMA Alloc32KeepsMaps ==
    ASSUME OrderInv, PageInv, alloc32
    PROVE  PageInv'
<1> DEFINE n == Len(chunks)
<1>1. pc = "alloc32" /\ stage = "early" /\ UNCHANGED <<stage, maps, heap>>
  BY DEF alloc32, PageInv, Early, paging_vars
<1>2. CASE pc' = "assert"
  BY <1>1, <1>2 DEF PageInv, Early
<1>3. ASSUME NEW f, chunks' = Append(chunks, f), mapped' = 0, pc' = "map_page"
      PROVE  PageInv'
  <2>1. /\ Len(chunks') = n + 1 /\ n \in Nat
        /\ \A i \in 1 .. n : chunks'[i] = chunks[i]
    BY <1>3 DEF OrderInv
  <2>2. \A i, j : IsMapped(i, j)' <=> IsMapped(i, j)
    <3>1. CHUNK_PAGES \in Nat
      BY Sizes
    <3>2. QED
      BY <1>1, <1>3, <2>1, <3>1 DEF IsMapped
  <2>3. \A i, j : IsMapped(i, j) => HeapEntry(i, j)' = HeapEntry(i, j)
    BY <1>1, <2>1 DEF IsMapped, HeapEntry, PageAt, FrameAt
  <2>4. \A m : m \in Mappings <=> \E i, j : IsMapped(i, j) /\ m = HeapEntry(i, j)
    BY <1>1 DEF PageInv, Early
  <2>5. \A m : m \in Mappings' <=> \E i, j : IsMapped(i, j)' /\ m = HeapEntry(i, j)'
    BY <1>1, <2>2, <2>3, <2>4 DEF Mappings
  <2>6. QED
    BY <1>1, <1>3, <2>5 DEF PageInv, Early
<1>4. QED
  BY <1>2, <1>3 DEF alloc32

LEMMA StepPages ==
    ASSUME VP!HInv, OrderInv, ChunkInv, PageInv, [Next]_vars
    PROVE  PageInv'
<1>1. CASE setup_paging
  <2>1. /\ pc = "setup_paging" /\ maps' = {} /\ Mappings' = {} /\ chunks' = <<>>
        /\ pc' = (IF stage' = "early" THEN "init_mmap" ELSE "assert")
    BY <1>1 DEF setup_paging, V!setup_paging, PageInv, OrderInv, Mappings
  <2>2. \A i, j : ~IsMapped(i, j)'
    BY <2>1 DEF IsMapped
  <2>3. QED
    BY <2>1, <2>2 DEF PageInv, Early
<1>2. CASE no_mmap
  BY <1>2 DEF no_mmap, paging_vars, PageInv, Early
<1>3. CASE init_mmap
  <2>1. /\ pc = "init_mmap" /\ pc' = "reserve_block"
        /\ UNCHANGED <<maps, chunks, heap, stage>>
    BY <1>3 DEF init_mmap, paging_vars
  <2>2. \A m : m \in Mappings' <=> \E i, j : IsMapped(i, j)' /\ m = HeapEntry(i, j)'
    BY <2>1, SameMaps DEF Early
  <2>3. QED
    BY <2>1, <2>2 DEF PageInv, Early
<1>4. CASE reserve_block
  <2>1. /\ pc = "reserve_block" /\ pc' = "alloc32" /\ chunks = <<>>
        /\ UNCHANGED <<maps, chunks, stage>>
    BY <1>4 DEF reserve_block, V!reserve_block, OrderInv
  <2>2. \A i, j : ~IsMapped(i, j) /\ ~IsMapped(i, j)'
    BY <2>1 DEF IsMapped
  <2>3. Mappings' = Mappings
    BY <2>1 DEF Mappings
  <2>4. QED
    BY <2>1, <2>2, <2>3 DEF PageInv, Early
<1>5. CASE alloc32
  BY <1>5, Alloc32KeepsMaps
<1>6. CASE map_page
  BY <1>6, MapPageKeeps
<1>7. CASE first_block \/ _init
  <2>1. /\ pc \in {"alloc32", "_init"} /\ pc' \in {"_init", "clear_ident_map"}
        /\ UNCHANGED <<maps, chunks, heap, stage>>
    BY <1>7 DEF first_block, _init, paging_vars
  <2>2. \A m : m \in Mappings' <=> \E i, j : IsMapped(i, j)' /\ m = HeapEntry(i, j)'
    BY <2>1, SameMaps DEF Early
  <2>3. QED
    BY <2>1, <2>2 DEF PageInv, Early
<1>8. CASE clear_ident_map
  <2>1. /\ pc = "clear_ident_map" /\ pc' = "main" /\ stage' = "main"
        /\ UNCHANGED <<maps, chunks, heap>>
    BY <1>8 DEF clear_ident_map, V!clear_ident_map
  <2>2. \A m : m \in Mappings' <=> \E i, j : IsMapped(i, j)' /\ m = HeapEntry(i, j)'
    BY <2>1, SameMaps DEF Early
  <2>3. QED
    BY <2>1, <2>2 DEF PageInv, Early
<1>9. CASE (\E k \in Requests : malloc(k)) \/ UNCHANGED vars
  <2>1. UNCHANGED <<pc, maps, chunks, heap, stage, mapped>>
    BY <1>9 DEF malloc, vars, paging_vars
  <2>2. \A i, j : IsMapped(i, j)' <=> IsMapped(i, j)
    BY <2>1 DEF IsMapped
  <2>3. \A i, j : HeapEntry(i, j)' = HeapEntry(i, j)
    BY <2>1 DEF HeapEntry, PageAt, FrameAt
  <2>4. QED
    BY <2>1, <2>2, <2>3 DEF PageInv, Mappings
<1>10. QED
  BY <1>1, <1>2, <1>3, <1>4, <1>5, <1>6, <1>7, <1>8, <1>9 DEF Next, Boot

\* All that the boot keeps: the inductive invariant of each component, and
\* what relates them.
IInv ==
    /\ PP!IInv /\ VP!HInv /\ HP!IInv
    /\ OrderInv /\ ChunkInv /\ PageInv

LEMMA Inductive == Spec => []IInv
<1>1. Init => PageInv
  BY DEF Init, V!Init, PageInv, Early
<1>2. VP!HInv /\ OrderInv /\ ChunkInv /\ PageInv /\ [Next]_vars => PageInv'
  BY StepPages
<1>3. PP!IInv /\ VP!HInv /\ HP!IInv /\ OrderInv /\ ChunkInv /\ PageInv => IInv
  BY DEF IInv
<1>4. QED
  BY <1>1, <1>2, <1>3, OrderInvariant, PagingInvariant, HeapInvariant, PTL DEF Spec

-----------------------------------------------------------------------------
(* The heap and its frames.                                                *)

LEMMA SameTranslation == \A v : V!Translate(v) = VP!Translate(v)
BY DEF V!Translate, VP!Translate, V!Walk, VP!Walk, V!None, VP!None,
       V!VIRT_TO_PD_INDEX, VP!VIRT_TO_PD_INDEX, V!VIRT_TO_PT_INDEX, VP!VIRT_TO_PT_INDEX

\* The page allocator has not granted what it must keep.
LEMMA GrantedIsFree ==
    ASSUME IInv, Ready, NEW p \in granted
    PROVE  p \notin reserved /\ p \notin V!Kernel /\ p # VgaFrame /\ p # 0
<1>1. phase # "bss" /\ PP!Accounted /\ ChunkInv
  BY DEF IInv, PP!IInv, OrderInv, Ready
<1>2. reserved = PP!MarkedBy(mmap) /\ granted \cap reserved = {}
  BY <1>1 DEF PP!Accounted
<1>3. PICK i \in Got : p \in chunks[i] .. chunks[i] + CHUNK_PAGES - 1
  BY <1>1 DEF ChunkInv
<1>4. chunks[i] \in Nat /\ chunks[i] # 0
  BY DEF Got, IInv, OrderInv
<1>5. p # 0
  BY <1>3, <1>4
<1>6. PP!UnavailPages(KernelRegion) \cup PP!UnavailPages(VgaRegion) \subseteq reserved
  BY <1>2 DEF PP!MarkedBy
<1>7. /\ KernelStart \in Nat /\ KernelEnd \in Nat /\ KernelStart < KernelEnd
      /\ KernelEnd <= KERNEL_BASE /\ KERNEL_BASE \in 0 .. Dirs * Entries - 1
      /\ VgaFrame \in 0 .. Entries - 1
  BY ComponentsAssumption DEF V!GeometryAssumption, V!Page
<1>8. PP!Page = 0 .. Dirs * Entries - 1 /\ Dirs * Entries \in Nat
  BY Sizes DEF PP!Page, PP!NPages, P!NPages
<1>9. ASSUME p \in V!Kernel PROVE FALSE
  <2>1. p \in KernelStart .. KernelEnd - 1
    BY <1>9 DEF V!Kernel
  <2>2. KernelRegion.addr = KernelStart /\ KernelRegion.len = KernelEnd - KernelStart
        /\ KernelRegion.type = "reserved"
    BY OneMachineAssumption
  <2>3. p \in PP!Page
    BY <1>7, <1>8, <2>1
  <2>4. p >= KernelStart \div 1 /\ p * 1 < KernelStart + (KernelEnd - KernelStart)
    BY <1>7, <2>1
  <2>5. p \in PP!UnavailPages(KernelRegion)
    BY <2>2, <2>3, <2>4 DEF PP!UnavailPages
  <2>6. QED
    BY <1>2, <1>6, <2>5
<1>10. ASSUME p = VgaFrame PROVE FALSE
  <2>1. VgaRegion.addr = VgaFrame /\ VgaRegion.len = 1 /\ VgaRegion.type = "reserved"
    BY OneMachineAssumption
  <2>2. p \in PP!Page
    <3>1. Entries <= Dirs * Entries
      BY Sizes, SMTT(30)
    <3>2. QED
      BY <1>7, <1>8, <1>10, <3>1, Sizes
  <2>3. p >= VgaFrame \div 1 /\ p * 1 < VgaFrame + 1
    BY <1>7, <1>10
  <2>4. p \in PP!UnavailPages(VgaRegion)
    BY <2>1, <2>2, <2>3 DEF PP!UnavailPages
  <2>5. QED
    BY <1>2, <1>6, <2>4
<1>11. QED
  BY <1>2, <1>5, <1>9, <1>10

\* Once init_heap_pages is over it has mapped every page of every chunk.
LEMMA AllMapped ==
    ASSUME IInv, VP!MappingsHold, Ready,
           NEW i \in 1 .. n_chunks, NEW j \in 0 .. CHUNK_PAGES - 1
    PROVE  /\ HeapEntry(i, j) \in Mappings
           /\ V!Translate(PageAt(i, j)) = FrameAt(i, j)
           /\ <<PageAt(i, j), FrameAt(i, j)>> \in seen
<1>1. /\ pc \in Early \cup {"main"} /\ pc # "map_page" /\ Len(chunks) = n_chunks
      /\ VP!Paging
  BY DEF Ready, Early, IInv, OrderInv, PageInv, VP!Paging
<1>2. IsMapped(i, j)
  BY <1>1 DEF IsMapped
<1>3. HeapEntry(i, j) \in Mappings
  BY <1>1, <1>2 DEF IInv, PageInv
<1>4. PICK m \in maps : m.page = PageAt(i, j) /\ m.frame = FrameAt(i, j)
  BY <1>3 DEF HeapEntry, Mappings
<1>5. m \notin VP!Replaced
  <2>1. \A n \in maps : n.page = m.page => n = m
    BY DEF IInv, PageInv
  <2>2. m.call \in Int
    <3>1. VP!TypeOK /\ HEAP_PAGES \in Nat
      BY Sizes DEF IInv, VP!HInv, VP!IInv
    <3>2. QED
      BY <3>1 DEF VP!TypeOK
  <2>3. \A n \in maps : n.page = m.page => n.call <= m.call
    BY <2>1, <2>2
  <2>4. QED
    BY <2>3 DEF VP!Replaced, VP!Latest
<1>6. VP!Translate(m.page) = m.frame
  BY <1>5 DEF VP!MappingsHold
<1>7. <<m.page, m.frame>> \in seen
  BY <1>1 DEF IInv, VP!HInv, VP!MapsSeen
<1>8. QED
  BY <1>3, <1>4, <1>6, <1>7, SameTranslation

\* No page of the image or of the boot information lies in the heap's block.
LEMMA HeapApart ==
    ASSUME IInv, Ready, NEW m \in boot, NEW f \in VP!Needed(m),
           NEW i \in 1 .. n_chunks, NEW j \in 0 .. CHUNK_PAGES - 1
    PROVE  f \in Nat /\ PageAt(i, j) # KERNEL_BASE + f
<1>1. VP!Paging /\ VP!IInv /\ pc \in HasBlock
  BY DEF Ready, Early, HasBlock, IInv, PageInv, VP!Paging, VP!HInv
<1>2. f \in Nat /\ VP!VIRT_TO_PD_INDEX(f) <= VP!LastTable
  BY <1>1 DEF VP!IInv, VP!ImageMapped
<1>3. VP!VIRT_TO_PD_INDEX(KERNEL_BASE + f) = VP!HighBase + VP!VIRT_TO_PD_INDEX(f)
  BY <1>2, VP!HighAlias, PagingAssumptions
<1>4. PageAt(i, j) \div Entries \in reserved_blocks
  BY <1>1, HeapPageFacts DEF IInv
<1>5. VP!VIRT_TO_PD_INDEX(PageAt(i, j)) \in VP!Above
  BY <1>1, <1>4 DEF VP!IInv, VP!BlocksEntered, VP!VIRT_TO_PD_INDEX
<1>6. VP!HighBase \in Nat /\ VP!LastTable \in Nat
  BY VP!Layout, PagingAssumptions
<1>7. VP!VIRT_TO_PD_INDEX(f) \in Nat
  BY <1>2, VP!PageParts, PagingAssumptions
<1>8. VP!VIRT_TO_PD_INDEX(PageAt(i, j)) > VP!HighBase + VP!LastTable
  BY <1>5 DEF VP!Above
<1>9. QED
  BY <1>2, <1>3, <1>6, <1>7, <1>8

\* What a translation of the higher half leads to.
LEMMA HigherHalf ==
    ASSUME IInv, VP!HigherHalfExact, Ready, NEW s \in seen, s[1] >= KERNEL_BASE
    PROVE  \/ \E i \in 1 .. n_chunks, j \in 0 .. CHUNK_PAGES - 1 :
                  s = <<PageAt(i, j), FrameAt(i, j)>>
           \/ \E m \in boot : \E f \in VP!Needed(m) : s = <<KERNEL_BASE + f, f>>
<1>1. /\ pc \in Early \cup {"main"} /\ pc # "map_page" /\ Len(chunks) = n_chunks
      /\ VP!Paging
  BY DEF Ready, Early, IInv, OrderInv, PageInv, VP!Paging
<1>2. s \in VP!Known
  BY <1>1 DEF VP!HigherHalfExact
<1>3. CASE \E m \in boot : s \in {<<KERNEL_BASE + f, f>> : f \in VP!Needed(m)}
  BY <1>3
<1>4. CASE s \in Mappings
  <2>1. PICK i, j : IsMapped(i, j) /\ s = HeapEntry(i, j)
    BY <1>1, <1>4 DEF IInv, PageInv
  <2>2. i \in 1 .. n_chunks /\ j \in 0 .. CHUNK_PAGES - 1
    BY <1>1, <2>1 DEF IsMapped
  <2>3. QED
    BY <2>1, <2>2 DEF HeapEntry
<1>5. QED
  BY <1>2, <1>3, <1>4 DEF VP!Known, Mappings

\* The places of the heap have frames of their own, all granted.
LEMMA FramesApart ==
    ASSUME IInv, Ready, Served,
           NEW i \in 1 .. n_chunks, NEW j \in 0 .. CHUNK_PAGES - 1
    PROVE  /\ FrameAt(i, j) \in granted
           /\ \A a \in 1 .. n_chunks, b \in 0 .. CHUNK_PAGES - 1 :
                 FrameAt(i, j) = FrameAt(a, b) => i = a /\ j = b
<1>1. Len(chunks) = n_chunks /\ chunks \in Seq(Nat) /\ CHUNK_PAGES \in Nat \ {0}
      /\ DOMAIN chunks = 1 .. n_chunks /\ NWords \in Nat
  BY Sizes DEF IInv, OrderInv
<1>2. \A a \in 1 .. n_chunks : a \in Got /\ chunks[a] \in Nat
  BY <1>1 DEF Got, Served
<1>3. ASSUME NEW a \in 1 .. n_chunks, NEW b \in 0 .. CHUNK_PAGES - 1
      PROVE  (FrameAt(a, b) \div CHUNK_PAGES) * CHUNK_PAGES = chunks[a]
  <2>1. PICK w \in Words : chunks[a] = w * CHUNK_PAGES
    BY <1>1 DEF IInv, ChunkInv
  <2>2. w \in 0 .. NWords - 1
    BY DEF Words
  <2>3. (w * CHUNK_PAGES + b) \div CHUNK_PAGES = w
    BY <1>1, <2>2, ChunkBounds
  <2>4. QED
    BY <2>1, <2>3 DEF FrameAt
<1>4. FrameAt(i, j) \in granted
  <2>1. FrameAt(i, j) \in chunks[i] .. chunks[i] + CHUNK_PAGES - 1
    BY <1>1, <1>2 DEF FrameAt
  <2>2. QED
    BY <1>2, <2>1 DEF IInv, ChunkInv
<1>5. ASSUME NEW a \in 1 .. n_chunks, NEW b \in 0 .. CHUNK_PAGES - 1,
             FrameAt(i, j) = FrameAt(a, b)
      PROVE  i = a /\ j = b
  <2>1. chunks[i] = chunks[a]
    BY <1>3, <1>5
  <2>2. i = a
    BY <1>2, <2>1 DEF IInv, ChunkInv
  <2>3. QED
    BY <1>1, <1>2, <1>5, <2>1, <2>2 DEF FrameAt
<1>6. QED
  BY <1>4, <1>5

\* The pages of the heap are the places in its chunks.
LEMMA HeapPagesAre ==
    ASSUME IInv, Ready
    PROVE  /\ heap \in Nat
           /\ \A v : v \in HeapPages <=>
                \E i \in 1 .. n_chunks, j \in 0 .. CHUNK_PAGES - 1 : v = PageAt(i, j)
           /\ \A v \in HeapPages : v \in Nat /\ v >= KERNEL_BASE
<1>1. pc \in HasBlock /\ OrderInv /\ ChunkInv /\ VP!IInv /\ VP!Paging
  BY DEF Ready, Early, HasBlock, IInv, PageInv, VP!HInv, VP!Paging
<1>2. HEAP_PAGES \in Nat /\ Entries \in Nat \ {0}
  BY Sizes
<1>3. PICK d \in V!Dir : heap = d * Entries
  BY <1>1 DEF OrderInv
<1>4. heap \in Nat
  <2>1. d \in Nat
    BY Sizes DEF V!Dir
  <2>2. QED
    BY <1>2, <1>3, <2>1, SMTT(30)
<1>5. ASSUME NEW v
      PROVE  v \in HeapPages <=> v \in heap .. heap + HEAP_PAGES - 1
  <2>1. ASSUME v \in HeapPages PROVE v \in heap .. heap + HEAP_PAGES - 1
    BY <1>2, <1>4, <2>1 DEF HeapPages
  <2>2. ASSUME v \in heap .. heap + HEAP_PAGES - 1 PROVE v \in HeapPages
    <3>1. v - heap \in 0 .. HEAP_PAGES - 1 /\ v = heap + (v - heap)
      BY <1>2, <1>4, <2>2
    <3>2. QED
      BY <3>1 DEF HeapPages
  <2>3. QED
    BY <2>1, <2>2
<1>6. ASSUME NEW v
      PROVE  v \in HeapPages <=>
                \E i \in 1 .. n_chunks, j \in 0 .. CHUNK_PAGES - 1 : v = PageAt(i, j)
  <2>1. v \in HeapPages => \E i \in 1 .. n_chunks, j \in 0 .. CHUNK_PAGES - 1 :
                               v = PageAt(i, j)
    BY <1>4, <1>5, HeapPlaces
  <2>2. ASSUME NEW i \in 1 .. n_chunks, NEW j \in 0 .. CHUNK_PAGES - 1
        PROVE  PageAt(i, j) \in heap .. heap + HEAP_PAGES - 1
    BY <1>1, HeapPageFacts
  <2>3. QED
    BY <1>5, <2>1, <2>2
<1>7. ASSUME NEW v \in HeapPages
      PROVE  v \in Nat /\ v >= KERNEL_BASE
  <2>1. v \in Nat
    BY <1>2, <1>4, <1>5
  <2>2. PICK i \in 1 .. n_chunks, j \in 0 .. CHUNK_PAGES - 1 : v = PageAt(i, j)
    BY <1>6
  <2>3. VP!VIRT_TO_PD_INDEX(v) \in VP!Above
    <3>1. PageAt(i, j) \div Entries \in reserved_blocks
      BY <1>1, HeapPageFacts
    <3>2. QED
      BY <1>1, <2>2, <3>1 DEF VP!IInv, VP!BlocksEntered, VP!VIRT_TO_PD_INDEX
  <2>4. VP!HighBase \in Nat /\ VP!LastTable \in Nat
    BY VP!Layout, PagingAssumptions
  <2>5. VP!VIRT_TO_PD_INDEX(v) >= VP!HighBase
    <3>1. VP!VIRT_TO_PD_INDEX(v) > VP!HighBase + VP!LastTable
      BY <2>3 DEF VP!Above
    <3>2. VP!VIRT_TO_PD_INDEX(v) \in Nat
      BY <2>1, VP!PageParts, PagingAssumptions
    <3>3. QED
      BY <2>4, <3>1, <3>2
  <2>6. QED
    BY <2>1, <2>5, VP!HighPages, PagingAssumptions
<1>8. QED
  BY <1>4, <1>6, <1>7

LEMMA OwnFrames ==
    ASSUME IInv, VP!MappingsHold, VP!HigherHalfExact
    PROVE  HeapHasItsOwnFrames
<1> SUFFICES ASSUME Ready, Served PROVE HeapHasItsOwnFrames
  BY DEF HeapHasItsOwnFrames
<1> DEFINE reached == {s \in seen : s[1] \in HeapPages}
<1>1. ASSUME NEW s \in reached
      PROVE  \E i \in 1 .. n_chunks, j \in 0 .. CHUNK_PAGES - 1 :
                 s = <<PageAt(i, j), FrameAt(i, j)>>
  <2>1. s \in seen /\ s[1] \in HeapPages /\ s[1] >= KERNEL_BASE
    BY HeapPagesAre
  <2>2. PICK i \in 1 .. n_chunks, j \in 0 .. CHUNK_PAGES - 1 : s[1] = PageAt(i, j)
    BY <2>1, HeapPagesAre
  <2>3. ~ \E m \in boot : \E f \in VP!Needed(m) : s = <<KERNEL_BASE + f, f>>
    BY <2>2, HeapApart
  <2>4. QED
    BY <2>1, <2>3, HigherHalf
<1>2. reached = {<<v, V!Translate(v)>> : v \in HeapPages}
  <2>1. ASSUME NEW s \in reached PROVE s \in {<<v, V!Translate(v)>> : v \in HeapPages}
    <3>1. PICK i \in 1 .. n_chunks, j \in 0 .. CHUNK_PAGES - 1 :
                  s = <<PageAt(i, j), FrameAt(i, j)>>
      BY <1>1
    <3>2. PageAt(i, j) \in HeapPages
      BY HeapPagesAre
    <3>3. V!Translate(PageAt(i, j)) = FrameAt(i, j)
      BY AllMapped
    <3>4. QED
      BY <3>1, <3>2, <3>3
  <2>2. ASSUME NEW v \in HeapPages PROVE <<v, V!Translate(v)>> \in reached
    <3>1. PICK i \in 1 .. n_chunks, j \in 0 .. CHUNK_PAGES - 1 : v = PageAt(i, j)
      BY HeapPagesAre
    <3>2. V!Translate(v) = FrameAt(i, j) /\ <<v, FrameAt(i, j)>> \in seen
      BY <3>1, AllMapped
    <3>3. QED
      BY <3>2
  <2> HIDE DEF reached
  <2>3. QED
    BY <2>1, <2>2
<1>3. {s[2] : s \in reached} \subseteq granted \ (reserved \cup V!Kernel \cup {VgaFrame, 0})
  <2> SUFFICES ASSUME NEW s \in reached
               PROVE  s[2] \in granted \ (reserved \cup V!Kernel \cup {VgaFrame, 0})
    OBVIOUS
  <2>1. PICK i \in 1 .. n_chunks, j \in 0 .. CHUNK_PAGES - 1 :
                s = <<PageAt(i, j), FrameAt(i, j)>>
    BY <1>1
  <2>2. s[2] \in granted
    BY <2>1, FramesApart
  <2>3. QED
    BY <2>2, GrantedIsFree
<1>4. ASSUME NEW s \in reached, NEW t \in seen, s[2] = t[2], t[1] >= KERNEL_BASE
      PROVE  t = s \/ \E m \in boot : t[1] - KERNEL_BASE \in m.info \cup m.mmap
  <2>1. PICK i \in 1 .. n_chunks, j \in 0 .. CHUNK_PAGES - 1 :
                s = <<PageAt(i, j), FrameAt(i, j)>>
    BY <1>1
  <2>2. CASE \E a \in 1 .. n_chunks, b \in 0 .. CHUNK_PAGES - 1 :
                 t = <<PageAt(a, b), FrameAt(a, b)>>
    <3>1. PICK a \in 1 .. n_chunks, b \in 0 .. CHUNK_PAGES - 1 :
                 t = <<PageAt(a, b), FrameAt(a, b)>>
      BY <2>2
    <3>2. FrameAt(i, j) = FrameAt(a, b)
      BY <1>4, <2>1, <3>1
    <3>3. i = a /\ j = b
      BY <3>2, FramesApart
    <3>4. QED
      BY <2>1, <3>1, <3>3
  <2>3. CASE \E m \in boot : \E f \in VP!Needed(m) : t = <<KERNEL_BASE + f, f>>
    <3>1. PICK m \in boot : \E f \in VP!Needed(m) : t = <<KERNEL_BASE + f, f>>
      BY <2>3
    <3>2. PICK f \in VP!Needed(m) : t = <<KERNEL_BASE + f, f>>
      BY <3>1
    <3>3. f \in granted
      BY <1>4, <2>1, <3>2, FramesApart
    <3>4. f \notin V!Kernel /\ f # VgaFrame
      BY <3>3, GrantedIsFree
    <3>5. f \in m.info \cup m.mmap
      BY <3>4 DEF VP!Needed, VP!Kernel, V!Kernel
    <3>6. f \in Nat
      BY <2>1, HeapApart
    <3>7. KERNEL_BASE \in Nat
      BY Sizes, ComponentsAssumption DEF V!GeometryAssumption, V!Page
    <3>8. t[1] - KERNEL_BASE = f
      BY <3>2, <3>6, <3>7
    <3>9. QED
      BY <3>5, <3>8
  <2>4. QED
    BY <1>4, <2>2, <2>3, HigherHalf
<1> HIDE DEF reached
<1>5. QED
  BY <1>2, <1>3, <1>4 DEF HeapHasItsOwnFrames, reached

LEMMA WithPaging ==
    Spec => [](IInv /\ VP!MappingsHold /\ VP!HigherHalfExact)
BY Inductive, PagingBehaves, VP!MappingsAlwaysHold, VP!HigherHalfIsExact,
   PagingAssumptions, PTL

\* Every page of the heap reaches one frame, one that alloc32 has granted for
\* it alone: never the image, the page tables, the text buffer or what the
\* memory map keeps, whatever the machine, the memory map, and the place and
\* size of what GRUB passed.
THEOREM HeapHasItsOwnFramesAlways == Spec => []HeapHasItsOwnFrames
<1>1. IInv /\ VP!MappingsHold /\ VP!HigherHalfExact => HeapHasItsOwnFrames
  BY OwnFrames
<1>2. QED
  BY <1>1, WithPaging, PTL

-----------------------------------------------------------------------------
(* The bytes malloc hands out.                                             *)

\* Where byte a of the heap is in memory.
Byte(a) == V!Translate(heap + (a \div PAGE_SIZE)) * PAGE_SIZE + (a % PAGE_SIZE)

HeapByte == 0 .. HP!HeapBytes - 1
Memory   == 0 .. P!NPages * PAGE_SIZE - 1

\* The page of a byte of the heap.
LEMMA BytePlace ==
    ASSUME IInv, VP!MappingsHold, Ready, Served, NEW a \in HeapByte
    PROVE  \E i \in 1 .. n_chunks, j \in 0 .. CHUNK_PAGES - 1 :
              /\ heap + (a \div PAGE_SIZE) = PageAt(i, j)
              /\ Byte(a) = FrameAt(i, j) * PAGE_SIZE + (a % PAGE_SIZE)
              /\ FrameAt(i, j) \in 0 .. P!NPages - 1
<1>1. /\ PAGE_SIZE \in Nat \ {0} /\ HEAP_PAGES \in Nat
      /\ HP!HeapBytes = HEAP_PAGES * PAGE_SIZE
  BY HeapAssumptions DEF HP!GeometryAssumption, HP!HeapBytes
<1> DEFINE q == a \div PAGE_SIZE
<1>2. a \in Nat /\ a < HEAP_PAGES * PAGE_SIZE
  <2>1. HEAP_PAGES * PAGE_SIZE \in Nat
    BY <1>1, SMTT(30)
  <2>2. QED
    BY <1>1, <2>1 DEF HeapByte
<1>3. q \in Nat /\ q * PAGE_SIZE <= a
  BY <1>1, <1>2, SMTT(30)
<1> HIDE DEF q
<1>4. q < HEAP_PAGES
  <2>1. SUFFICES ASSUME q >= HEAP_PAGES PROVE FALSE
    BY <1>1, <1>3
  <2>2. q * PAGE_SIZE >= HEAP_PAGES * PAGE_SIZE
    BY <1>1, <1>3, <2>1, SMTT(30)
  <2>3. q * PAGE_SIZE \in Nat /\ HEAP_PAGES * PAGE_SIZE \in Nat
    BY <1>1, <1>3, SMTT(30)
  <2>4. QED
    BY <1>2, <1>3, <2>2, <2>3
<1>5. heap + q \in HeapPages
  <2>1. q \in 0 .. HEAP_PAGES - 1
    BY <1>1, <1>3, <1>4
  <2>2. QED
    BY <2>1 DEF HeapPages
<1>6. PICK i \in 1 .. n_chunks, j \in 0 .. CHUNK_PAGES - 1 : heap + q = PageAt(i, j)
  BY <1>5, HeapPagesAre
<1>7. V!Translate(PageAt(i, j)) = FrameAt(i, j)
  BY AllMapped
<1>8. FrameAt(i, j) \in 0 .. P!NPages - 1
  <2>1. pc \in HasBlock /\ Len(chunks) = n_chunks /\ OrderInv /\ ChunkInv
    BY DEF Ready, HasBlock, IInv, OrderInv
  <2>2. i <= Len(chunks)
    BY <2>1, Sizes
  <2>3. QED
    BY <2>1, <2>2, HeapPageFacts DEF P!Page
<1>9. Byte(a) = FrameAt(i, j) * PAGE_SIZE + (a % PAGE_SIZE)
  BY <1>6, <1>7 DEF Byte, q
<1>10. QED
  BY <1>6, <1>8, <1>9 DEF q

LEMMA BytesInMemory ==
    ASSUME IInv, VP!MappingsHold, Ready, Served, NEW a \in HeapByte
    PROVE  Byte(a) \in Memory
<1>1. PICK i \in 1 .. n_chunks, j \in 0 .. CHUNK_PAGES - 1 :
         /\ Byte(a) = FrameAt(i, j) * PAGE_SIZE + (a % PAGE_SIZE)
         /\ FrameAt(i, j) \in 0 .. P!NPages - 1
  BY BytePlace
<1>2. PAGE_SIZE \in Nat \ {0} /\ P!NPages \in Nat
  BY Sizes, HeapAssumptions DEF HP!GeometryAssumption
<1>3. a % PAGE_SIZE \in 0 .. PAGE_SIZE - 1
  BY <1>2 DEF HeapByte
<1> DEFINE x == FrameAt(i, j)
           r == a % PAGE_SIZE
<1> HIDE DEF x, r
<1>4. P!NPages \in Nat \ {0} /\ x \in 0 .. P!NPages - 1 /\ r \in 0 .. PAGE_SIZE - 1
  BY <1>1, <1>2, <1>3 DEF x, r
<1>5. x * PAGE_SIZE + r \in 0 .. P!NPages * PAGE_SIZE - 1
  BY <1>2, <1>4, IndexBounds
<1>6. QED
  BY <1>1, <1>5 DEF Memory, x, r

\* No two bytes of the heap are the same byte of memory.
LEMMA BytesApart ==
    ASSUME IInv, VP!MappingsHold, Ready, Served,
           NEW a \in HeapByte, NEW b \in HeapByte, Byte(a) = Byte(b)
    PROVE  a = b
<1>1. PICK i \in 1 .. n_chunks, j \in 0 .. CHUNK_PAGES - 1 :
         /\ heap + (a \div PAGE_SIZE) = PageAt(i, j)
         /\ Byte(a) = FrameAt(i, j) * PAGE_SIZE + (a % PAGE_SIZE)
         /\ FrameAt(i, j) \in 0 .. P!NPages - 1
  BY BytePlace
<1>2. PICK k \in 1 .. n_chunks, l \in 0 .. CHUNK_PAGES - 1 :
         /\ heap + (b \div PAGE_SIZE) = PageAt(k, l)
         /\ Byte(b) = FrameAt(k, l) * PAGE_SIZE + (b % PAGE_SIZE)
         /\ FrameAt(k, l) \in 0 .. P!NPages - 1
  BY BytePlace
<1>3. PAGE_SIZE \in Nat \ {0} /\ P!NPages \in Nat
  BY Sizes, HeapAssumptions DEF HP!GeometryAssumption
<1>4. a \in Nat /\ b \in Nat
  BY DEF HeapByte
<1>5. /\ a % PAGE_SIZE \in 0 .. PAGE_SIZE - 1 /\ b % PAGE_SIZE \in 0 .. PAGE_SIZE - 1
      /\ a \div PAGE_SIZE \in Nat /\ b \div PAGE_SIZE \in Nat
      /\ a = PAGE_SIZE * (a \div PAGE_SIZE) + (a % PAGE_SIZE)
      /\ b = PAGE_SIZE * (b \div PAGE_SIZE) + (b % PAGE_SIZE)
  BY <1>3, <1>4, SMTT(30)
<1> DEFINE x == FrameAt(i, j)
           r == a % PAGE_SIZE
           y == FrameAt(k, l)
           t == b % PAGE_SIZE
<1>6. /\ x \in Nat /\ y \in Nat /\ r \in 0 .. PAGE_SIZE - 1 /\ t \in 0 .. PAGE_SIZE - 1
      /\ x * PAGE_SIZE + r = y * PAGE_SIZE + t
  <2>1. x * PAGE_SIZE + r = y * PAGE_SIZE + t
    BY <1>1, <1>2
  <2>2. x \in Nat /\ y \in Nat
    BY <1>1, <1>2, <1>3
  <2>3. r \in 0 .. PAGE_SIZE - 1 /\ t \in 0 .. PAGE_SIZE - 1
    BY <1>5
  <2>4. QED
    BY <2>1, <2>2, <2>3
<1> HIDE DEF x, y, r, t
<1>7. x = y
  <2>1. (x * PAGE_SIZE + r) \div PAGE_SIZE = x
    BY <1>3, <1>6, IndexRow
  <2>2. (y * PAGE_SIZE + t) \div PAGE_SIZE = y
    BY <1>3, <1>6, IndexRow
  <2>3. QED
    BY <1>6, <2>1, <2>2
<1>8. r = t
  <2>1. x * PAGE_SIZE \in Nat
    BY <1>3, <1>6, SMTT(30)
  <2>2. QED
    BY <1>3, <1>6, <1>7, <2>1
<1>9. i = k /\ j = l
  BY <1>7, FramesApart DEF x, y
<1>10. a \div PAGE_SIZE = b \div PAGE_SIZE
  <2>1. heap \in Nat
    BY HeapPagesAre
  <2>2. heap + (a \div PAGE_SIZE) = heap + (b \div PAGE_SIZE)
    BY <1>1, <1>2, <1>9
  <2>3. QED
    BY <1>5, <2>1, <2>2
<1>11. QED
  BY <1>5, <1>8, <1>10 DEF r, t

\* In kernel_main only malloc takes steps, and it leaves the page tables alone.
LEMMA MainSteps ==
    ASSUME pc = "main", Next
    PROVE  /\ UNCHANGED <<pages_vars, paging_vars, pc, heap, chunks, mapped, ndebug>>
           /\ UNCHANGED HP!vars => UNCHANGED vars
<1>1. PICK n \in Requests : malloc(n)
  BY DEF Next, Boot, setup_paging, no_mmap, init_mmap, reserve_block, alloc32,
         map_page, first_block, _init, clear_ident_map
<1>2. UNCHANGED <<ndebug, pages_vars, paging_vars, pc, heap, chunks, mapped>>
  BY <1>1 DEF malloc
<1>3. UNCHANGED HP!vars => UNCHANGED vars
  BY <1>2 DEF HP!vars, vars, heap_vars
<1>4. QED
  BY <1>2, <1>3

\* A grant of bytes of the heap is a grant of bytes of memory.
LEMMA MallocGrants ==
    ASSUME IInv, VP!MappingsHold, pc = "main", Served, Next, HP!G!Next
    PROVE  M!Next
<1>1. /\ Ready /\ owned \subseteq HeapByte
      /\ UNCHANGED <<paging_vars, heap>>
  BY MainSteps DEF Ready, HP!TypeOK, IInv, HP!IInv, HeapByte
<1>2. \A v : V!Translate(v)' = V!Translate(v)
  BY <1>1 DEF paging_vars, V!Translate
<1>3. \A a : Byte(a)' = Byte(a)
  BY <1>1, <1>2 DEF Byte
<1>4. /\ Physical(owned) = {Byte(a) : a \in owned}
      /\ Physical(owned)' = {Byte(a) : a \in owned'}
      /\ Physical(H!Fresh)' = {Byte(a) : a \in HP!Fresh'}
  <2>1. Physical(owned) = {Byte(a) : a \in owned}
    BY DEF Physical, Byte
  <2>2. Physical(owned)' = {Byte(a)' : a \in owned'}
    BY DEF Physical, Byte
  <2>3. Physical(H!Fresh)' = {Byte(a)' : a \in H!Fresh'}
    BY DEF Physical, Byte
  <2>4. H!Fresh' = HP!Fresh'
    BY DEF H!Fresh, HP!Fresh, H!NULL, HP!NULL
  <2>5. QED
    BY <1>3, <2>1, <2>2, <2>3, <2>4
<1>5. CASE HP!G!Grant
  <2>1. /\ HP!Fresh' # {} /\ HP!Fresh' \subseteq HeapByte \ owned
        /\ owned' = owned \cup HP!Fresh'
    BY <1>5 DEF HP!G!Grant, HeapByte
  <2> DEFINE F == HP!Fresh'
  <2>2. F # {} /\ F \subseteq HeapByte \ owned /\ owned' = owned \cup F
    BY <2>1
  <2>3. Physical(H!Fresh)' = {Byte(a) : a \in F}
    BY <1>4
  <2> HIDE DEF F
  <2>4. {Byte(a) : a \in F} \subseteq Memory \ {Byte(a) : a \in owned}
    <3> SUFFICES ASSUME NEW a \in F
                 PROVE  Byte(a) \in Memory /\ \A b \in owned : Byte(a) # Byte(b)
      OBVIOUS
    <3>1. a \in HeapByte /\ a \notin owned
      BY <2>2
    <3>2. Byte(a) \in Memory
      BY <1>1, <3>1, BytesInMemory
    <3>3. ASSUME NEW b \in owned, Byte(a) = Byte(b) PROVE FALSE
      <4>1. b \in HeapByte
        BY <1>1
      <4>2. a = b
        BY <1>1, <3>1, <3>3, <4>1, BytesApart
      <4>3. QED
        BY <3>1, <4>2
    <3>4. QED
      BY <3>2, <3>3
  <2>5. {Byte(a) : a \in F} # {}
    BY <2>2
  <2>6. Physical(owned)' = Physical(owned) \cup {Byte(a) : a \in F}
    BY <1>4, <2>2
  <2>7. M!Grant
    BY <1>4, <2>3, <2>4, <2>5, <2>6 DEF M!Grant, Memory
  <2>8. QED
    BY <2>7 DEF M!Next
<1>6. CASE HP!G!Refuse
  <2>1. HP!Fresh' = {} /\ owned' = owned
    BY <1>6 DEF HP!G!Refuse
  <2>2. Physical(H!Fresh)' = {} /\ Physical(owned)' = Physical(owned)
    BY <1>4, <2>1
  <2>3. QED
    BY <2>2 DEF M!Next, M!Refuse
<1>7. QED
  BY <1>5, <1>6 DEF HP!G!Next

LEMMA HeapGrants == Spec => [][HP!G!Next]_(HP!vars)
BY HeapBehaves, HP!HeapImplementsGrants, HeapAssumptions, PTL
   DEF HP!ImplementsGrants

\* malloc hands out memory no byte of which it has handed out before: what
\* the heap promises of its addresses, the page tables and the page allocator
\* make true of the memory behind them.
THEOREM MallocGrantsMemoryAlways == Spec => MallocGrantsMemory
<1>1. /\ IInv /\ VP!MappingsHold /\ VP!HigherHalfExact
      /\ [Next]_vars /\ [HP!G!Next]_(HP!vars)
      => [pc = "main" /\ Served => M!Next]_vars
  <2> SUFFICES ASSUME IInv, VP!MappingsHold, Next, [HP!G!Next]_(HP!vars),
                      pc = "main", Served, ~UNCHANGED vars
               PROVE  M!Next
    OBVIOUS
  <2>1. HP!G!Next
    BY MainSteps
  <2>2. QED
    BY <2>1, MallocGrants
<1>2. QED
  BY <1>1, WithPaging, HeapGrants, PTL DEF Spec, MallocGrantsMemory

-----------------------------------------------------------------------------
(* What can stop the boot.                                                 *)

\* A heap that lacks memory, or a failed assert, is for want of usable words
\* of pages or, in setup_paging, for boot information out of reach; and no
\* access to a page table ever faults.
ShortInv ==
    /\ (\E i \in DOMAIN chunks : chunks[i] = 0) =>
           ndebug /\ Cardinality(Usable) < n_chunks
    /\ pc = "assert" /\ stage # "hang" => ~ndebug /\ Cardinality(Usable) < n_chunks
    /\ stage \in {"real", "early", "main", "hang"}

LEMMA UsableWords ==
    Usable = {w \in Words : w # 0 /\ WordOf(w) \cap reserved = {}}
<1>1. P!Units("alloc32") = Words
  BY DEF P!Units, Words, NWords
<1>2. \A w \in Words : P!WordPages(w) = WordOf(w)
  <2>1. \A w : P!WordPages(w) = PP!WordPages(w)
    BY DEF P!WordPages, PP!WordPages, P!Page, PP!Page, P!NPages, PP!NPages
  <2>2. QED
    BY <2>1, WordFacts
<1>3. QED
  BY <1>1, <1>2 DEF Usable

\* When alloc32 finds nothing, every usable word is one of the chunks.
LEMMA NoneLeft ==
    ASSUME PP!IInv, OrderInv, ChunkInv, alloc32, page_call'.pages = {}
    PROVE  Cardinality(Usable) < n_chunks /\ reserved' = reserved
<1> DEFINE n == Len(chunks)
<1>1. /\ n \in Nat /\ n < n_chunks /\ chunks \in Seq(Nat) /\ DOMAIN chunks = 1 .. n
      /\ CHUNK_PAGES \in Nat \ {0} /\ NWords \in Nat
  BY Sizes DEF alloc32, OrderInv
<1>2. PP!TypeOK /\ PP!OnlyPageZeroLeaks /\ PP!alloc32
  BY PhysSteps DEF PP!IInv, alloc32
<1>3. /\ reserved' = reserved
      /\ \/ /\ page_call'.pages = {}
            /\ \A w \in Words : PP!WordPages(w) \cap mem_bitmap = {} => w = 0
         \/ \E w \in Words : page_call'.pages = PP!WordPages(w)
  BY <1>2, PP!Alloc32Effect, PhysAssumptions, UnitsAreWords
<1>4. ASSUME NEW w \in Words, WordOf(w) \cap mem_bitmap = {}
      PROVE  w = 0
  <2>1. \A u \in Words : PP!WordPages(u) = WordOf(u) /\ WordOf(u) # {}
    BY WordFacts
  <2>2. QED
    BY <1>3, <1>4, <2>1
<1>5. ASSUME NEW w \in Words, NEW u \in Words, NEW p \in WordOf(w), p \in WordOf(u)
      PROVE  w = u
  <2>1. PP!WordPages(w) = WordOf(w) /\ PP!WordPages(u) = WordOf(u)
    BY WordFacts
  <2>2. QED
    BY <1>5, <2>1 DEF PP!WordPages
<1>6. ASSUME NEW w \in Usable
      PROVE  \E i \in 1 .. n : chunks[i] = w * CHUNK_PAGES
  <2>1. w \in Words /\ w # 0 /\ WordOf(w) \cap reserved = {}
    BY UsableWords
  <2>2. PICK p \in WordOf(w) : p \in mem_bitmap
    BY <1>4, <2>1
  <2>3. p \in granted
    <3>1. SUFFICES ASSUME p \notin granted PROVE FALSE
      OBVIOUS
    <3>2. p \in mem_bitmap \ (reserved \cup granted)
      BY <2>1, <2>2, <3>1
    <3>3. p \in PP!WordPages(0)
      BY <1>2, <3>2 DEF PP!OnlyPageZeroLeaks
    <3>4. 0 \in Words
      BY <1>1, <2>1 DEF Words
    <3>5. p \in WordOf(0)
      BY <3>3, <3>4, WordFacts
    <3>6. QED
      BY <1>5, <2>1, <2>2, <3>4, <3>5
  <2>4. PICK i \in Got : p \in chunks[i] .. chunks[i] + CHUNK_PAGES - 1
    BY <2>3 DEF ChunkInv
  <2>5. i \in 1 .. n
    BY <1>1 DEF Got
  <2>6. PICK u \in Words : chunks[i] = u * CHUNK_PAGES
    BY <1>1, <2>5 DEF ChunkInv
  <2>7. p \in WordOf(u)
    BY <2>4, <2>6 DEF WordOf
  <2>8. u = w
    BY <1>5, <2>1, <2>2, <2>7
  <2>9. QED
    BY <2>5, <2>6, <2>8
<1> HIDE DEF n
<1> DEFINE g == [w \in Usable |-> CHOOSE i \in 1 .. n : chunks[i] = w * CHUNK_PAGES]
<1>7. \A w \in Usable : g[w] \in 1 .. n /\ chunks[g[w]] = w * CHUNK_PAGES
  BY <1>6
<1>8. g \in [Usable -> 1 .. n]
  <2>1. g = [w \in Usable |-> g[w]]
    OBVIOUS
  <2> HIDE DEF g
  <2>2. QED
    BY <1>7, <2>1
<1> HIDE DEF g
<1>9. ASSUME NEW w \in Usable, NEW u \in Usable, g[w] = g[u]
      PROVE  w = u
  <2>1. w \in Words /\ u \in Words
    BY UsableWords
  <2>2. w * CHUNK_PAGES = u * CHUNK_PAGES
    BY <1>7, <1>9
  <2>3. w * CHUNK_PAGES \in WordOf(w) /\ u * CHUNK_PAGES \in WordOf(u)
    BY <2>1, WordFacts
  <2>4. QED
    BY <1>5, <2>1, <2>2, <2>3
<1>10. g \in Injection(Usable, 1 .. n)
  BY <1>8, <1>9 DEF Injection, IsInjective
<1>11. IsFiniteSet(1 .. n) /\ Cardinality(1 .. n) = n
  <2>1. 1 \in Int /\ n \in Int
    BY <1>1
  <2>2. /\ IsFiniteSet(1 .. n)
        /\ Cardinality(1 .. n) = IF 1 > n THEN 0 ELSE n - 1 + 1
    BY <2>1, FS_Interval
  <2>3. QED
    BY <1>1, <2>2
<1>12. IsFiniteSet(Usable) /\ Cardinality(Usable) <= Cardinality(1 .. n)
  BY <1>10, <1>11, FS_Injection
<1>13. Cardinality(Usable) \in Nat
  BY <1>12, FS_CardinalityType
<1>14. Cardinality(Usable) < n_chunks
  BY <1>1, <1>11, <1>12, <1>13, Sizes
<1>15. QED
  BY <1>3, <1>14

LEMMA SameUsable == reserved' = reserved => Usable' = Usable
BY DEF Usable, P!Units, P!WordPages, P!Page, P!NPages

LEMMA StepShort ==
    ASSUME IInv, ShortInv, [Next]_vars, PageInv'
    PROVE  ShortInv'
<1>1. PP!IInv /\ VP!HInv /\ OrderInv /\ ChunkInv /\ PageInv
  BY DEF IInv
<1>2. CASE setup_paging
  <2>1. /\ chunks' = <<>> /\ pc' \in {"init_mmap", "assert"}
        /\ stage' \in {"early", "hang"} /\ (pc' = "assert" => stage' = "hang")
    BY <1>1, <1>2 DEF setup_paging, V!setup_paging, OrderInv
  <2>2. QED
    BY <2>1 DEF ShortInv
<1>3. CASE init_mmap
  <2>1. chunks' = <<>> /\ pc' = "reserve_block" /\ stage' = stage
    BY <1>1, <1>3 DEF init_mmap, OrderInv, paging_vars
  <2>2. QED
    BY <2>1 DEF ShortInv
<1>4. CASE alloc32
  <2>1. /\ pc = "alloc32" /\ P!alloc32 /\ stage' = stage /\ ndebug' = ndebug
        /\ chunks \in Seq(Nat)
    BY <1>1, <1>4 DEF alloc32, paging_vars, OrderInv
  <2>2. reserved' = reserved
    BY <2>1, <1>1, PhysSteps, PP!Alloc32Effect, PhysAssumptions DEF PP!IInv
  <2>3. Usable' = Usable
    BY <2>2, SameUsable
  <2>4. page_call'.pages = {} => Cardinality(Usable) < n_chunks
    BY <1>1, <1>4, NoneLeft
  <2>5. CASE page_call'.pages = {} /\ ~ndebug /\ pc' = "assert" /\ chunks' = chunks
    BY <2>1, <2>3, <2>4, <2>5 DEF ShortInv
  <2>6. ASSUME NEW f \in NewChunk, chunks' = Append(chunks, f), pc' = "map_page"
        PROVE  ShortInv'
    <3>1. f = 0 => ndebug /\ page_call'.pages = {}
      <4>1. 0 \notin page_call'.pages
        BY <2>1, <1>1, PhysSteps, PP!Alloc32Effect, PhysAssumptions DEF PP!IInv
      <4>2. QED
        BY <2>6, <4>1 DEF NewChunk
    <3>2. \A i \in DOMAIN chunks' :
              chunks'[i] = f \/ (i \in DOMAIN chunks /\ chunks'[i] = chunks[i])
      BY <2>1, <2>6
    <3>3. (\E i \in DOMAIN chunks' : chunks'[i] = 0) =>
              ndebug /\ Cardinality(Usable) < n_chunks
      BY <2>4, <3>1, <3>2 DEF ShortInv
    <3>4. QED
      BY <2>1, <2>3, <2>6, <3>3 DEF ShortInv
  <2>7. QED
    BY <1>4, <2>5, <2>6 DEF alloc32
<1>5. CASE map_page
  <2>1. /\ pc' \in {"map_page", "alloc32"} /\ stage' = "early"
    <3>1. pc' \in {"map_page", "alloc32"}
      BY <1>5 DEF map_page
    <3>2. QED
      BY <3>1 DEF PageInv, Early
  <2>2. UNCHANGED <<chunks, ndebug, reserved>>
    BY <1>5 DEF map_page, pages_vars
  <2>3. QED
    BY <2>1, <2>2, SameUsable DEF ShortInv
<1>6. CASE reserve_block \/ first_block \/ _init \/ clear_ident_map
  <2>1. /\ pc' \in {"alloc32", "_init", "clear_ident_map", "main"}
        /\ stage' \in {"early", "main"}
    <3>1. pc' \in {"alloc32", "_init", "clear_ident_map", "main"}
      BY <1>6 DEF reserve_block, first_block, _init, clear_ident_map
    <3>2. QED
      BY <3>1 DEF PageInv, Early
  <2>2. UNCHANGED <<chunks, ndebug, reserved>>
    BY <1>6 DEF reserve_block, first_block, _init, clear_ident_map, pages_vars,
                P!PhysMemAllocatorCtor
  <2>3. QED
    BY <2>1, <2>2, SameUsable DEF ShortInv
<1>7. CASE no_mmap \/ (\E n \in Requests : malloc(n)) \/ UNCHANGED vars
  <2>1. UNCHANGED <<chunks, ndebug, reserved, stage>> /\ (pc' = pc \/ pc' = "end")
    BY <1>7 DEF no_mmap, malloc, vars, pages_vars, paging_vars
  <2>2. QED
    BY <2>1, SameUsable DEF ShortInv
<1>8. QED
  BY <1>2, <1>3, <1>4, <1>5, <1>6, <1>7 DEF Next, Boot

LEMMA ShortInvariant == Spec => []ShortInv
<1>1. Init => ShortInv
  BY DEF Init, V!Init, ShortInv
<1>2. IInv /\ IInv' /\ ShortInv /\ [Next]_vars => ShortInv'
  BY StepShort DEF IInv
<1>3. QED
  BY <1>1, <1>2, Inductive, PTL DEF Spec

\* The boot stops in an assert only if GRUB put the boot information out of
\* reach or there are too few usable words of pages for the heap, and the
\* asserts are there; without them the kernel runs on a heap that lacks memory
\* of its own only in the second case; no step from the boot on takes a page
\* fault on a page table.
NoOtherFailure ==
    /\ pc = "assert" /\ stage # "hang" => ~ndebug /\ Cardinality(Usable) < n_chunks
    /\ Ready /\ ~Served => ndebug /\ Cardinality(Usable) < n_chunks
    /\ stage # "fault"

\* A null return of alloc32, counted against the map: every usable word is
\* then one of the heap's chunks.  It is the safety half of BootSucceeds.
THEOREM OnlyShortMemoryFails == Spec => []NoOtherFailure
<1>1. ShortInv => NoOtherFailure
  BY DEF ShortInv, NoOtherFailure, Served
<1>2. QED
  BY <1>1, ShortInvariant, PTL

=============================================================================
