------------------------ MODULE HeapAllocatorProofs ------------------------
(***************************************************************************)
(* Proofs about the kernel heap, for every geometry that GeometryAssumption*)
(* allows and every set of requests.                                       *)
(***************************************************************************)
EXTENDS HeapAllocator, SequenceTheorems, TLAPS

Area == FirstBlock.size      \* bytes in the block area

-----------------------------------------------------------------------------
(* The inductive invariant.                                                *)

\* Only the last block of the list can be free: every other one was taken
\* whole when the leftover behind it was split off.
OnlyLastFree ==
    \A i \in DOMAIN blocks : i < Len(blocks) => blocks[i].allocated

\* The blocks before the last one end at or before the last one's start, and
\* all are whole cache lines.
BlocksAligned ==
    \A i \in DOMAIN blocks :
        /\ blocks[i].addr \in Nat /\ blocks[i].addr % HEAP_BLOCK_ALIGN = 0
        /\ blocks[i].size >= HeaderSize
        /\ blocks[i].size % HEAP_BLOCK_ALIGN = 0
        /\ i < Len(blocks) => blocks[i].addr + blocks[i].size <= Last(blocks).addr

Tiled ==
    /\ \A i \in 1 .. Len(blocks) - 1 :
          blocks[i + 1].addr = blocks[i].addr + blocks[i].size
    /\ blocks # <<>> =>
          /\ blocks[1].addr = 0
          /\ Last(blocks).addr + Last(blocks).size = Area

HeadersUnowned ==
    \A i \in DOMAIN blocks : \A a \in 0 .. HeaderSize - 1 :
        blocks[i].addr + a \notin owned

\* The bytes of slot j of slab s.
SlotBytes(s, j) ==
    SlabBase(s) + SlabSize[s] * j .. SlabBase(s) + SlabSize[s] * j + SlabSize[s] - 1

\* Every byte a caller owns is below the end of the last block taken or in a
\* slot whose bit is set: what the next call may return is nobody's.
OwnedIsTaken ==
    \A o \in owned : \/ o < Brk
                     \/ \E s \in Slab : \E j \in slab[s] : o \in SlotBytes(s, j)

\* Nothing is returned before init_heap_pages.
NoCallYet == blocks = <<>> => call.ret = NULL

IInv ==
    /\ TypeOK /\ NoCallYet
    /\ OnlyLastFree /\ BlocksAligned /\ Tiled
    /\ HeadersUnowned /\ OwnedIsTaken
    /\ NaturallyAligned

-----------------------------------------------------------------------------
(* Geometry.                                                               *)

\* The block area lies below the slabs, one chunk each, at the heap's end.
LEMMA Geometry ==
    /\ HeapBytes \in Nat /\ HeapBytes < Word /\ HeapBytes % HEAP_BLOCK_ALIGN = 0
    /\ ChunkBytes \in Nat /\ ChunkBytes % HEAP_BLOCK_ALIGN = 0
    /\ Area \in Nat /\ Area > 0 /\ Area % HEAP_BLOCK_ALIGN = 0
    /\ Area < ChunkBytes /\ 4 * ChunkBytes <= HeapBytes
    /\ \A s \in Slab : SlabBase(s) = HeapBytes - (4 - s) * ChunkBytes
<1>1. PICK q \in Nat : PAGE_SIZE = 64 * q /\ q > 0
  <2>1. PAGE_SIZE = 64 * (PAGE_SIZE \div 64) /\ PAGE_SIZE \div 64 \in Nat
        /\ PAGE_SIZE \div 64 > 0
    BY GeometryAssumption DEF HEAP_BLOCK_ALIGN
  <2>2. QED
    BY <2>1
<1>2. PICK m \in Nat : HEAP_PAGES = CHUNK_PAGES * m /\ m = NChunks /\ m >= 4
  <2>1. HEAP_PAGES = CHUNK_PAGES * NChunks /\ NChunks \in Nat
    BY GeometryAssumption, SMTT(30) DEF NChunks
  <2>2. NChunks >= 4
    <3>1. SUFFICES ASSUME NChunks <= 3 PROVE FALSE
      BY <2>1
    <3>2. CHUNK_PAGES * NChunks <= CHUNK_PAGES * 3
      BY <2>1, <3>1, GeometryAssumption, SMTT(30)
    <3>3. QED
      BY <2>1, <3>2, GeometryAssumption
  <2>3. QED
    BY <2>1, <2>2
<1>3. ChunkBytes = 64 * (CHUNK_PAGES * q) /\ CHUNK_PAGES * q \in Nat
  BY <1>1, GeometryAssumption, SMTT(30) DEF ChunkBytes
<1>4. HeapBytes = m * ChunkBytes
  BY <1>2, GeometryAssumption, SMTT(30) DEF ChunkBytes, HeapBytes
<1>5. HeapBytes = 64 * (m * (CHUNK_PAGES * q)) /\ m * (CHUNK_PAGES * q) \in Nat
  BY <1>2, <1>3, <1>4, SMTT(30)
<1>6. Area = 64 * ((CHUNK_PAGES - 3) * q) /\ (CHUNK_PAGES - 3) * q \in Nat \ {0}
  <2> DEFINE d == CHUNK_PAGES - 3
  <2>1. d \in Nat \ {0}
    BY GeometryAssumption
  <2>2. Area = d * PAGE_SIZE
    BY DEF Area, FirstBlock
  <2> HIDE DEF d
  <2>3. d * (64 * q) = 64 * (d * q) /\ d * q \in Nat \ {0}
    BY <2>1, <1>1, SMTT(30)
  <2>4. QED
    BY <2>2, <2>3, <1>1 DEF d
<1>7. Area < ChunkBytes
  BY <1>1, GeometryAssumption, SMTT(30) DEF Area, FirstBlock, ChunkBytes
<1>8. 4 * ChunkBytes <= HeapBytes
  BY <1>2, <1>3, <1>4, SMTT(30)
<1>9. ASSUME NEW s \in Slab
      PROVE  SlabBase(s) = HeapBytes - (4 - s) * ChunkBytes
  <2>1. SlabBase(s) = (m - 4 + s) * ChunkBytes
    BY <1>2 DEF SlabBase
  <2>2. (m - 4 + s) * ChunkBytes = m * ChunkBytes - (4 - s) * ChunkBytes
    BY <1>2, <1>3, SMTT(30) DEF Slab
  <2>3. QED
    BY <2>1, <2>2, <1>4
<1>10. QED
  BY <1>3, <1>5, <1>6, <1>7, <1>8, <1>9, GeometryAssumption DEF HEAP_BLOCK_ALIGN

\* The slots of a slab lie in its chunk.
LEMMA SlotInChunk ==
    ASSUME NEW s \in Slab, NEW j \in Slot(s)
    PROVE  /\ j \in Nat
           /\ SlabSize[s] * j + SlabSize[s] <= ChunkBytes
<1> DEFINE w == SlabSize[s]
           c == ChunkBytes \div (w * 8)
<1>1. w \in {8, 16, 32}
  BY DEF Slab, SlabSize
<1>2. c \in Nat /\ (w * 8) * c <= ChunkBytes
  BY <1>1, Geometry, SMTT(30)
<1>3. j \in Nat /\ j + 1 <= c * 8
  BY <1>2 DEF Slot, SlotCount
<1>4. ChunkBytes \in Nat
  BY Geometry
<1>5. w * j + w <= ChunkBytes
  <2> HIDE DEF c
  <2>1. CASE w = 8
    BY <2>1, <1>2, <1>3, <1>4
  <2>2. CASE w = 16
    BY <2>2, <1>2, <1>3, <1>4
  <2>3. CASE w = 32
    BY <2>3, <1>2, <1>3, <1>4
  <2>4. QED
    BY <1>1, <2>1, <2>2, <2>3
<1>6. QED
  BY <1>3, <1>5

\* A slot is in the heap, above the block area, and no other slot's.
LEMMA SlotFacts ==
    ASSUME NEW s \in Slab, NEW j \in Slot(s)
    PROVE  /\ SlotBytes(s, j) \subseteq Area .. HeapBytes - 1
           /\ \A t \in Slab : \A k \in Slot(t) :
                 t # s \/ k # j => SlotBytes(s, j) \cap SlotBytes(t, k) = {}
<1> DEFINE Lo(t, k) == SlabBase(t) + SlabSize[t] * k
<1>1. ASSUME NEW t \in Slab, NEW k \in Slot(t)
      PROVE  /\ k \in Nat /\ Lo(t, k) \in Nat
             /\ Lo(t, k) >= SlabBase(t)
             /\ Lo(t, k) + SlabSize[t] <= SlabBase(t) + ChunkBytes
  <2>1. k \in Nat /\ SlabSize[t] * k + SlabSize[t] <= ChunkBytes
    BY SlotInChunk
  <2>2. SlabSize[t] \in {8, 16, 32}
    BY DEF Slab, SlabSize
  <2>3. SlabSize[t] * k \in Nat
    BY <2>1, <2>2
  <2>4. SlabBase(t) \in Nat
    BY Geometry DEF Slab
  <2>5. QED
    BY <2>1, <2>2, <2>3, <2>4, Geometry
<1>2. /\ SlabBase(1) = HeapBytes - 3 * ChunkBytes
      /\ SlabBase(2) = HeapBytes - 2 * ChunkBytes
      /\ SlabBase(3) = HeapBytes - ChunkBytes
  BY Geometry DEF Slab
<1>3. SlotBytes(s, j) \subseteq Area .. HeapBytes - 1
  <2>1. SlabBase(s) >= Area /\ SlabBase(s) + ChunkBytes <= HeapBytes
    BY <1>2, Geometry DEF Slab
  <2>2. QED
    BY <2>1, <1>1, Geometry DEF SlotBytes, SlabSize, Slab
<1>4. ASSUME NEW t \in Slab, NEW k \in Slot(t), t # s \/ k # j
      PROVE  SlotBytes(s, j) \cap SlotBytes(t, k) = {}
  <2>1. CASE t # s
    <3>1. \/ SlabBase(s) + ChunkBytes <= SlabBase(t)
          \/ SlabBase(t) + ChunkBytes <= SlabBase(s)
      BY <1>2, <2>1, Geometry DEF Slab
    <3>2. /\ SlabBase(s) \in Int /\ SlabBase(t) \in Int
          /\ SlabSize[s] \in Nat /\ SlabSize[t] \in Nat
      BY <1>2, Geometry DEF Slab, SlabSize
    <3>3. QED
      BY <3>1, <3>2, <1>1, Geometry DEF SlotBytes
  <2>2. CASE t = s /\ k # j
    <3>1. j \in Nat /\ k \in Nat /\ SlabBase(s) \in Int
      BY <1>1, <1>2, Geometry DEF Slab
    <3>2. CASE SlabSize[s] = 8
      BY <2>2, <3>1, <3>2 DEF SlotBytes
    <3>3. CASE SlabSize[s] = 16
      BY <2>2, <3>1, <3>3 DEF SlotBytes
    <3>4. CASE SlabSize[s] = 32
      BY <2>2, <3>1, <3>4 DEF SlotBytes
    <3>5. QED
      BY <3>2, <3>3, <3>4 DEF Slab, SlabSize
  <2>3. QED
    BY <2>1, <2>2, <1>4
<1>5. QED
  BY <1>3, <1>4

-----------------------------------------------------------------------------
(* What a request does to the list.                                        *)

\* The unsigned subtraction of the code does not wrap where it is used.
LEMMA SubExact ==
    ASSUME NEW a \in 0 .. Word - 1, NEW b \in Nat, b <= a
    PROVE  Sub(a, b) = a - b
BY GeometryAssumption, SMTT(30) DEF Sub

\* Only the last block can fit, and the fit is exact arithmetic.
LEMMA FitsFacts ==
    ASSUME IInv, NEW i \in DOMAIN blocks, NEW n \in Nat
    PROVE  /\ Fits(blocks[i], n) <=>
                 ~blocks[i].allocated /\ blocks[i].size - HeaderSize >= n
           /\ Fits(blocks[i], n) => i = Len(blocks)
<1>1. blocks \in Seq(Block) /\ i \in 1 .. Len(blocks) /\ blocks[i] \in Block
  BY ElementOfSeq DEF IInv, TypeOK
<1>2. blocks[i].size \in 0 .. Word - 1 /\ blocks[i].size >= HeaderSize
  BY <1>1 DEF IInv, BlocksAligned, Block
<1>3. Sub(blocks[i].size, HeaderSize) = blocks[i].size - HeaderSize
  BY <1>2, SubExact DEF HeaderSize
<1>4. Fits(blocks[i], n) => i = Len(blocks)
  BY <1>1 DEF Fits, IInv, OnlyLastFree
<1>5. QED
  BY <1>3, <1>4 DEF Fits

\* What is left of a block, rounded down, is what a header and the request,
\* rounded up, leave of it.
LEMMA Rounding ==
    ASSUME NEW z \in Nat, z % 64 = 0, NEW n \in Nat, z >= 64 + n
    PROVE  LET r == z - 64 - n
           IN  /\ r \in Nat
               /\ r % 64 = (64 - (n % 64)) % 64
               /\ r - (r % 64) \in 0 .. z - 64
               /\ (r - (r % 64)) % 64 = 0
               /\ (64 + n + (r % 64)) % 64 = 0
<1> DEFINE r == z - 64 - n
           a == z \div 64
           c == n \div 64
           e == n % 64
<1>1. a \in Nat /\ c \in Nat /\ e \in 0 .. 63 /\ z = 64 * a /\ n = 64 * c + e
  OBVIOUS
<1>2. r \in Nat
  OBVIOUS
<1> HIDE DEF a, c, e
<1>3. CASE e = 0
  <2>1. r = 64 * (a - 1 - c)
    BY <1>1, <1>3
  <2>2. r % 64 = 0 /\ n % 64 = 0
    BY <1>1, <1>2, <1>3, <2>1
  <2>3. QED
    BY <1>1, <1>2, <1>3, <2>2
<1>4. CASE e # 0
  <2>1. r = 64 * (a - 2 - c) + (64 - e) /\ 64 - e \in 1 .. 63
    BY <1>1, <1>4
  <2>2. r % 64 = 64 - e /\ n % 64 = e
    BY <1>1, <1>2, <1>4, <2>1
  <2>3. QED
    BY <1>1, <1>2, <1>4, <2>1, <2>2
<1>5. QED
  BY <1>3, <1>4

\* The code's Leftover is exact, and takes what the bump allocator needs.
LEMMA LeftoverFacts ==
    ASSUME NEW b \in Block, NEW n \in Nat, b.size >= HeaderSize + n,
           b.size % HEAP_BLOCK_ALIGN = 0
    PROVE  /\ Leftover(b, n) \in 0 .. Word - 1
           /\ Leftover(b, n) % HEAP_BLOCK_ALIGN = 0
           /\ Sub(b.size, Leftover(b, n)) = B!Need(n)
           /\ b.size - Leftover(b, n) = B!Need(n)
           /\ B!Need(n) \in 0 .. Word - 1
           /\ B!Need(n) >= HeaderSize + n
           /\ B!Need(n) % HEAP_BLOCK_ALIGN = 0
<1> DEFINE z == b.size
           r == z - 64 - n
<1>0. Word \in Nat
  BY GeometryAssumption
<1>1. z \in 0 .. Word - 1 /\ z \in Nat /\ z >= 64 + n /\ z % 64 = 0
  BY <1>0 DEF Block, HeaderSize, HEAP_BLOCK_ALIGN
<1>2. Sub(z, HeaderSize) = z - 64 /\ z - 64 \in 0 .. Word - 1 /\ n <= z - 64
  <2> HIDE DEF z
  <2>1. z - 64 \in 0 .. Word - 1 /\ n <= z - 64 /\ 64 \in Nat /\ 64 <= z
    BY <1>0, <1>1
  <2>2. QED
    BY <1>1, <2>1, SubExact DEF HeaderSize
<1>3. Sub(Sub(z, HeaderSize), n) = r
  BY <1>2, SubExact
<1>4. Leftover(b, n) = r - (r % 64)
  BY <1>3 DEF Leftover, HEAP_BLOCK_ALIGN
<1>5. B!Need(n) = 64 + n + ((64 - (n % 64)) % 64)
  BY DEF B!Need, B!RoundUp, HeaderSize, HEAP_BLOCK_ALIGN
<1> HIDE DEF z
<1>6. /\ r \in Nat
      /\ r % 64 = (64 - (n % 64)) % 64
      /\ r - (r % 64) \in 0 .. z - 64
      /\ (r - (r % 64)) % 64 = 0
      /\ (64 + n + (r % 64)) % 64 = 0
  BY <1>1, Rounding
<1>7. Sub(z, Leftover(b, n)) = z - Leftover(b, n)
  <2>1. Leftover(b, n) \in Nat /\ Leftover(b, n) <= z
    BY <1>1, <1>4, <1>6
  <2>2. QED
    BY <1>1, <2>1, SubExact
<1>8. B!Need(n) = 64 + n + (r % 64) /\ B!Need(n) = z - Leftover(b, n)
  BY <1>1, <1>4, <1>5, <1>6
<1>9. r % 64 \in Nat
  BY <1>6
<1>10. QED
  BY <1>1, <1>4, <1>6, <1>7, <1>8, <1>9, GeometryAssumption
     DEF HEAP_BLOCK_ALIGN, HeaderSize, z

\* Splitting the last block leaves the ones before it alone, shortens the
\* block to what the request needs, and puts any leftover behind it.
LEMMA SplitFacts ==
    ASSUME IInv, NEW n \in Nat, blocks # <<>>, Fits(Last(blocks), n)
    PROVE  LET k    == Len(blocks)
               b    == Last(blocks)
               left == b.size - B!Need(n)
               new  == Split(k, n)
           IN  /\ new \in Seq(Block)
               /\ left \in Nat /\ left % HEAP_BLOCK_ALIGN = 0
               /\ \A i \in 1 .. k - 1 : new[i] = blocks[i]
               /\ new[k] = [addr |-> b.addr, size |-> B!Need(n), allocated |-> TRUE]
               /\ left = 0 => Len(new) = k
               /\ left > 0 =>
                     /\ Len(new) = k + 1
                     /\ new[k + 1] = [addr |-> b.addr + B!Need(n), size |-> left,
                                      allocated |-> FALSE]
<1> DEFINE k    == Len(blocks)
           b    == blocks[k]
           left == Leftover(b, n)
           node == [addr |-> b.addr, size |-> Sub(b.size, left), allocated |-> TRUE]
           next == [addr |-> b.addr + node.size, size |-> left, allocated |-> FALSE]
           mid  == ReplaceAt(blocks, k, node)
<1>0. Split(k, n) = IF left > 0 THEN InsertAt(mid, k + 1, next) ELSE mid
  BY DEF Split
<1>1. blocks \in Seq(Block) /\ k \in Nat \ {0} /\ k \in DOMAIN blocks /\ b \in Block
  BY ElementOfSeq, LenProperties, EmptySeq DEF IInv, TypeOK
<1>2. b = Last(blocks)
  BY DEF Last
<1>3. b.size >= HeaderSize + n /\ b.size % HEAP_BLOCK_ALIGN = 0
  <2>1. Fits(b, n)
    BY <1>2
  <2>2. b.size \in Nat
    BY <1>1 DEF Block
  <2>3. QED
    BY <1>1, <2>1, <2>2, FitsFacts DEF IInv, BlocksAligned, HeaderSize
<1> HIDE DEF b
<1>4. /\ left \in Nat /\ left % HEAP_BLOCK_ALIGN = 0
      /\ Sub(b.size, left) = B!Need(n)
      /\ b.size - left = B!Need(n)
      /\ B!Need(n) \in 0 .. Word - 1 /\ left \in 0 .. Word - 1
  BY <1>1, <1>3, LeftoverFacts
<1> HIDE DEF left
<1>5. node = [addr |-> b.addr, size |-> B!Need(n), allocated |-> TRUE]
  BY <1>1, <1>4 DEF Block
<1>6. node \in Block /\ next \in Block
  BY <1>1, <1>4, <1>5 DEF Block
<1>7. next = [addr |-> b.addr + B!Need(n), size |-> left, allocated |-> FALSE]
  BY <1>5
<1> HIDE DEF node, next
<1>8. /\ mid \in Seq(Block) /\ Len(mid) = k /\ mid[k] = node
      /\ \A i \in 1 .. k - 1 : mid[i] = blocks[i]
  BY <1>1, <1>6, ExceptSeq, LenProperties DEF ReplaceAt
<1>9. InsertAt(mid, k + 1, next) = mid \o <<next>>
  <2>1. SubSeq(mid, 1, k) = mid
    BY <1>8, SubSeqFull
  <2>2. SubSeq(mid, k + 1, k) = <<>>
    BY <1>1, <1>8, SubSeqEmpty
  <2>3. mid \o <<next>> \in Seq(Block)
    BY <1>6, <1>8, ConcatProperties
  <2>4. QED
    BY <1>1, <1>8, <2>1, <2>2, <2>3, ConcatEmptySeq DEF InsertAt
<1>10. Split(k, n) = IF left > 0 THEN mid \o <<next>> ELSE mid
  BY <1>0, <1>9
<1> HIDE DEF mid
<1>11. /\ mid \o <<next>> \in Seq(Block) /\ Len(mid \o <<next>>) = k + 1
       /\ \A i \in 1 .. k : (mid \o <<next>>)[i] = mid[i]
       /\ (mid \o <<next>>)[k + 1] = next
  <2>1. mid \o <<next>> = Append(mid, next)
    BY <1>6, <1>8, AppendIsConcat
  <2>2. QED
    BY <2>1, <1>6, <1>8, AppendProperties
<1>12. left = b.size - B!Need(n)
  BY <1>1, <1>4 DEF Block
<1>13. QED
  BY <1>1, <1>2, <1>4, <1>5, <1>7, <1>8, <1>10, <1>11, <1>12

-----------------------------------------------------------------------------
(* What a call does, whichever way it ends.                                *)

LEMMA LastFacts ==
    ASSUME IInv, blocks # <<>>
    PROVE  /\ Len(blocks) \in DOMAIN blocks /\ Len(blocks) \in Nat \ {0}
           /\ Last(blocks) = blocks[Len(blocks)] /\ Last(blocks) \in Block
           /\ Last(blocks).addr \in Nat
           /\ Last(blocks).size >= HeaderSize
           /\ Last(blocks).addr + Last(blocks).size = Area
<1>1. /\ Len(blocks) \in DOMAIN blocks /\ Len(blocks) \in Nat \ {0}
      /\ Last(blocks) = blocks[Len(blocks)] /\ Last(blocks) \in Block
  BY ElementOfSeq, LenProperties, EmptySeq DEF IInv, TypeOK, Last
<1>2. QED
  BY <1>1 DEF IInv, BlocksAligned, Tiled

\* The headers of the list lie in the block area, and below Brk but for the
\* header of the block that is still free.
LEMMA HeaderFacts ==
    ASSUME IInv, NEW i \in DOMAIN blocks
    PROVE  /\ blocks[i].addr \in Nat
           /\ blocks[i].addr + HeaderSize <= Area
           /\ i < Len(blocks) => blocks[i].addr + HeaderSize <= Last(blocks).addr
<1>1. blocks \in Seq(Block) /\ blocks[i] \in Block /\ i \in 1 .. Len(blocks)
  BY ElementOfSeq DEF IInv, TypeOK
<1>2. blocks # <<>>
  BY <1>1, EmptySeq
<1>3. /\ blocks[i].addr \in Nat /\ blocks[i].size \in Int
      /\ blocks[i].size >= HeaderSize
      /\ i < Len(blocks) => blocks[i].addr + blocks[i].size <= Last(blocks).addr
  BY <1>1 DEF IInv, BlocksAligned, Block
<1>4. Last(blocks).size \in Int
  BY <1>2, LastFacts DEF Block
<1>5. CASE i = Len(blocks)
  BY <1>2, <1>3, <1>5, LastFacts DEF HeaderSize
<1>6. CASE i < Len(blocks)
  BY <1>2, <1>3, <1>4, <1>6, LastFacts, Geometry DEF HeaderSize
<1>7. QED
  BY <1>1, <1>5, <1>6

LEMMA BrkFacts ==
    ASSUME IInv
    PROVE  /\ Brk \in 0 .. Area
           /\ blocks # <<>> /\ ~Last(blocks).allocated => Brk = Last(blocks).addr
           /\ blocks # <<>> /\ Last(blocks).allocated => Brk = Area
<1>1. CASE blocks = <<>>
  <2>1. Brk = 0
    BY <1>1 DEF Brk
  <2>2. QED
    BY <1>1, <2>1, Geometry
<1>2. CASE blocks # <<>>
  <2>1. Last(blocks).addr \in 0 .. Area
    BY <1>2, LastFacts, Geometry DEF Block, HeaderSize
  <2>2. QED
    BY <1>2, <2>1, Geometry DEF Brk, Area
<1>3. QED
  BY <1>1, <1>2

\* The three ways a call can end.
Refused(n) ==
    /\ call' = [size |-> n, ret |-> NULL]
    /\ UNCHANGED <<blocks, slab, owned>>
FromSlab(n, s, j) ==
    LET r == SlabBase(s) + SlabSize[s] * j
    IN  /\ n <= SlabSize[s] /\ j \in FreeSlots(s)
        /\ slab' = [slab EXCEPT ![s] = @ \cup {j}]
        /\ call' = [size |-> n, ret |-> r]
        /\ owned' = owned \cup (r .. r + n - 1)
        /\ blocks' = blocks
FromList(n) ==
    LET r == Last(blocks).addr + HeaderSize
    IN  /\ Fits(Last(blocks), n)
        /\ blocks' = Split(Len(blocks), n)
        /\ call' = [size |-> n, ret |-> r]
        /\ owned' = owned \cup (r .. r + n - 1)
        /\ slab' = slab

LEMMA MallocCases ==
    ASSUME IInv, NEW n \in Requests, malloc(n)
    PROVE  /\ blocks # <<>> /\ n \in Nat /\ n < Word
           /\ \/ Refused(n) /\ (n > HeapBytes \/ ~Fits(Last(blocks), n))
              \/ \E s \in Slab : \E j \in Slot(s) : FromSlab(n, s, j)
              \/ FromList(n)
<1>1. blocks # <<>> /\ n \in Nat /\ n < Word
  BY RequestsAssumption, GeometryAssumption DEF malloc
<1>2. Len(blocks) \in DOMAIN blocks /\ Last(blocks) = blocks[Len(blocks)]
  BY <1>1, LastFacts
<1>3. CASE n > HeapBytes /\ Return(n, NULL) /\ UNCHANGED <<blocks, slab>>
  BY <1>1, <1>3 DEF Return, Refused
<1>4. ASSUME NEW s \in SlabsFor(n), slab_malloc(s, n)
      PROVE  \E t \in Slab : \E j \in Slot(t) : FromSlab(n, t, j)
  <2>1. s \in Slab /\ n <= SlabSize[s]
    BY DEF SlabsFor
  <2>2. PICK j \in FreeSlots(s) :
           /\ slab' = [slab EXCEPT ![s] = @ \cup {j}]
           /\ Return(n, SlabBase(s) + SlabSize[s] * j)
           /\ UNCHANGED blocks
    BY <1>4 DEF slab_malloc
  <2>3. j \in Slot(s)
    BY DEF FreeSlots
  <2>4. SlabBase(s) + SlabSize[s] * j # NULL
    <3>1. SlabBase(s) \in Nat
      BY <2>1, Geometry DEF Slab
    <3>2. SlabSize[s] * j \in Nat
      BY <2>1, <2>3, SlotInChunk DEF Slab, SlabSize
    <3>3. QED
      BY <3>1, <3>2 DEF NULL
  <2>5. FromSlab(n, s, j)
    BY <2>1, <2>2, <2>4 DEF FromSlab, Return
  <2>6. QED
    BY <2>1, <2>3, <2>5
<1>5. CASE block_malloc(n)
  <2>1. ASSUME NEW i \in DOMAIN blocks, Fits(blocks[i], n),
               blocks' = Split(i, n), Return(n, blocks[i].addr + HeaderSize),
               UNCHANGED slab
        PROVE  FromList(n)
    <3>1. i = Len(blocks)
      BY <1>1, <2>1, FitsFacts
    <3>2. blocks[i].addr + HeaderSize # NULL
      BY HeaderFacts DEF NULL, HeaderSize
    <3>3. QED
      BY <1>2, <2>1, <3>1, <3>2 DEF FromList, Return
  <2>2. CASE /\ \A i \in DOMAIN blocks : ~Fits(blocks[i], n)
             /\ Return(n, NULL)
             /\ UNCHANGED <<blocks, slab>>
    BY <1>1, <1>2, <2>2 DEF Refused, Return
  <2>3. QED
    BY <1>1, <1>5, <2>1, <2>2 DEF block_malloc
<1>6. QED
  BY <1>1, <1>3, <1>4, <1>5 DEF malloc

-----------------------------------------------------------------------------
(* The invariant is inductive.                                             *)

LEMMA InitIInv == Init => IInv
<1> SUFFICES ASSUME Init PROVE IInv
  OBVIOUS
<1>1. blocks = <<>> /\ owned = {} /\ slab = [s \in Slab |-> {}]
      /\ call = [size |-> 0, ret |-> NULL]
  BY DEF Init
<1>2. TypeOK
  <2>1. 0 \in 0 .. Word - 1
    BY GeometryAssumption, Geometry
  <2>2. QED
    BY <1>1, <2>1 DEF TypeOK
<1>3. DOMAIN blocks = {} /\ Len(blocks) = 0
  BY <1>1
<1>4. Tiled
  BY <1>1, <1>3 DEF Tiled
<1>5. QED
  BY <1>1, <1>2, <1>3, <1>4
     DEF IInv, OnlyLastFree, BlocksAligned, HeadersUnowned, OwnedIsTaken,
         NaturallyAligned, NoCallYet, NULL

LEMMA InitHeapPagesIInv ==
    ASSUME IInv, init_heap_pages
    PROVE  IInv'
<1>1. blocks = <<>> /\ blocks' = <<FirstBlock>> /\ UNCHANGED <<slab, owned, call>>
  BY DEF init_heap_pages
<1>2. FirstBlock \in Block /\ FirstBlock = [addr |-> 0, size |-> Area, allocated |-> FALSE]
  <2>1. Area \in 0 .. Word - 1
    BY Geometry, GeometryAssumption
  <2>2. FirstBlock = [addr |-> 0, size |-> Area, allocated |-> FALSE]
    BY DEF Area, FirstBlock
  <2>3. QED
    BY <2>1, <2>2 DEF Block
<1>3. blocks' \in Seq(Block) /\ Len(blocks') = 1 /\ DOMAIN blocks' = {1}
      /\ blocks'[1] = FirstBlock /\ Last(blocks') = FirstBlock /\ blocks' # <<>>
  BY <1>1, <1>2 DEF Last
<1>4. Area >= HeaderSize /\ Area % HEAP_BLOCK_ALIGN = 0 /\ Area \in Nat
      /\ 0 % HEAP_BLOCK_ALIGN = 0
  BY Geometry DEF HeaderSize, HEAP_BLOCK_ALIGN
<1>5. Brk = 0 /\ Brk' = 0
  BY <1>1, <1>2, <1>3 DEF Brk
<1>6. TypeOK'
  BY <1>1, <1>3 DEF IInv, TypeOK
<1>7. OnlyLastFree'
  BY <1>3 DEF OnlyLastFree
<1>8. BlocksAligned'
  BY <1>2, <1>3, <1>4 DEF BlocksAligned
<1>9. Tiled'
  BY <1>2, <1>3, <1>4 DEF Tiled, Area, FirstBlock
<1>10. OwnedIsTaken'
  BY <1>1, <1>5 DEF IInv, OwnedIsTaken
<1>11. HeadersUnowned'
  <2> SUFFICES ASSUME NEW a \in 0 .. HeaderSize - 1, a \in owned PROVE FALSE
    BY <1>1, <1>2, <1>3 DEF HeadersUnowned
  <2>1. PICK s \in Slab : \E j \in slab[s] : a \in SlotBytes(s, j)
    BY <1>5 DEF IInv, OwnedIsTaken
  <2>2. PICK j \in Slot(s) : a \in SlotBytes(s, j)
    BY <2>1 DEF IInv, TypeOK
  <2>3. a >= Area
    BY <2>2, SlotFacts, Geometry
  <2>4. QED
    BY <2>3, <1>4 DEF HeaderSize
<1>12. NaturallyAligned'
  BY <1>1 DEF IInv, NaturallyAligned
<1>13. NoCallYet'
  BY <1>3 DEF NoCallYet
<1>14. QED
  BY <1>6, <1>7, <1>8, <1>9, <1>10, <1>11, <1>12, <1>13 DEF IInv

\* Where owned bytes are not: in the rest of the block area.
LEMMA RestUnowned ==
    ASSUME IInv, NEW o \in Brk .. Area - 1
    PROVE  o \notin owned
<1> SUFFICES ASSUME o \in owned PROVE FALSE
  OBVIOUS
<1>1. ~(o < Brk)
  BY BrkFacts, Geometry
<1>2. PICK s \in Slab : \E j \in slab[s] : o \in SlotBytes(s, j)
  BY <1>1 DEF IInv, OwnedIsTaken
<1>3. PICK j \in Slot(s) : o \in SlotBytes(s, j)
  BY <1>2 DEF IInv, TypeOK
<1>4. QED
  BY <1>3, SlotFacts, Geometry, BrkFacts

\* A clear bit's slot has no owned byte.
LEMMA FreeSlotUnowned ==
    ASSUME IInv, NEW s \in Slab, NEW j \in FreeSlots(s)
    PROVE  SlotBytes(s, j) \cap owned = {}
<1> SUFFICES ASSUME NEW o \in SlotBytes(s, j), o \in owned PROVE FALSE
  OBVIOUS
<1>1. j \in Slot(s) /\ j \notin slab[s]
  BY DEF FreeSlots
<1>2. o >= Area /\ o \in Nat
  BY <1>1, SlotFacts, Geometry
<1>3. ~(o < Brk)
  BY <1>2, BrkFacts, Geometry
<1>4. PICK t \in Slab : \E k \in slab[t] : o \in SlotBytes(t, k)
  BY <1>3 DEF IInv, OwnedIsTaken
<1>5. PICK k \in slab[t] : o \in SlotBytes(t, k)
  BY <1>4
<1>6. k \in Slot(t) /\ (t # s \/ k # j)
  BY <1>1, <1>5 DEF IInv, TypeOK
<1>7. QED
  BY <1>1, <1>5, <1>6, SlotFacts

\* What a slab slot or a cache line is aligned to.
LEMMA SlotAligned ==
    ASSUME NEW s \in Slab, NEW j \in Slot(s), NEW n \in Nat, n <= SlabSize[s],
           NEW k \in {1, 2, 4, 8, 16, 32, 64}, k <= n
    PROVE  (SlabBase(s) + SlabSize[s] * j) % k = 0
<1>1. j \in Nat /\ SlabBase(s) \in Nat
  BY SlotInChunk, Geometry DEF Slab
<1>2. SlabBase(s) % 64 = 0
  <2>1. /\ SlabBase(1) = HeapBytes - 3 * ChunkBytes
        /\ SlabBase(2) = HeapBytes - 2 * ChunkBytes
        /\ SlabBase(3) = HeapBytes - ChunkBytes
    BY Geometry DEF Slab
  <2>2. HeapBytes % 64 = 0 /\ ChunkBytes % 64 = 0 /\ HeapBytes \in Nat
        /\ ChunkBytes \in Nat
    BY Geometry DEF HEAP_BLOCK_ALIGN
  <2>3. SlabBase(1) % 64 = 0 /\ SlabBase(2) % 64 = 0 /\ SlabBase(3) % 64 = 0
    BY <2>1, <2>2
  <2>4. QED
    BY <2>3 DEF Slab
<1> DEFINE base == SlabBase(s)
<1> HIDE DEF base
<1>3. base \in Nat /\ base % 64 = 0
  BY <1>1, <1>2 DEF base
<1>4. CASE SlabSize[s] = 8
  <2>1. k \in {1, 2, 4, 8}
    BY <1>4
  <2>2. (base + 8 * j) % k = 0
    BY <1>1, <1>3, <2>1
  <2>3. QED
    BY <1>4, <2>2 DEF base
<1>5. CASE SlabSize[s] = 16
  <2>1. k \in {1, 2, 4, 8, 16}
    BY <1>5
  <2>2. (base + 16 * j) % k = 0
    BY <1>1, <1>3, <2>1
  <2>3. QED
    BY <1>5, <2>2 DEF base
<1>6. CASE SlabSize[s] = 32
  <2>1. k \in {1, 2, 4, 8, 16, 32}
    BY <1>6
  <2>2. (base + 32 * j) % k = 0
    BY <1>1, <1>3, <2>1
  <2>3. QED
    BY <1>6, <2>2 DEF base
<1>7. QED
  BY <1>4, <1>5, <1>6 DEF Slab, SlabSize

LEMMA FromSlabIInv ==
    ASSUME IInv, NEW n \in Nat, n < Word, blocks # <<>>, NEW s \in Slab, NEW j \in Slot(s),
           FromSlab(n, s, j)
    PROVE  IInv'
<1> DEFINE r == SlabBase(s) + SlabSize[s] * j
<1>1. /\ n <= SlabSize[s] /\ j \in FreeSlots(s) /\ blocks' = blocks
      /\ slab' = [slab EXCEPT ![s] = @ \cup {j}]
      /\ call' = [size |-> n, ret |-> r]
      /\ owned' = owned \cup (r .. r + n - 1)
  BY DEF FromSlab
<1>2. /\ SlotBytes(s, j) \subseteq Area .. HeapBytes - 1
      /\ SlotBytes(s, j) = r .. r + SlabSize[s] - 1
  BY SlotFacts DEF SlotBytes
<1>3. SlabBase(s) \in Nat /\ SlabSize[s] \in {8, 16, 32} /\ r \in Nat
  <2>1. SlabBase(s) \in Nat
    BY Geometry DEF Slab
  <2>2. SlabSize[s] \in {8, 16, 32}
    BY DEF Slab, SlabSize
  <2>3. j \in Nat
    BY SlotInChunk
  <2>4. SlabSize[s] * j \in Nat
    BY <2>2, <2>3
  <2>5. QED
    BY <2>1, <2>2, <2>4
<1>4. slab \in [Slab -> SUBSET Nat] /\ \A t \in Slab : slab[t] \subseteq Slot(t)
  BY DEF IInv, TypeOK
<1>5. /\ slab'[s] = slab[s] \cup {j}
      /\ \A t \in Slab : slab[t] \subseteq slab'[t]
  BY <1>1, <1>4
<1> HIDE DEF r
<1>6. r .. r + n - 1 \subseteq SlotBytes(s, j)
  BY <1>1, <1>2, <1>3
<1>7. r \in 0 .. HeapBytes - 1
  <2>1. r \in SlotBytes(s, j)
    BY <1>2, <1>3
  <2>2. QED
    BY <2>1, <1>2, <1>3, Geometry
<1>8. TypeOK'
  <2>1. slab' \in [Slab -> SUBSET Nat] /\ \A t \in Slab : slab'[t] \subseteq Slot(t)
    BY <1>1, <1>4, SlotInChunk
  <2>2. owned' \subseteq 0 .. HeapBytes - 1
    <3>1. Area .. HeapBytes - 1 \subseteq 0 .. HeapBytes - 1
      BY Geometry
    <3>2. QED
      BY <1>1, <1>2, <1>6, <3>1 DEF IInv, TypeOK
  <2>3. call' \in [size : 0 .. Word - 1, ret : 0 .. HeapBytes - 1 \cup {NULL}]
    <3>1. n \in 0 .. Word - 1
      BY GeometryAssumption
    <3>2. QED
      BY <3>1, <1>1, <1>7
  <2>4. QED
    BY <1>1, <2>1, <2>2, <2>3 DEF IInv, TypeOK
<1>9. OnlyLastFree' /\ BlocksAligned' /\ Tiled'
  BY <1>1 DEF IInv, OnlyLastFree, BlocksAligned, Tiled
<1>10. HeadersUnowned'
  <2> SUFFICES ASSUME NEW i \in DOMAIN blocks, NEW a \in 0 .. HeaderSize - 1,
                      blocks[i].addr + a \in owned'
               PROVE  FALSE
    BY <1>1 DEF HeadersUnowned
  <2>1. blocks[i].addr + a < Area
    <3>1. Area \in Nat
      BY Geometry
    <3>2. blocks[i].addr \in Nat /\ blocks[i].addr + HeaderSize <= Area
      BY HeaderFacts
    <3>3. QED
      BY <3>1, <3>2 DEF HeaderSize
  <2>2. blocks[i].addr + a \in owned
    BY <1>1, <1>2, <1>6, <2>1, Geometry, HeaderFacts DEF HeaderSize
  <2>3. QED
    BY <2>2 DEF IInv, HeadersUnowned
<1>11. OwnedIsTaken'
  <2> SUFFICES ASSUME NEW o \in owned'
               PROVE  \/ o < Brk'
                      \/ \E t \in Slab : \E k \in slab'[t] : o \in SlotBytes(t, k)
    BY DEF OwnedIsTaken
  <2>1. Brk' = Brk
    BY <1>1 DEF Brk
  <2>2. CASE o \in owned
    BY <1>5, <2>1, <2>2 DEF IInv, OwnedIsTaken
  <2>3. CASE o \in r .. r + n - 1
    BY <1>5, <1>6, <2>3
  <2>4. QED
    BY <1>1, <2>2, <2>3
<1>12. NaturallyAligned'
  <2> SUFFICES ASSUME NEW k \in {1, 2, 4, 8, 16, 32, 64}, k <= n
               PROVE  r % k = 0
    BY <1>1 DEF NaturallyAligned
  <2>1. QED
    BY <1>1, SlotAligned DEF r
<1>13. NoCallYet'
  BY <1>1 DEF NoCallYet
<1>14. QED
  BY <1>8, <1>9, <1>10, <1>11, <1>12, <1>13 DEF IInv

\* A block taken from the list: the bump pointer moves up by what the request
\* needs, whether or not a free block is left behind it.
LEMMA FromListFacts ==
    ASSUME IInv, NEW n \in Nat, blocks # <<>>, FromList(n)
    PROVE  LET k    == Len(blocks)
               b    == Last(blocks)
               need == B!Need(n)
           IN  /\ Brk = b.addr /\ need \in Nat /\ need >= HeaderSize + n
               /\ need % HEAP_BLOCK_ALIGN = 0
               /\ Brk + need <= Area
               /\ Brk' = Brk + need
               /\ blocks' \in Seq(Block) /\ blocks' # <<>>
               /\ \A i \in 1 .. k - 1 : blocks'[i] = blocks[i]
               /\ blocks'[k] = [addr |-> Brk, size |-> need, allocated |-> TRUE]
               /\ \/ /\ Len(blocks') = k
                     /\ Last(blocks') = blocks'[k] /\ Brk + need = Area
                  \/ /\ Len(blocks') = k + 1
                     /\ Last(blocks') = blocks'[k + 1]
                     /\ blocks'[k + 1] = [addr |-> Brk + need, size |-> Area - (Brk + need),
                                          allocated |-> FALSE]
                     /\ (Area - (Brk + need)) % HEAP_BLOCK_ALIGN = 0
                     /\ Brk + need + HeaderSize <= Area
<1> DEFINE k    == Len(blocks)
           b    == Last(blocks)
           need == B!Need(n)
           left == b.size - need
<1>1. /\ k \in Nat \ {0} /\ k \in DOMAIN blocks /\ b = blocks[k] /\ b \in Block
      /\ b.addr \in Nat /\ b.size \in Nat /\ b.addr + b.size = Area
  BY LastFacts DEF Block
<1>2. Fits(b, n) /\ blocks' = Split(k, n)
  BY DEF FromList
<1>3. ~b.allocated /\ b.size >= HeaderSize + n /\ b.size % HEAP_BLOCK_ALIGN = 0
  <2>1. ~b.allocated /\ b.size - HeaderSize >= n
    BY <1>1, <1>2, FitsFacts
  <2>2. QED
    BY <1>1, <2>1 DEF HeaderSize, IInv, BlocksAligned
<1>4. need \in Nat /\ need >= HeaderSize + n /\ need % HEAP_BLOCK_ALIGN = 0
  BY <1>1, <1>3, LeftoverFacts
<1>5. Brk = b.addr
  BY <1>3, BrkFacts
<1>6. /\ blocks' \in Seq(Block)
      /\ left \in Nat /\ left % HEAP_BLOCK_ALIGN = 0
      /\ \A i \in 1 .. k - 1 : blocks'[i] = blocks[i]
      /\ blocks'[k] = [addr |-> b.addr, size |-> need, allocated |-> TRUE]
      /\ left = 0 => Len(blocks') = k
      /\ left > 0 =>
            /\ Len(blocks') = k + 1
            /\ blocks'[k + 1] = [addr |-> b.addr + need, size |-> left,
                                 allocated |-> FALSE]
  BY <1>2, SplitFacts
<1>7. blocks' # <<>> /\ Last(blocks') = blocks'[Len(blocks')]
  <2>1. Len(blocks') # 0
    BY <1>1, <1>6
  <2>2. QED
    BY <2>1 DEF Last
<1> HIDE DEF need, k, b
<1>8. Brk + need <= Area /\ Area - (Brk + need) = left
  BY <1>1, <1>4, <1>5, <1>6
<1>9. CASE left = 0
  <2>1. Len(blocks') = k /\ Last(blocks') = blocks'[k] /\ Brk + need = Area
    BY <1>1, <1>4, <1>5, <1>6, <1>7, <1>9
  <2>2. Brk' = Area
    <3>1. Last(blocks').allocated
      BY <1>6, <2>1
    <3>2. QED
      BY <1>7, <3>1 DEF Brk, Area, FirstBlock
  <2>3. QED
    BY <1>4, <1>5, <1>6, <1>7, <1>8, <2>1, <2>2 DEF need, k, b
<1>10. CASE left > 0
  <2>1. /\ Len(blocks') = k + 1 /\ Last(blocks') = blocks'[k + 1]
        /\ blocks'[k + 1] = [addr |-> Brk + need, size |-> left, allocated |-> FALSE]
    BY <1>5, <1>6, <1>7, <1>10
  <2>2. Brk' = Brk + need
    <3>1. ~Last(blocks').allocated /\ Last(blocks').addr = Brk + need
      BY <2>1
    <3>2. QED
      BY <1>7, <3>1 DEF Brk
  <2>3. left >= HeaderSize
    BY <1>6, <1>10 DEF HeaderSize, HEAP_BLOCK_ALIGN
  <2>4. Brk + need + HeaderSize <= Area
    BY <1>1, <1>4, <1>5, <1>6, <1>8, <2>3 DEF HeaderSize
  <2>5. QED
    BY <1>4, <1>5, <1>6, <1>7, <1>8, <2>1, <2>2, <2>4 DEF need, k, b
<1>11. QED
  BY <1>6, <1>9, <1>10

LEMMA FromListIInv ==
    ASSUME IInv, NEW n \in Nat, n < Word, blocks # <<>>, FromList(n)
    PROVE  IInv'
<1> DEFINE k    == Len(blocks)
           need == B!Need(n)
           new  == blocks'
           r    == Brk + HeaderSize
<1>1. /\ k \in Nat \ {0} /\ DOMAIN blocks = 1 .. k
      /\ Last(blocks) = blocks[k] /\ Last(blocks).addr + Last(blocks).size = Area
  BY LastFacts, LenProperties DEF IInv, TypeOK
<1>2. Brk \in Nat /\ Area \in Nat /\ Area < HeapBytes /\ HeapBytes \in Nat
      /\ HeapBytes < Word
  <2>1. Area < HeapBytes
    <3>1. /\ Area \in Nat /\ ChunkBytes \in Nat /\ HeapBytes \in Nat
          /\ Area < ChunkBytes /\ 4 * ChunkBytes <= HeapBytes
      BY Geometry
    <3>2. QED
      BY <3>1
  <2>2. QED
    BY <2>1, BrkFacts, Geometry
<1>3. /\ Brk = Last(blocks).addr /\ need \in Nat /\ need >= HeaderSize + n
      /\ need % HEAP_BLOCK_ALIGN = 0
      /\ Brk + need <= Area /\ Brk' = Brk + need
      /\ new \in Seq(Block) /\ new # <<>>
      /\ \A i \in 1 .. k - 1 : new[i] = blocks[i]
      /\ new[k] = [addr |-> Brk, size |-> need, allocated |-> TRUE]
  BY FromListFacts
<1>4. \/ /\ Len(new) = k
         /\ Last(new) = new[k] /\ Brk + need = Area
      \/ /\ Len(new) = k + 1
         /\ Last(new) = new[k + 1]
         /\ new[k + 1] = [addr |-> Brk + need, size |-> Area - (Brk + need),
                          allocated |-> FALSE]
         /\ (Area - (Brk + need)) % HEAP_BLOCK_ALIGN = 0
         /\ Brk + need + HeaderSize <= Area
  BY FromListFacts
<1>5. /\ call' = [size |-> n, ret |-> r] /\ slab' = slab
      /\ owned' = owned \cup (r .. r + n - 1)
  BY <1>3 DEF FromList
<1>6. Brk % HEAP_BLOCK_ALIGN = 0
  BY <1>1, <1>3 DEF IInv, BlocksAligned
<1>7. DOMAIN new = 1 .. Len(new)
  BY <1>3, LenProperties
<1>8. \A i \in 1 .. k - 1 : /\ blocks[i].addr \in Nat /\ blocks[i].size \in Nat
                            /\ blocks[i].allocated
                            /\ blocks[i].addr % HEAP_BLOCK_ALIGN = 0
                            /\ blocks[i].size >= HeaderSize
                            /\ blocks[i].size % HEAP_BLOCK_ALIGN = 0
                            /\ blocks[i].addr + blocks[i].size <= Brk
  <2> SUFFICES ASSUME NEW i \in 1 .. k - 1
               PROVE  /\ blocks[i].addr \in Nat /\ blocks[i].size \in Nat
                      /\ blocks[i].allocated
                      /\ blocks[i].addr % HEAP_BLOCK_ALIGN = 0
                      /\ blocks[i].size >= HeaderSize
                      /\ blocks[i].size % HEAP_BLOCK_ALIGN = 0
                      /\ blocks[i].addr + blocks[i].size <= Brk
    OBVIOUS
  <2>1. i \in DOMAIN blocks /\ i < Len(blocks)
    BY <1>1
  <2>2. blocks[i] \in Block
    BY <2>1, ElementOfSeq DEF IInv, TypeOK
  <2>3. QED
    BY <1>3, <2>1, <2>2 DEF IInv, BlocksAligned, OnlyLastFree, Block
<1> HIDE DEF need, new, k
<1>17. /\ Brk \in Nat /\ need \in Nat /\ Area \in Nat /\ Brk + need <= Area
       /\ HeaderSize + n <= need /\ r = Brk + HeaderSize
  BY <1>2, <1>3
<1>18. k \in Nat \ {0} /\ Len(new) \in {k, k + 1}
  BY <1>1, <1>4
<1>19. new[k].addr = Brk /\ new[k].size = need /\ new[k].allocated
  BY <1>3
<1>20. Len(new) = k + 1 =>
          /\ new[k + 1].addr = Brk + need /\ new[k + 1].size = Area - (Brk + need)
          /\ (Area - (Brk + need)) % HEAP_BLOCK_ALIGN = 0
          /\ Brk + need + HeaderSize <= Area
  BY <1>4, <1>18
<1>21. /\ Len(new) = k => Last(new).addr = Brk
       /\ Len(new) = k + 1 => Last(new).addr = Brk + need
  BY <1>4, <1>18, <1>19
<1>22. ASSUME NEW i \in DOMAIN new
       PROVE  \/ i \in 1 .. k - 1
              \/ i = k
              \/ i = k + 1 /\ Len(new) = k + 1
  <2>1. i \in 1 .. Len(new)
    BY <1>7
  <2>2. CASE Len(new) = k
    BY <1>18, <2>1, <2>2
  <2>3. CASE Len(new) = k + 1
    BY <1>18, <2>1, <2>3
  <2>4. QED
    BY <1>18, <2>2, <2>3
<1>9. TypeOK'
  <2>1. n \in 0 .. Word - 1 /\ r \in 0 .. HeapBytes - 1
        /\ r .. r + n - 1 \subseteq 0 .. HeapBytes - 1
    <3>1. Word \in Nat
      BY GeometryAssumption
    <3>2. QED
      BY <1>2, <1>17, <3>1 DEF HeaderSize
  <2>2. QED
    BY <1>3, <1>5, <2>1 DEF IInv, TypeOK, new
<1>10. OnlyLastFree'
  <2>1. ASSUME NEW i \in DOMAIN new, i < Len(new) PROVE new[i].allocated
    <3>1. CASE i = k
      BY <1>19, <3>1
    <3>2. CASE i \in 1 .. k - 1
      BY <1>3, <1>8, <3>2
    <3>3. QED
      BY <1>18, <1>22, <2>1, <3>1, <3>2
  <2>2. QED
    BY <2>1 DEF OnlyLastFree, new
<1>11. BlocksAligned'
  <2>1. ASSUME NEW i \in DOMAIN new
        PROVE  /\ new[i].addr \in Nat /\ new[i].addr % HEAP_BLOCK_ALIGN = 0
               /\ new[i].size >= HeaderSize
               /\ new[i].size % HEAP_BLOCK_ALIGN = 0
               /\ i < Len(new) => new[i].addr + new[i].size <= Last(new).addr
    <3>1. CASE i = k
      <4>1. i < Len(new) => Last(new).addr = Brk + need
        BY <1>18, <1>21, <3>1
      <4>2. QED
        BY <1>3, <1>6, <1>17, <1>19, <3>1, <4>1 DEF HeaderSize
    <3>2. CASE i = k + 1 /\ Len(new) = k + 1
      <4>1. (Brk + need) % HEAP_BLOCK_ALIGN = 0
        <5>1. Brk % 64 = 0 /\ need % 64 = 0
          BY <1>3, <1>6 DEF HEAP_BLOCK_ALIGN
        <5>2. QED
          BY <1>17, <5>1 DEF HEAP_BLOCK_ALIGN
      <4>2. ~(i < Len(new))
        BY <1>18, <3>2
      <4>3. QED
        BY <1>17, <1>20, <3>2, <4>1, <4>2 DEF HeaderSize
    <3>3. CASE i \in 1 .. k - 1
      <4>1. new[i] = blocks[i]
        BY <1>3, <3>3
      <4>2. Last(new).addr \in Nat /\ Last(new).addr >= Brk
        BY <1>17, <1>18, <1>21
      <4>3. QED
        BY <1>17, <1>8, <3>3, <4>1, <4>2
    <3>4. QED
      BY <1>22, <3>1, <3>2, <3>3
  <2>2. QED
    BY <2>1 DEF BlocksAligned, new
<1>12. Tiled'
  <2>1. ASSUME NEW i \in 1 .. Len(new) - 1
        PROVE  new[i + 1].addr = new[i].addr + new[i].size
    <3>1. CASE i = k
      BY <1>1, <1>3, <1>4, <3>1
    <3>2. CASE i \in 1 .. k - 1
      <4>1. i \in 1 .. Len(blocks) - 1
        BY <3>2 DEF k
      <4>2. blocks[i + 1].addr = blocks[i].addr + blocks[i].size
        BY <4>1 DEF IInv, Tiled
      <4>3. CASE i + 1 = k
        BY <1>1, <1>3, <3>2, <4>2, <4>3
      <4>4. CASE i + 1 \in 1 .. k - 1
        BY <1>3, <3>2, <4>2, <4>4
      <4>5. QED
        BY <1>1, <3>2, <4>3, <4>4
    <3>3. QED
      BY <1>1, <1>4, <3>1, <3>2
  <2>2. new[1].addr = 0
    <3>1. blocks[1].addr = 0
      BY DEF IInv, Tiled
    <3>2. CASE k = 1
      BY <1>1, <1>3, <3>1, <3>2
    <3>3. CASE k # 1
      BY <1>1, <1>3, <3>1, <3>3
    <3>4. QED
      BY <3>2, <3>3
  <2>3. Last(new).addr + Last(new).size = Area
    BY <1>2, <1>3, <1>4
  <2>4. Area' = Area
    BY DEF Area, FirstBlock
  <2>5. QED
    BY <2>1, <2>2, <2>3, <2>4 DEF Tiled, new
<1>13. HeadersUnowned'
  <2> SUFFICES ASSUME NEW i \in DOMAIN new, NEW a \in 0 .. HeaderSize - 1
               PROVE  new[i].addr + a \notin owned'
    BY DEF HeadersUnowned, new
  <2>1. CASE i = k
    <3>1. new[i].addr = Brk
      BY <1>19, <2>1
    <3>2. Brk + a \in Brk .. Area - 1 /\ Brk + a \notin r .. r + n - 1
      BY <1>17 DEF HeaderSize
    <3>3. QED
      BY <1>5, <3>1, <3>2, RestUnowned
  <2>2. CASE i = k + 1 /\ Len(new) = k + 1
    <3>1. new[i].addr = Brk + need /\ Brk + need + HeaderSize <= Area
      BY <1>20, <2>2
    <3>2. /\ Brk + need + a \in Brk .. Area - 1
          /\ Brk + need + a \notin r .. r + n - 1
      BY <1>17, <3>1 DEF HeaderSize
    <3>3. QED
      BY <1>5, <3>1, <3>2, RestUnowned
  <2>3. CASE i \in 1 .. k - 1
    <3>1. new[i] = blocks[i] /\ i \in DOMAIN blocks
      BY <1>1, <1>3, <2>3
    <3>2. blocks[i].addr \in Nat /\ blocks[i].addr + HeaderSize <= Brk
      BY <1>2, <1>8, <2>3 DEF HeaderSize
    <3>3. blocks[i].addr + a \notin owned
      BY <3>1 DEF IInv, HeadersUnowned
    <3>4. QED
      BY <1>2, <1>5, <3>1, <3>2, <3>3 DEF HeaderSize
  <2>4. QED
    BY <1>22, <2>1, <2>2, <2>3
<1>14. OwnedIsTaken'
  <2> SUFFICES ASSUME NEW o \in owned'
               PROVE  o < Brk' \/ \E s \in Slab : \E j \in slab[s] : o \in SlotBytes(s, j)
    BY <1>5 DEF OwnedIsTaken
  <2>1. CASE o \in owned
    <3>1. o \in Nat
      BY <1>2, <2>1 DEF IInv, TypeOK
    <3>2. QED
      BY <1>2, <1>3, <2>1, <3>1 DEF IInv, OwnedIsTaken
  <2>2. CASE o \in r .. r + n - 1
    BY <1>2, <1>3, <2>2 DEF HeaderSize
  <2>3. QED
    BY <1>5, <2>1, <2>2
<1>15. NaturallyAligned'
  <2>1. \A c \in {1, 2, 4, 8, 16, 32, 64} : r % c = 0
    BY <1>2, <1>6 DEF HeaderSize, HEAP_BLOCK_ALIGN
  <2>2. QED
    BY <1>5, <2>1 DEF NaturallyAligned
<1>16. NoCallYet'
  BY <1>3 DEF NoCallYet, new
<1>23. QED
  BY <1>9, <1>10, <1>11, <1>12, <1>13, <1>14, <1>15, <1>16 DEF IInv

LEMMA StepIInv == IInv /\ [Next]_vars => IInv'
<1> SUFFICES ASSUME IInv, [Next]_vars PROVE IInv'
  OBVIOUS
<1>1. CASE init_heap_pages
  BY <1>1, InitHeapPagesIInv
<1>2. ASSUME NEW n \in Requests, malloc(n) PROVE IInv'
  <2>1. n \in Nat /\ n < Word /\ blocks # <<>>
    BY <1>2, MallocCases
  <2>2. CASE Refused(n)
    <3>1. TypeOK'
      <4>1. n \in 0 .. Word - 1
        BY <2>1, GeometryAssumption
      <4>2. QED
        BY <2>2, <4>1 DEF Refused, IInv, TypeOK
    <3>2. Brk' = Brk
      BY <2>2 DEF Refused, Brk
    <3>3. QED
      BY <2>2, <3>1, <3>2
         DEF Refused, IInv, OnlyLastFree, BlocksAligned, Tiled, HeadersUnowned,
             OwnedIsTaken, NaturallyAligned, NoCallYet
  <2>3. ASSUME NEW s \in Slab, NEW j \in Slot(s), FromSlab(n, s, j) PROVE IInv'
    BY <2>1, <2>3, FromSlabIInv
  <2>4. CASE FromList(n)
    BY <2>1, <2>4, FromListIInv
  <2>5. QED
    BY <1>2, <2>2, <2>3, <2>4, MallocCases
<1>3. CASE UNCHANGED vars
  <2>1. UNCHANGED <<blocks, slab, owned, call>>
    BY <1>3 DEF vars
  <2>2. Brk' = Brk
    BY <2>1 DEF Brk
  <2>3. QED
    BY <2>1, <2>2
       DEF IInv, TypeOK, OnlyLastFree, BlocksAligned, Tiled, HeadersUnowned,
           OwnedIsTaken, NaturallyAligned, NoCallYet
<1>4. QED
  BY <1>1, <1>2, <1>3 DEF Next

LEMMA Inductive == Spec => []IInv
BY InitIInv, StepIInv, PTL DEF Spec

-----------------------------------------------------------------------------
(* What the heap promises.                                                 *)

\* Every variable keeps its type: in particular every byte handed out and
\* every address returned is inside the heap, and no bit is set that the
\* slab's bitmap does not have.
THEOREM HeapTypeCorrect == Spec => []TypeOK
<1>1. IInv => TypeOK
  BY DEF IInv
<1>2. QED
  BY Inductive, <1>1, PTL

\* The list stays a tiling of the block area, and no caller owns a byte of a
\* header, so nothing a caller writes into its memory reaches the list.
THEOREM ListIntactAlways == Spec => []ListIntact
<1>1. IInv => ListIntact
  BY DEF IInv, Tiled, HeadersUnowned, ListIntact, Area
<1>2. QED
  BY Inductive, <1>1, PTL

\* The subtraction in the fit test never wraps.
THEOREM SizesHoldHeadersAlways == Spec => []SizesHoldHeaders
<1>1. IInv => SizesHoldHeaders
  BY DEF IInv, BlocksAligned, SizesHoldHeaders
<1>2. QED
  BY Inductive, <1>1, PTL

\* What malloc returns is aligned for what was asked for.
THEOREM NaturallyAlignedAlways == Spec => []NaturallyAligned
<1>1. IInv => NaturallyAligned
  BY DEF IInv
<1>2. QED
  BY Inductive, <1>1, PTL

\* malloc implements the allocator every caller relies on: no byte is handed
\* out twice, whether it comes from the list or from a slab.
THEOREM HeapImplementsGrants == Spec => ImplementsGrants
<1>1. Init => G!Init
  BY DEF Init, G!Init, Fresh
<1>2. IInv /\ [Next]_vars => [G!Next]_vars
  <2> SUFFICES ASSUME IInv, Next PROVE G!Next
    OBVIOUS
  <2>1. CASE init_heap_pages
    <3>1. Fresh' = {} /\ owned' = owned
      BY <2>1 DEF init_heap_pages, Fresh, IInv, NoCallYet
    <3>2. QED
      BY <3>1 DEF G!Next, G!Refuse
  <2>2. ASSUME NEW n \in Requests, malloc(n) PROVE G!Next
    <3>1. n \in Nat /\ blocks # <<>>
      BY <2>2, MallocCases
    <3>2. CASE Refused(n)
      <4>1. Fresh' = {} /\ owned' = owned
        BY <3>2 DEF Refused, Fresh
      <4>2. QED
        BY <4>1 DEF G!Next, G!Refuse
    <3>3. ASSUME NEW r \in Nat, r # NULL, call' = [size |-> n, ret |-> r],
                 owned' = owned \cup (r .. r + n - 1),
                 r .. r + n - 1 \subseteq (0 .. HeapBytes - 1) \ owned
          PROVE  G!Next
      <4>1. Fresh' = r .. r + n - 1
        BY <3>3 DEF Fresh
      <4>2. CASE Fresh' = {}
        <5>1. owned' = owned
          BY <3>3, <4>1, <4>2
        <5>2. QED
          BY <4>2, <5>1 DEF G!Next, G!Refuse
      <4>3. CASE Fresh' # {}
        BY <3>3, <4>1, <4>3 DEF G!Next, G!Grant
      <4>4. QED
        BY <4>2, <4>3
    <3>4. ASSUME NEW s \in Slab, NEW j \in Slot(s), FromSlab(n, s, j)
          PROVE  G!Next
      <4> DEFINE r == SlabBase(s) + SlabSize[s] * j
      <4>1. /\ n <= SlabSize[s] /\ j \in FreeSlots(s)
            /\ call' = [size |-> n, ret |-> r]
            /\ owned' = owned \cup (r .. r + n - 1)
        BY <3>4 DEF FromSlab
      <4>2. r \in Nat /\ SlabSize[s] \in Nat
        <5>1. SlabBase(s) \in Nat
          BY Geometry DEF Slab
        <5>2. SlabSize[s] \in {8, 16, 32} /\ j \in Nat
          BY SlotInChunk DEF Slab, SlabSize
        <5>3. SlabSize[s] * j \in Nat
          BY <5>2
        <5>4. QED
          BY <5>1, <5>2, <5>3
      <4>3. /\ SlotBytes(s, j) = r .. r + SlabSize[s] - 1
            /\ SlotBytes(s, j) \subseteq Area .. HeapBytes - 1
            /\ SlotBytes(s, j) \cap owned = {}
        BY <4>1, SlotFacts, FreeSlotUnowned DEF SlotBytes
      <4> HIDE DEF r
      <4>4. r .. r + n - 1 \subseteq SlotBytes(s, j)
        BY <3>1, <4>1, <4>2, <4>3
      <4>5. Area .. HeapBytes - 1 \subseteq 0 .. HeapBytes - 1
        BY Geometry
      <4>6. r # NULL
        BY <4>2 DEF NULL
      <4>7. r .. r + n - 1 \subseteq (0 .. HeapBytes - 1) \ owned
        BY <4>3, <4>4, <4>5
      <4>8. QED
        BY <3>3, <4>1, <4>2, <4>6, <4>7
    <3>5. CASE FromList(n)
      <4> DEFINE r == Brk + HeaderSize
      <4>1. Brk = Last(blocks).addr /\ B!Need(n) \in Nat
            /\ B!Need(n) >= HeaderSize + n /\ Brk + B!Need(n) <= Area
        BY <3>1, <3>5, FromListFacts
      <4>2. call' = [size |-> n, ret |-> r] /\ owned' = owned \cup (r .. r + n - 1)
        BY <3>5, <4>1 DEF FromList
      <4>3. Brk \in Nat /\ Area \in Nat /\ Area <= HeapBytes /\ HeapBytes \in Nat
        <5>1. /\ Area \in Nat /\ ChunkBytes \in Nat /\ HeapBytes \in Nat
              /\ Area < ChunkBytes /\ 4 * ChunkBytes <= HeapBytes
          BY Geometry
        <5>2. QED
          BY <5>1, BrkFacts
      <4>4. r .. r + n - 1 \subseteq Brk .. Area - 1
        BY <3>1, <4>1, <4>3 DEF HeaderSize
      <4>5. Brk .. Area - 1 \subseteq 0 .. HeapBytes - 1
        BY <4>3
      <4>6. r \in Nat /\ r # NULL
        BY <4>3 DEF HeaderSize, NULL
      <4>7. QED
        BY <3>3, <4>2, <4>4, <4>5, <4>6, RestUnowned
    <3>6. QED
      BY <2>2, <3>2, <3>4, <3>5, MallocCases
  <2>3. QED
    BY <2>1, <2>2 DEF Next
<1>3. QED
  BY <1>1, <1>2, Inductive, PTL DEF Spec, ImplementsGrants

\* The list with its headers, splits and first-fit search is one pointer that
\* moves up: it returns null exactly when the rest of the block area is too
\* small for the header and the rounded request.
THEOREM BlockListIsBumpAlways == Spec => BlockListIsBump
<1> DEFINE BumpStep == blocks # <<>> /\ slab' = slab =>
                          B!Bump(call'.size) \/ B!Refuse(call'.size, NULL)
<1>1. Init => B!Init
  BY DEF Init, B!Init, Brk
<1>2. IInv /\ [Next]_vars => [BumpStep]_vars
  <2> SUFFICES ASSUME IInv, Next, blocks # <<>>, slab' = slab
               PROVE  B!Bump(call'.size) \/ B!Refuse(call'.size, NULL)
    BY DEF vars
  <2>1. PICK n \in Requests : malloc(n)
    BY DEF Next, init_heap_pages
  <2>2. n \in Nat
    BY <2>1, MallocCases
  <2>3. Brk \in 0 .. Area /\ Area \in Nat /\ Area <= HeapBytes /\ HeapBytes \in Nat
    <3>1. /\ Area \in Nat /\ ChunkBytes \in Nat /\ HeapBytes \in Nat
          /\ Area < ChunkBytes /\ 4 * ChunkBytes <= HeapBytes
      BY Geometry
    <3>2. QED
      BY <3>1, BrkFacts
  <2>4. ASSUME Refused(n), n > HeapBytes \/ ~Fits(Last(blocks), n)
        PROVE  B!Refuse(n, NULL) /\ call'.size = n
    <3>1. Brk' = Brk /\ call' = [size |-> n, ret |-> NULL]
      BY <2>4 DEF Refused, Brk
    <3>2. B!Need(n) \in Nat /\ B!Need(n) >= HeaderSize + n
      <4>1. B!Need(n) = 64 + (n + ((64 - (n % 64)) % 64))
        BY DEF B!Need, B!RoundUp, HeaderSize, HEAP_BLOCK_ALIGN
      <4>2. QED
        BY <2>2, <4>1 DEF HeaderSize
    <3>3. CASE n > HeapBytes
      <4>1. Brk + B!Need(n) > Area
        BY <2>2, <2>3, <3>2, <3>3 DEF HeaderSize
      <4>2. QED
        BY <3>1, <4>1 DEF B!Refuse, Area
    <3>4. CASE ~Fits(Last(blocks), n)
      <4>1. /\ Last(blocks) = blocks[Len(blocks)] /\ Len(blocks) \in DOMAIN blocks
            /\ Last(blocks).addr \in Nat /\ Last(blocks).size \in Nat
            /\ Last(blocks).addr + Last(blocks).size = Area
        BY LastFacts DEF Block
      <4>2. Last(blocks).allocated \/ Last(blocks).size - HeaderSize < n
        BY <2>2, <3>4, <4>1, FitsFacts DEF HeaderSize
      <4>3. Brk = Area \/ (Brk = Last(blocks).addr /\ Last(blocks).size < HeaderSize + n)
        BY <2>2, <4>1, <4>2, BrkFacts DEF HeaderSize
      <4>4. Brk + B!Need(n) > Area
        BY <2>2, <2>3, <3>2, <4>1, <4>3 DEF HeaderSize
      <4>5. QED
        BY <3>1, <4>4 DEF B!Refuse, Area
    <3>5. QED
      BY <2>4, <3>1, <3>3, <3>4
  <2>5. ASSUME NEW s \in Slab, NEW j \in Slot(s), FromSlab(n, s, j) PROVE FALSE
    BY <2>5 DEF FromSlab, FreeSlots, IInv, TypeOK
  <2>6. ASSUME FromList(n) PROVE B!Bump(n) /\ call'.size = n
    <3>1. /\ Brk = Last(blocks).addr /\ Brk + B!Need(n) <= Area
          /\ Brk' = Brk + B!Need(n)
      BY <2>2, <2>6, FromListFacts
    <3>2. call' = [size |-> n, ret |-> Brk + HeaderSize]
      BY <2>6, <3>1 DEF FromList
    <3>3. QED
      BY <3>1, <3>2 DEF B!Bump, Area
  <2>7. QED
    BY <2>1, <2>4, <2>5, <2>6, MallocCases
<1>3. QED
  BY <1>1, <1>2, Inductive, PTL DEF Spec, BlockListIsBump

=============================================================================
