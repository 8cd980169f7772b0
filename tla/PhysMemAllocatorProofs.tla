----------------------- MODULE PhysMemAllocatorProofs -----------------------
(***************************************************************************)
(* Proofs about the physical page allocator, for every geometry and every  *)
(* set of memory maps that fit in it.                                      *)
(***************************************************************************)
EXTENDS PhysMemAllocator, TLAPS

-----------------------------------------------------------------------------
(* The arithmetic of pages, bytes and words.                               *)

\* There is a page 0, and pages are natural numbers.
LEMMA PageFacts == 0 \in Page /\ Page \subseteq Nat
<1>1. NPages \in Nat \ {0}
  BY GeometryAssumption, SMTT(30) DEF NPages
<1>2. QED
  BY <1>1 DEF Page

\* Every page of byte 0 of the bitmap is a page of word 0.
LEMMA ByteZeroInWordZero == BytePages(0) \subseteq WordPages(0)
<1> SUFFICES ASSUME NEW p \in Page, p \div ByteBits = 0
             PROVE  p \div (ByteBits * WordBytes) = 0
  BY DEF BytePages, WordPages
<1>1. p \in Nat /\ p < ByteBits
  BY PageFacts, GeometryAssumption, SMTT(30)
<1>2. ByteBits * WordBytes \in Nat \ {0} /\ p < ByteBits * WordBytes
  BY <1>1, GeometryAssumption, SMTT(30)
<1>3. QED
  BY <1>1, <1>2, SMTT(30)

\* Different bytes, and different words, have different pages.
LEMMA UnitsDisjoint ==
    ASSUME NEW op \in Op, NEW u, NEW v, u # v
    PROVE  Pages(op, u) \cap Pages(op, v) = {}
BY DEF Pages, BytePages, WordPages

\* Page 0 is in unit 0 and in no other.
LEMMA PageZeroUnit ==
    ASSUME NEW op \in Op, NEW u \in Units(op), 0 \in Pages(op, u)
    PROVE  u = 0
<1>1. 0 \div ByteBits = 0
  BY GeometryAssumption, SMT
<1>2. ByteBits * WordBytes \in Nat \ {0}
  BY GeometryAssumption, SMTT(30)
<1>3. 0 \div (ByteBits * WordBytes) = 0
  BY <1>2, SMT
<1>4. QED
  BY <1>1, <1>3 DEF Pages, BytePages, WordPages

-----------------------------------------------------------------------------
(* What one scan returns and what it loses.                                *)

\* A block lies in its unit and is unmarked when its test has passed.
LEMMA BlockIsFree ==
    ASSUME NEW op \in Op, NEW u, Fits(op, u)
    PROVE  Block(op, u) \subseteq Pages(op, u) \ mem_bitmap
BY DEF Fits, Block, FreeIn

LEMMA PagesArePages ==
    ASSUME NEW op \in Op, NEW u
    PROVE  Pages(op, u) \subseteq Page
BY DEF Pages, BytePages, WordPages

\* What a scan loses is unmarked, holds page 0 and stays inside word 0.
LEMMA LostFacts ==
    ASSUME NEW op \in Op, Lost(op) # {}
    PROVE  /\ Lost(op) \subseteq Page \ mem_bitmap
           /\ 0 \in Lost(op)
           /\ Lost(op) \subseteq WordPages(0)
<1>1. Lost(op) = Block(op, 0) /\ Fits(op, 0) /\ 0 \in Block(op, 0)
  BY DEF Lost, LosesPageZero
<1>2. Block(op, 0) \subseteq Pages(op, 0) \ mem_bitmap
  BY <1>1, BlockIsFree
<1>3. Pages(op, 0) \subseteq WordPages(0)
  BY ByteZeroInWordZero DEF Pages
<1>4. QED
  BY <1>1, <1>2, <1>3, PagesArePages

\* What a scan returns is unmarked, is not what it lost, and is not page 0.
LEMMA FoundFacts ==
    ASSUME NEW op \in Op, NEW u \in Found(op)
    PROVE  /\ Block(op, u) \subseteq Page \ mem_bitmap
           /\ Block(op, u) \cap Lost(op) = {}
           /\ 0 \notin Block(op, u)
<1>1. u \in Units(op) /\ Fits(op, u) /\ ~(u = 0 /\ LosesPageZero(op))
  BY DEF Found, FirstPass, SecondPass, Returnable
<1>2. Block(op, u) \subseteq Pages(op, u) \ mem_bitmap
  BY <1>1, BlockIsFree
<1>3. 0 \notin Block(op, u)
  BY <1>1, <1>2, PageZeroUnit DEF LosesPageZero
<1>4. Block(op, u) \cap Lost(op) = {}
  <2>1. CASE Lost(op) = {}
    BY <2>1
  <2>2. CASE Lost(op) # {}
    <3>1. LosesPageZero(op) /\ Lost(op) = Block(op, 0)
      BY <2>2 DEF Lost
    <3>2. u # 0
      BY <1>1, <3>1
    <3>3. Lost(op) \subseteq Pages(op, 0)
      BY <3>1, BlockIsFree DEF LosesPageZero
    <3>4. QED
      BY <1>2, <3>2, <3>3, UnitsDisjoint
  <2>3. QED
    BY <2>1, <2>2
<1>5. QED
  BY <1>2, <1>3, <1>4, PagesArePages

\* The effect of a call on the state, whichever way it ends.
LEMMA AllocEffect ==
    ASSUME NEW op \in Op, Alloc(op)
    PROVE  /\ mem_bitmap' = mem_bitmap \cup Lost(op) \cup call'.pages
           /\ granted' = granted \cup call'.pages
           /\ call'.pages \subseteq Page \ (mem_bitmap \cup Lost(op))
           /\ 0 \notin call'.pages
           /\ call' \in [op : Op \cup {"none"}, pages : SUBSET Page]
           /\ last_alloc \in Page => last_alloc' \in Page
           /\ UNCHANGED <<phase, mmap, reserved>>
<1>1. CASE Refuse(op)
  BY <1>1, PageFacts DEF Refuse, Alloc
<1>2. ASSUME NEW u \in Units(op), Grant(op, u)
      PROVE  /\ mem_bitmap' = mem_bitmap \cup Lost(op) \cup call'.pages
             /\ granted' = granted \cup call'.pages
             /\ call'.pages \subseteq Page \ (mem_bitmap \cup Lost(op))
             /\ 0 \notin call'.pages
             /\ call' \in [op : Op \cup {"none"}, pages : SUBSET Page]
             /\ last_alloc' \in Page
  <2>1. /\ Block(op, u) \subseteq Page \ mem_bitmap
        /\ Block(op, u) \cap Lost(op) = {}
        /\ 0 \notin Block(op, u)
    BY <1>2, FoundFacts DEF Grant
  <2>2. call' = [op |-> op, pages |-> Block(op, u)]
    BY <1>2 DEF Grant
  <2>3. last_alloc' \in Block(op, u)
    BY <1>2 DEF Grant
  <2>4. QED
    BY <1>2, <2>1, <2>2, <2>3 DEF Grant
<1>3. QED
  BY <1>1, <1>2 DEF Alloc

\* The effect of alloc32: a whole word that no bit of was set, or nothing at
\* all, and then no word but that of page 0 would have passed the test.
LEMMA Alloc32Effect ==
    ASSUME TypeOK, alloc32
    PROVE  /\ granted' = granted \cup call'.pages
           /\ call'.pages \cap mem_bitmap = {}
           /\ 0 \notin call'.pages
           /\ UNCHANGED <<phase, mmap, reserved>>
           /\ \/ /\ call'.pages = {}
                 /\ \A w \in Units("alloc32") :
                       WordPages(w) \cap mem_bitmap = {} => w = 0
              \/ \E w \in Units("alloc32") : call'.pages = WordPages(w)
<1>1. Alloc("alloc32") /\ "alloc32" \in Op
  BY DEF alloc32, Op
<1>2. \A w : Fits("alloc32", w) <=> WordPages(w) \cap mem_bitmap = {}
  BY DEF Fits, FreeIn, Pages
<1>3. CASE Refuse("alloc32")
  <2>1. call'.pages = {} /\ Found("alloc32") = {}
    BY <1>3 DEF Refuse
  <2>2. \A w \in Returnable("alloc32") : w \in FirstPass("alloc32") \cup SecondPass("alloc32")
    <3>1. \A w \in Returnable("alloc32") :
             w \in Int /\ StartUnit("alloc32") \in Int => 
               w >= StartUnit("alloc32") \/ w < StartUnit("alloc32")
      OBVIOUS
    <3>2. Returnable("alloc32") \subseteq Int
      BY DEF Returnable, Units
    <3>3. StartUnit("alloc32") \in Int
      <4>1. last_alloc \in Nat /\ ByteBits * WordBytes \in Nat \ {0}
        BY PageFacts, GeometryAssumption, SMTT(30) DEF TypeOK
      <4> DEFINE n == ByteBits * WordBytes
      <4>2. n \in Nat \ {0} /\ StartUnit("alloc32") = last_alloc \div n
        BY <4>1 DEF StartUnit
      <4> HIDE DEF n
      <4>3. QED
        BY <4>1, <4>2
    <3>4. QED
      BY <3>1, <3>2, <3>3 DEF FirstPass, SecondPass
  <2>3. \A w \in Units("alloc32") : Fits("alloc32", w) => w = 0
    BY <2>1, <2>2 DEF Found, Returnable
  <2>4. QED
    BY <1>1, <1>2, <2>1, <2>3, AllocEffect
<1>4. CASE ~Refuse("alloc32")
  <2>1. PICK w \in Units("alloc32") : Grant("alloc32", w)
    BY <1>1, <1>4 DEF Alloc
  <2>2. call'.pages = WordPages(w)
    BY <2>1 DEF Grant, Block, Pages
  <2>3. QED
    BY <1>1, <2>1, <2>2, AllocEffect
<1>5. QED
  BY <1>3, <1>4

-----------------------------------------------------------------------------
(* Type correctness.                                                       *)

LEMMA MarkedByPages == ASSUME NEW m PROVE MarkedBy(m) \subseteq Page
BY DEF MarkedBy, UnavailPages

\* Every variable keeps its type: in particular last_alloc stays a page, so
\* that every scan starts inside the bitmap.
THEOREM TypeCorrect == Spec => []TypeOK
<1>1. Init => TypeOK
  BY PageFacts DEF Init, TypeOK, NoCall
<1>2. TypeOK /\ [Next]_vars => TypeOK'
  <2> SUFFICES ASSUME TypeOK, [Next]_vars PROVE TypeOK'
    OBVIOUS
  <2>1. ASSUME NEW m \in Mmaps, init_mmap(m) PROVE TypeOK'
    BY <2>1, MarkedByPages DEF init_mmap, TypeOK
  <2>2. CASE PhysMemAllocatorCtor
    BY <2>2, PageFacts DEF PhysMemAllocatorCtor, TypeOK
  <2>3. ASSUME NEW op \in Op, Alloc(op) PROVE TypeOK'
    <3>1. Lost(op) \subseteq Page
      BY LostFacts
    <3>2. QED
      BY <2>3, <3>1, AllocEffect DEF TypeOK
  <2>4. CASE UNCHANGED vars
    BY <2>4 DEF vars, TypeOK
  <2>5. QED
    BY <2>1, <2>2, <2>3, <2>4 DEF Next, alloc1, alloc8, alloc32, Op
<1>3. QED
  BY <1>1, <1>2, PTL DEF Spec

-----------------------------------------------------------------------------
(* Where every marked page comes from.                                     *)

\* The history variables are what they are named: before init_mmap nothing
\* is marked or granted, after it reserved is what the map marks, and no
\* reserved page has been granted.
Accounted ==
    /\ phase = "bss" => mem_bitmap = {} /\ granted = {} /\ reserved = {}
    /\ phase # "bss" => mmap \in Mmaps /\ reserved = MarkedBy(mmap)
    /\ granted \cap reserved = {}

IInv == TypeOK /\ OnlyPageZeroLeaks /\ Accounted

LEMMA InitIInv == Init => IInv
BY PageFacts
   DEF Init, IInv, TypeOK, NoCall, OnlyPageZeroLeaks, Accounted

LEMMA AllocIInv ==
    ASSUME IInv, NEW op \in Op, phase # "bss", Alloc(op)
    PROVE  OnlyPageZeroLeaks' /\ Accounted'
<1>1. /\ mem_bitmap' = mem_bitmap \cup Lost(op) \cup call'.pages
      /\ granted' = granted \cup call'.pages
      /\ call'.pages \subseteq Page \ (mem_bitmap \cup Lost(op))
      /\ UNCHANGED <<phase, mmap, reserved>>
  BY AllocEffect
<1>2. Accounted'
  BY <1>1 DEF IInv, Accounted, OnlyPageZeroLeaks
<1>3. OnlyPageZeroLeaks'
  <2> DEFINE leaked == mem_bitmap \ (reserved \cup granted)
  <2>1. mem_bitmap' \ (reserved' \cup granted') \subseteq leaked \cup Lost(op)
    BY <1>1
  <2>2. leaked # {} => 0 \in leaked /\ leaked \subseteq WordPages(0)
    BY DEF IInv, OnlyPageZeroLeaks
  <2>3. Lost(op) # {} => /\ Lost(op) \subseteq WordPages(0)
                         /\ 0 \in Lost(op) /\ 0 \notin mem_bitmap
    BY LostFacts
  <2>4. 0 \notin call'.pages
    BY AllocEffect
  <2>5. reserved \cup granted \subseteq mem_bitmap
    BY DEF IInv, OnlyPageZeroLeaks
  <2>6. reserved' \cup granted' \subseteq mem_bitmap'
    BY <1>1, <2>5
  <2>7. CASE Lost(op) = {}
    BY <1>1, <2>1, <2>2, <2>4, <2>6, <2>7 DEF OnlyPageZeroLeaks, WordPages, Page,
       NPages
  <2>8. CASE Lost(op) # {}
    <3>1. 0 \in mem_bitmap' \ (reserved' \cup granted')
      BY <1>1, <2>3, <2>4, <2>5, <2>8
    <3>2. leaked \cup Lost(op) \subseteq WordPages(0)
      BY <2>2, <2>3, <2>8
    <3>3. WordPages(0)' = WordPages(0)
      BY DEF WordPages, Page, NPages
    <3>4. QED
      BY <2>1, <2>6, <3>1, <3>2, <3>3 DEF OnlyPageZeroLeaks
  <2>9. QED
    BY <2>7, <2>8
<1>4. QED
  BY <1>2, <1>3

LEMMA StepIInv == IInv /\ [Next]_vars => OnlyPageZeroLeaks' /\ Accounted'
<1> SUFFICES ASSUME IInv, [Next]_vars
             PROVE  OnlyPageZeroLeaks' /\ Accounted'
  OBVIOUS
<1>1. ASSUME NEW m \in Mmaps, init_mmap(m)
      PROVE  OnlyPageZeroLeaks' /\ Accounted'
  BY <1>1 DEF init_mmap, IInv, OnlyPageZeroLeaks, Accounted
<1>2. CASE PhysMemAllocatorCtor
  BY <1>2 DEF PhysMemAllocatorCtor, IInv, OnlyPageZeroLeaks, Accounted
<1>3. ASSUME NEW op \in Op, Alloc(op), phase # "bss"
      PROVE  OnlyPageZeroLeaks' /\ Accounted'
  BY <1>3, AllocIInv
<1>4. CASE UNCHANGED vars
  BY <1>4 DEF vars, IInv, OnlyPageZeroLeaks, Accounted
<1>5. QED
  BY <1>1, <1>2, <1>3, <1>4 DEF Next, alloc1, alloc8, alloc32, Op

LEMMA Inductive == Spec => []IInv
<1>1. IInv /\ TypeOK' /\ [Next]_vars => IInv'
  BY StepIInv DEF IInv
<1>2. QED
  BY InitIInv, TypeCorrect, <1>1, PTL DEF Spec

\* Marked pages that nobody owns and the memory map did not mark exist only
\* in the first word, and only once page 0 itself has been lost.
THEOREM OnlyPageZeroLeaksAlways == Spec => []OnlyPageZeroLeaks
<1>1. IInv => OnlyPageZeroLeaks
  BY DEF IInv
<1>2. QED
  BY Inductive, <1>1, PTL

-----------------------------------------------------------------------------
(* The rounding of mark_unavail_pages.                                     *)

LEMMA DivFacts ==
    ASSUME NEW a \in Nat
    PROVE  /\ a \div PageUnits \in Nat
           /\ (a \div PageUnits) * PageUnits <= a
           /\ a < (a \div PageUnits) * PageUnits + PageUnits
BY GeometryAssumption, SMTT(60)

\* Every address of an unavailable region lies in a page the region marks.
LEMMA RoundingCovers ==
    ASSUME NEW r \in Region, Below4G(r),
           r.type \notin {"available", "acpi_reclaimable"},
           NEW a \in r.addr .. r.addr + r.len - 1
    PROVE  a \div PageUnits \in UnavailPages(r)
<1> DEFINE p == a \div PageUnits
           q == r.addr \div PageUnits
<1>1. /\ r.addr \in Nat /\ r.len \in Nat /\ a \in Nat
      /\ r.addr <= a /\ a < r.addr + r.len
  BY DEF Region
<1>2. p \in Nat /\ p * PageUnits <= a /\ a < p * PageUnits + PageUnits
  BY <1>1, DivFacts
<1>3. q \in Nat /\ q * PageUnits <= r.addr
  BY <1>1, DivFacts
<1>4. PageUnits \in Nat \ {0}
  BY GeometryAssumption
<1>5. NPages \in Nat
  BY PageFacts, GeometryAssumption, SMTT(30) DEF NPages
<1> HIDE DEF p, q
<1>6. p >= q
  <2>1. SUFFICES ASSUME p + 1 <= q PROVE FALSE
    BY <1>2, <1>3
  <2>2. (p + 1) * PageUnits <= q * PageUnits
    BY <2>1, <1>2, <1>3, <1>4, SMTT(30)
  <2>3. (p + 1) * PageUnits = p * PageUnits + PageUnits
    BY <1>2, <1>4, SMTT(30)
  <2>4. QED
    BY <2>2, <2>3, <1>1, <1>2, <1>3, <1>4, SMTT(30)
<1>7. p < NPages
  <2>1. SUFFICES ASSUME NPages <= p PROVE FALSE
    BY <1>2, <1>5
  <2>2. NPages * PageUnits <= p * PageUnits
    BY <2>1, <1>2, <1>4, <1>5, SMTT(30)
  <2>3. QED
    BY <2>2, <1>1, <1>2, <1>4, <1>5, SMTT(30) DEF Below4G
<1>8. p \in Page
  BY <1>2, <1>5, <1>7 DEF Page
<1>9. p \in UnavailPages(r)
  <2>1. p * PageUnits < r.addr + r.len
    <3>1. p * PageUnits \in Nat
      BY <1>2, <1>4, SMTT(30)
    <3>2. QED
      BY <3>1, <1>1, <1>2
  <2>2. p >= r.addr \div PageUnits
    BY <1>6 DEF q
  <2>3. QED
    BY <2>1, <2>2, <1>8, Zenon DEF UnavailPages
<1>10. QED
  BY <1>9 DEF p

\* No page that an unavailable region of the map, the kernel image or the
\* text buffer touches is ever handed out.
THEOREM NoUnavailPageGrantedAlways == Spec => []NoUnavailPageGranted
<1>1. IInv => NoUnavailPageGranted
  <2> SUFFICES ASSUME IInv, NEW r \in UnavailRegions,
                      NEW a \in r.addr .. r.addr + r.len - 1
               PROVE  a \div PageUnits \notin granted
    BY DEF NoUnavailPageGranted
  <2>1. CASE phase = "bss"
    BY <2>1 DEF IInv, Accounted
  <2>2. CASE phase # "bss"
    <3>1. mmap \in Mmaps /\ reserved = MarkedBy(mmap)
      BY <2>2 DEF IInv, Accounted
    <3>2. r \in Region /\ Below4G(r) /\ r \in mmap \cup {KernelRegion, VgaRegion}
      BY <3>1, MmapAssumption, ReservedRegionsAssumption DEF UnavailRegions
    <3>3. a \div PageUnits \in UnavailPages(r)
      BY <3>2, RoundingCovers DEF UnavailRegions
    <3>4. a \div PageUnits \in reserved
      BY <3>1, <3>2, <3>3 DEF MarkedBy
    <3>5. QED
      BY <3>4 DEF IInv, Accounted
  <2>3. QED
    BY <2>1, <2>2
<1>2. QED
  BY Inductive, <1>1, PTL

-----------------------------------------------------------------------------
(* Refusals, and the promise to callers.                                   *)

\* A call that returns null found nothing, or lost page 0 on the way.
THEOREM HonestRefusalAlways == Spec => HonestRefusal
<1> DEFINE Honest ==
      phase' = phase /\ call'.pages = {} =>
         \A u \in Units(call'.op) : Fits(call'.op, u) =>
             /\ 0 \in mem_bitmap' \ mem_bitmap
             /\ call'.op = "alloc32" => u = 0
<1>1. ASSUME TypeOK, NEW op \in Op, Alloc(op) PROVE Honest
  <2> SUFFICES ASSUME call'.pages = {}, NEW u \in Units(call'.op),
                      Fits(call'.op, u)
               PROVE  /\ 0 \in mem_bitmap' \ mem_bitmap
                      /\ call'.op = "alloc32" => u = 0
    OBVIOUS
  <2>1. Refuse(op)
    BY <1>1 DEF Alloc, Grant
  <2>2. call'.op = op /\ Found(op) = {} /\ FirstPass(op) = {}
    BY <2>1 DEF Refuse, Found
  <2>3. u \in Int
    BY <2>2 DEF Units
  <2>4. StartUnit(op) \in Int
    <3>1. ByteBits * WordBytes \in Nat \ {0}
      BY GeometryAssumption, SMTT(30)
    <3>2. last_alloc \in Nat
      BY <1>1, PageFacts DEF TypeOK
    <3>3. QED
      BY <3>1, <3>2, GeometryAssumption DEF StartUnit
  <2>5. LosesPageZero(op) /\ (op = "alloc32" => u = 0)
    <3>1. CASE u \in Returnable(op)
      <4>1. u < StartUnit(op)
        BY <2>2, <2>3, <2>4, <3>1 DEF FirstPass
      <4>2. SecondPass(op) = {}
        BY <2>2 DEF Found
      <4>3. QED
        BY <3>1, <4>1, <4>2 DEF SecondPass
    <3>2. CASE u \notin Returnable(op)
      BY <2>2, <3>2 DEF Returnable
    <3>3. QED
      BY <3>1, <3>2
  <2>6. Lost(op) = Block(op, 0) /\ 0 \in Lost(op)
    BY <2>2, <2>5 DEF Lost, LosesPageZero
  <2>7. 0 \notin mem_bitmap
    BY <2>6, LostFacts
  <2>8. mem_bitmap' = mem_bitmap \cup Lost(op)
    BY <2>1 DEF Refuse
  <2>9. QED
    BY <2>2, <2>5, <2>6, <2>7, <2>8
<1>2. TypeOK /\ [Next]_vars => [Honest]_vars
  <2> SUFFICES ASSUME TypeOK, Next PROVE Honest
    BY DEF vars
  <2>1. ASSUME NEW m \in Mmaps, init_mmap(m) PROVE Honest
    BY <2>1 DEF init_mmap
  <2>2. CASE PhysMemAllocatorCtor
    BY <2>2 DEF PhysMemAllocatorCtor
  <2>3. QED
    BY <1>1, <2>1, <2>2 DEF Next, alloc1, alloc8, alloc32, Op
<1>3. QED
  BY <1>2, TypeCorrect, PTL DEF Spec, HonestRefusal

\* alloc1, alloc8 and alloc32 implement the allocator every caller relies on:
\* what they hand out nobody owned, and it is never page 0.
THEOREM PhysMemImplementsGrants == Spec => ImplementsGrants
<1>1. Init => G!Init
  BY DEF Init, G!Init, NoCall
<1>2. IInv /\ [Next]_vars => [G!Next]_(G!vars)
  <2> SUFFICES ASSUME IInv, [Next]_vars PROVE [G!Next]_(G!vars)
    OBVIOUS
  <2>1. ASSUME NEW op \in Op, Alloc(op) PROVE G!Next
    <3>1. /\ granted' = granted \cup call'.pages
          /\ call'.pages \subseteq Page \ mem_bitmap
          /\ 0 \notin call'.pages
      BY <2>1, AllocEffect
    <3>2. granted \subseteq mem_bitmap
      BY DEF IInv, OnlyPageZeroLeaks
    <3>3. CASE call'.pages = {}
      BY <3>1, <3>3 DEF G!Next, G!Refuse
    <3>4. CASE call'.pages # {}
      BY <3>1, <3>2, <3>4 DEF G!Next, G!Grant
    <3>5. QED
      BY <3>3, <3>4
  <2>2. ASSUME UNCHANGED <<granted, call>> PROVE [G!Next]_(G!vars)
    BY <2>2 DEF G!vars
  <2>3. QED
    BY <2>1, <2>2 DEF Next, vars, init_mmap, PhysMemAllocatorCtor,
       alloc1, alloc8, alloc32, Op
<1>3. QED
  BY <1>1, <1>2, Inductive, PTL DEF Spec, ImplementsGrants, G!Spec

=============================================================================
