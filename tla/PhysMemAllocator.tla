-------------------------- MODULE PhysMemAllocator --------------------------
(***************************************************************************)
(* The physical page allocator (phys_mem_allocator.cpp): one bit per page  *)
(* in mem_bitmap, marked from the boot loader's memory map by init_mmap    *)
(* and then by alloc1, alloc8 and alloc32, which scan the bitmap from the  *)
(* place of the last allocation and wrap around.                           *)
(*                                                                         *)
(* The bitmap is the set of pages whose bit is 1.  An address is counted   *)
(* in units of 1/PageUnits page, so that a region need not start or end on *)
(* a page boundary.                                                        *)
(***************************************************************************)
EXTENDS Integers

CONSTANTS
    ByteBits,     \* pages per byte of the bitmap (8)
    WordBytes,    \* bytes per 32-page word, b32 in alloc32 (4)
    NBytes,       \* sizeof(mem_bitmap) (NUM_PAGES / 8)
    PageUnits,    \* address units per page (PAGE_SIZE)
    Mmaps,        \* the memory maps a boot loader may pass: sets of regions
    KernelRegion, \* _kernel_start .. _kernel_end, physical
    VgaRegion     \* TERM_BUFFER, TERM_BUFFER_LEN

NPages == ByteBits * NBytes
Page   == 0 .. NPages - 1
Op     == {"alloc1", "alloc8", "alloc32"}

RegionType == {"available", "reserved", "acpi_reclaimable", "nvs", "badram"}

\* The address ranges the bitmap can represent: a region past 4 GiB would
\* index past the end of mem_bitmap, and is assumed away.
Region == [addr : Nat, len : Nat, type : RegionType]
Below4G(r) == r.addr + r.len <= NPages * PageUnits

ASSUME GeometryAssumption ==
    /\ ByteBits \in Nat \ {0}
    /\ WordBytes \in Nat \ {0}
    /\ NBytes \in Nat \ {0}
    /\ NBytes % WordBytes = 0
    /\ PageUnits \in Nat \ {0}

ASSUME MmapAssumption ==
    \A m \in Mmaps : \A r \in m : r \in Region /\ Below4G(r)

ASSUME ReservedRegionsAssumption ==
    \A r \in {KernelRegion, VgaRegion} :
        r \in Region /\ Below4G(r) /\ r.type = "reserved"

VARIABLES
    mem_bitmap,   \* the pages marked allocated
    last_alloc,   \* where the next scan starts
    phase,        \* "bss" (zeroed image), "early" (kernel_early_main), "main"
    mmap,         \* history: the memory map init_mmap was given
    reserved,     \* history: the pages init_mmap marked
    granted,      \* history: the pages returned to callers
    call          \* history: the last allocation and the pages it returned

vars == <<mem_bitmap, last_alloc, phase, mmap, reserved, granted, call>>

NoCall == [op |-> "none", pages |-> {}]

TypeOK ==
    /\ mem_bitmap \subseteq Page
    /\ last_alloc \in Page
    /\ phase \in {"bss", "early", "main"}
    /\ mmap \in Mmaps \cup {{}}
    /\ reserved \subseteq Page
    /\ granted \subseteq Page
    /\ call \in [op : Op \cup {"none"}, pages : SUBSET Page]

-----------------------------------------------------------------------------
(* The memory map.                                                         *)

\* Slip: only the pages that end inside the region.
WholePagesOnly(r) ==
    IF r.type \in {"available", "acpi_reclaimable"}
    THEN {}
    ELSE {p \in Page : /\ p >= r.addr \div PageUnits
                       /\ (p + 1) * PageUnits <= r.addr + r.len}

\* mark_unavail_pages: the pages a region marks.  The start is rounded down
\* to a page, and pages are marked until the end of the region is passed.
UnavailPages(r) ==
    IF r.type \in {"available", "acpi_reclaimable"}
    THEN {}
    ELSE {p \in Page : /\ p >= r.addr \div PageUnits
                       /\ p * PageUnits < r.addr + r.len}

MarkedBy(m) == UNION {UnavailPages(r) : r \in m \cup {KernelRegion, VgaRegion}}

Init ==
    /\ mem_bitmap = {}
    /\ last_alloc = 0
    /\ phase = "bss"
    /\ mmap = {}
    /\ reserved = {}
    /\ granted = {}
    /\ call = NoCall

\* init_mmap, called by kernel_early_main before any allocation.
init_mmap(m) ==
    /\ phase = "bss"
    /\ phase' = "early"
    /\ mem_bitmap' = MarkedBy(m)
    /\ reserved' = MarkedBy(m)
    /\ mmap' = m
    /\ UNCHANGED <<last_alloc, granted, call>>

\* Slip: the constructor clears the bitmap too.
CtorClearsBitmap ==
    /\ phase = "early"
    /\ phase' = "main"
    /\ last_alloc' = 0
    /\ mem_bitmap' = {}
    /\ UNCHANGED <<mmap, reserved, granted, call>>

\* The static constructor, run by _init after kernel_early_main has already
\* allocated the heap: it resets the scan position and leaves the bitmap.
PhysMemAllocatorCtor ==
    /\ phase = "early"
    /\ phase' = "main"
    /\ last_alloc' = 0
    /\ UNCHANGED <<mem_bitmap, mmap, reserved, granted, call>>

-----------------------------------------------------------------------------
(* The scans.  alloc1 and alloc8 look at bytes of the bitmap, alloc32 at   *)
(* words; a unit is one byte or one word.                                  *)

BytePages(i) == {p \in Page : p \div ByteBits = i}
WordPages(w) == {p \in Page : p \div (ByteBits * WordBytes) = w}

Units(op) == IF op = "alloc32" THEN 0 .. (NBytes \div WordBytes) - 1
                               ELSE 0 .. NBytes - 1
Pages(op, u) == IF op = "alloc32" THEN WordPages(u) ELSE BytePages(u)

\* The unit the first pass starts from (last_alloc / 8, last_alloc_b32).
StartUnit(op) == IF op = "alloc32" THEN last_alloc \div (ByteBits * WordBytes)
                                   ELSE last_alloc \div ByteBits

FreeIn(op, u) == Pages(op, u) \ mem_bitmap

\* Slip: every scan uses the test of alloc1.
AnyPageFree(op, u) == FreeIn(op, u) # {}

\* The bitmap test of try_alloc1, try_alloc8 and try_alloc32.
Fits(op, u) == IF op = "alloc1" THEN FreeIn(op, u) # {}
                                ELSE FreeIn(op, u) = Pages(op, u)

\* The pages a successful test marks: the lowest free one, or all of them.
Block(op, u) ==
    IF op = "alloc1" THEN {p \in FreeIn(op, u) : \A q \in FreeIn(op, u) : p <= q}
                     ELSE Pages(op, u)

\* Page 0 has address 0, which the scan takes for "nothing found here": the
\* unit is marked, and the scan goes on without returning it.
LosesPageZero(op) == Fits(op, 0) /\ 0 \in Block(op, 0)

Returnable(op) == {u \in Units(op) : /\ Fits(op, u)
                                     /\ ~(u = 0 /\ LosesPageZero(op))}

FirstPass(op) == {u \in Returnable(op) : u >= StartUnit(op)}

\* Slip: the second loop stops one unit early.
SecondPassStopsEarly(op) == {u \in Returnable(op) : u + 1 < StartUnit(op)}

\* In alloc1 and alloc8 the second loop runs to last_alloc / 8, which losing
\* page 0 has just set to 0: the loop ends there.  alloc32 keeps its bound
\* in last_alloc_b32 and goes on.
SecondPass(op) ==
    IF LosesPageZero(op) /\ op # "alloc32"
    THEN {}
    ELSE {u \in Returnable(op) : u < StartUnit(op)}

Found(op) == IF FirstPass(op) # {} THEN FirstPass(op) ELSE SecondPass(op)

Lost(op) ==
    IF LosesPageZero(op) /\ (StartUnit(op) = 0 \/ FirstPass(op) = {})
    THEN Block(op, 0)
    ELSE {}

Grant(op, u) ==
    /\ u \in Found(op)
    /\ \A v \in Found(op) : u <= v
    /\ mem_bitmap' = mem_bitmap \cup Lost(op) \cup Block(op, u)
    /\ \E p \in Block(op, u) : /\ \A q \in Block(op, u) : p <= q
                               /\ last_alloc' = p
    /\ granted' = granted \cup Block(op, u)
    /\ call' = [op |-> op, pages |-> Block(op, u)]

\* Slip: a failed scan leaves last_alloc where it stopped, past the end.
RefuseAtTheEnd(op) ==
    /\ Found(op) = {}
    /\ mem_bitmap' = mem_bitmap \cup Lost(op)
    /\ last_alloc' = NPages
    /\ call' = [op |-> op, pages |-> {}]
    /\ UNCHANGED granted

Refuse(op) ==
    /\ Found(op) = {}
    /\ mem_bitmap' = mem_bitmap \cup Lost(op)
    /\ last_alloc' = IF Lost(op) = {} THEN last_alloc ELSE 0
    /\ call' = [op |-> op, pages |-> {}]
    /\ UNCHANGED granted

Alloc(op) ==
    /\ \/ \E u \in Units(op) : Grant(op, u)
       \/ Refuse(op)
    /\ UNCHANGED <<phase, mmap, reserved>>

\* alloc1 and alloc8 have no caller in early boot; init_heap_pages calls
\* alloc32 before the constructor has run.
alloc1  == phase = "main" /\ Alloc("alloc1")
alloc8  == phase = "main" /\ Alloc("alloc8")
alloc32 == phase \in {"early", "main"} /\ Alloc("alloc32")

Next ==
    \/ \E m \in Mmaps : init_mmap(m)
    \/ PhysMemAllocatorCtor
    \/ alloc1
    \/ alloc8
    \/ alloc32

Spec == Init /\ [][Next]_vars

-----------------------------------------------------------------------------
(* Properties.                                                             *)

\* The promise to callers: alloc1, alloc8 and alloc32 together hand out every
\* page at most once, never page 0 (its address is the null pointer), and
\* what they handed out before the late constructor run stays handed out.
G == INSTANCE Grants WITH Unit <- Page \ {0}, owned <- granted,
                          fresh <- call.pages
ImplementsGrants == G!Spec

\* No page that a region of the memory map other than available or ACPI
\* reclaimable memory touches, not even in its last byte, and no page of the
\* kernel image or of the text buffer is ever handed out: the rounding in
\* mark_unavail_pages and the scans agree on what is taken.
UnavailRegions ==
    {r \in mmap \cup {KernelRegion, VgaRegion} :
        r.type \notin {"available", "acpi_reclaimable"}}
NoUnavailPageGranted ==
    \A r \in UnavailRegions : \A a \in r.addr .. r.addr + r.len - 1 :
        a \div PageUnits \notin granted

\* Nothing leaks but the word page 0 is in: every marked page was marked by
\* init_mmap, is owned by a caller, or was marked by a scan that took page 0
\* for "nothing found", and then page 0 itself is marked.
OnlyPageZeroLeaks ==
    LET leaked == mem_bitmap \ (reserved \cup granted)
    IN  /\ reserved \cup granted \subseteq mem_bitmap
        /\ leaked # {} => 0 \in leaked /\ leaked \subseteq WordPages(0)

\* A null return means there was nothing to return: no byte (or word) passed
\* the test.  The one exception is the call that loses page 0: alloc32 then
\* has looked at everything else, alloc1 and alloc8 may have given up early.
\* Since page 0 stays marked, this can happen once in the kernel's life.
HonestRefusal ==
    [][phase' = phase /\ call'.pages = {} =>
         \A u \in Units(call'.op) : Fits(call'.op, u) =>
             /\ 0 \in mem_bitmap' \ mem_bitmap
             /\ call'.op = "alloc32" => u = 0]_vars
=============================================================================
