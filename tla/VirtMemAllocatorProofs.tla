----------------------- MODULE VirtMemAllocatorProofs -----------------------
(***************************************************************************)
(* Proofs about paging, for tables of any size, an image of any size at    *)
(* any place below the higher half, and whatever GRUB passes.              *)
(***************************************************************************)
EXTENDS VirtMemAllocator, RingArithmetic, FiniteSetTheorems,
        WellFoundedInduction

-----------------------------------------------------------------------------
(* Pages, directories and entries.                                         *)

\* The first directory of the higher half, and the last table of the image.
HighBase == VIRT_TO_PD_INDEX(KERNEL_BASE)
LastTable == VIRT_TO_PD_INDEX(KernelEnd - 1)

\* A set of naturals has a least element.
LEMMA LeastElement ==
    ASSUME NEW S, S \subseteq Nat, S # {}
    PROVE  /\ \E x \in S : \A y \in S : x <= y
           /\ FirstOf(S) \in S
           /\ \A y \in S : FirstOf(S) <= y
<1> DEFINE R == OpToRel(<, Nat)
<1>1. IsWellFoundedOn(R, Nat)
  BY NatLessThanWellFounded
<1>2. \A x, y \in Nat : <<y, x>> \in R <=> y < x
  BY DEF OpToRel
<1> HIDE DEF R
<1>3. PICK x \in S : \A y \in S : ~ (<<y, x>> \in R)
  BY <1>1, WFMin
<1>4. ASSUME NEW y \in S PROVE x <= y
  <2>1. x \in Nat /\ y \in Nat
    OBVIOUS
  <2>2. ~ (<<y, x>> \in R)
    BY <1>3
  <2>3. ~ (y < x)
    BY <1>2, <2>1, <2>2
  <2>4. QED
    BY <2>1, <2>3
<1>5. QED
  BY <1>4 DEF FirstOf

\* The constants, in the form the proofs use.
LEMMA Sizes ==
    /\ Dirs \in Nat \ {0} /\ Entries \in Nat \ {0} /\ Entries < KernelEnd
    /\ KERNEL_BASE \in Nat /\ KernelStart \in Nat /\ KernelEnd \in Nat
    /\ KernelStart < KernelEnd /\ KernelEnd <= KERNEL_BASE
    /\ TablesAt \in Nat /\ KernelStart <= TablesAt /\ TablesAt + Dirs <= KernelEnd
    /\ MaxCalls \in Nat /\ Dirs * Entries \in Nat
    /\ KERNEL_BASE + KernelEnd <= Dirs * Entries
<1>1. Dirs * Entries \in Nat
  BY GeometryAssumption, SMTT(30)
<1>2. KERNEL_BASE \in Nat
  BY <1>1, GeometryAssumption DEF Page
<1>3. QED
  BY <1>1, <1>2, GeometryAssumption DEF Kernel

\* A page's directory and entry.
LEMMA PageParts ==
    ASSUME NEW v \in Nat
    PROVE  /\ VIRT_TO_PD_INDEX(v) \in Nat /\ VIRT_TO_PT_INDEX(v) \in Entry
           /\ v = VIRT_TO_PD_INDEX(v) * Entries + VIRT_TO_PT_INDEX(v)
           /\ VIRT_TO_PD_INDEX(v) * Entries \in Nat
<1>1. Entries \in Nat \ {0}
  BY Sizes
<1>2. /\ v \div Entries \in Nat /\ v % Entries \in 0 .. Entries - 1
      /\ v = (v \div Entries) * Entries + (v % Entries)
      /\ (v \div Entries) * Entries \in Nat
  BY <1>1, SMTT(30)
<1>3. QED
  BY <1>2 DEF VIRT_TO_PD_INDEX, VIRT_TO_PT_INDEX, Entry

\* The page of a directory and an entry.
LEMMA PageOf ==
    ASSUME NEW d \in Nat, NEW e \in Entry
    PROVE  /\ d * Entries + e \in Nat
           /\ VIRT_TO_PD_INDEX(d * Entries + e) = d
           /\ VIRT_TO_PT_INDEX(d * Entries + e) = e
<1> DEFINE x == d * Entries + e
<1>1. Entries \in Nat \ {0} /\ e \in 0 .. Entries - 1
  BY Sizes DEF Entry
<1>2. x \in Nat
  BY <1>1, SMTT(30)
<1>3. VIRT_TO_PD_INDEX(x) = d
  BY <1>1, IndexRow DEF VIRT_TO_PD_INDEX
<1>4. x = d * Entries + VIRT_TO_PT_INDEX(x) /\ VIRT_TO_PT_INDEX(x) \in 0 .. Entries - 1
  <2> HIDE DEF x
  <2>1. QED
    BY <1>2, <1>3, PageParts DEF Entry
<1>5. d * Entries \in Nat
  BY <1>1, SMTT(30)
<1>6. VIRT_TO_PT_INDEX(x) = e
  <2> DEFINE y == d * Entries
             z == VIRT_TO_PT_INDEX(x)
  <2>1. y + e = y + z /\ y \in Nat /\ z \in 0 .. Entries - 1
    BY <1>4, <1>5
  <2> HIDE DEF y, z
  <2>2. z = e
    BY <1>1, <2>1
  <2>3. QED
    BY <2>2 DEF z
<1>7. QED
  BY <1>2, <1>3, <1>6

\* Directories grow with pages.
LEMMA DirMonotonic ==
    ASSUME NEW v \in Nat, NEW w \in Nat, v <= w
    PROVE  VIRT_TO_PD_INDEX(v) <= VIRT_TO_PD_INDEX(w)
<1> DEFINE a == VIRT_TO_PD_INDEX(v)
           b == VIRT_TO_PD_INDEX(w)
<1>1. /\ a \in Nat /\ b \in Nat /\ Entries \in Nat \ {0}
      /\ a * Entries \in Nat /\ b * Entries \in Nat
      /\ v >= a * Entries /\ w < b * Entries + Entries
  <2>1. VIRT_TO_PT_INDEX(v) \in 0 .. Entries - 1 /\ VIRT_TO_PT_INDEX(w) \in 0 .. Entries - 1
    BY PageParts DEF Entry
  <2>2. v = a * Entries + VIRT_TO_PT_INDEX(v) /\ w = b * Entries + VIRT_TO_PT_INDEX(w)
    BY PageParts
  <2>3. a \in Nat /\ b \in Nat /\ a * Entries \in Nat /\ b * Entries \in Nat
    BY PageParts
  <2>4. Entries \in Nat \ {0}
    BY Sizes
  <2> HIDE DEF a, b
  <2>5. QED
    BY <2>1, <2>2, <2>3, <2>4
<1> HIDE DEF a, b
<1>2. SUFFICES ASSUME b + 1 <= a PROVE FALSE
  BY <1>1 DEF a, b
<1>3. (b + 1) * Entries <= a * Entries /\ (b + 1) * Entries = b * Entries + Entries
  BY <1>1, <1>2, SMTT(30)
<1>4. QED
  BY <1>1, <1>3

\* The directories of the image, of the higher half and of all pages.
LEMMA Layout ==
    /\ HighBase \in Nat /\ LastTable \in Nat
    /\ KERNEL_BASE = HighBase * Entries
    /\ LastTable < HighBase
    /\ HighBase + LastTable < Dirs
    /\ \A f \in Kernel : f \in Nat /\ f < KERNEL_BASE /\ VIRT_TO_PD_INDEX(f) <= LastTable
    /\ \A v \in Page : v \in Nat /\ VIRT_TO_PD_INDEX(v) \in Dir
    /\ \A d \in Dir, e \in Entry : d * Entries + e \in Page
<1>1. /\ KERNEL_BASE \in Nat /\ KernelEnd - 1 \in Nat /\ KernelEnd - 1 < KERNEL_BASE
      /\ Dirs \in Nat \ {0} /\ Entries \in Nat \ {0} /\ Dirs * Entries \in Nat
  BY Sizes
<1>2. HighBase \in Nat /\ LastTable \in Nat
  BY <1>1, PageParts DEF HighBase, LastTable
<1>3. KERNEL_BASE = HighBase * Entries
  <2>1. KERNEL_BASE = HighBase * Entries + (KERNEL_BASE % Entries)
    BY <1>1, PageParts DEF HighBase, VIRT_TO_PT_INDEX
  <2>2. KERNEL_BASE % Entries = 0
    BY GeometryAssumption
  <2>3. HighBase * Entries \in Nat
    BY <1>1, PageParts DEF HighBase
  <2>4. QED
    BY <2>1, <2>2, <2>3
<1>4. /\ LastTable * Entries \in Nat /\ LastTable * Entries <= KernelEnd - 1
      /\ KernelEnd - 1 < LastTable * Entries + Entries
  <2>1. /\ KernelEnd - 1 = LastTable * Entries + VIRT_TO_PT_INDEX(KernelEnd - 1)
        /\ VIRT_TO_PT_INDEX(KernelEnd - 1) \in 0 .. Entries - 1
        /\ LastTable * Entries \in Nat
    BY <1>1, PageParts DEF LastTable, Entry
  <2>2. QED
    BY <1>1, <2>1
<1>5. LastTable < HighBase
  <2>1. SUFFICES ASSUME HighBase <= LastTable PROVE FALSE
    BY <1>2
  <2>2. HighBase * Entries <= LastTable * Entries
    BY <1>1, <1>2, <2>1, SMTT(30)
  <2>3. QED
    BY <1>1, <1>3, <1>4, <2>2
<1>6. HighBase + LastTable < Dirs
  <2>1. SUFFICES ASSUME Dirs <= HighBase + LastTable PROVE FALSE
    BY <1>1, <1>2
  <2>2. Dirs * Entries <= (HighBase + LastTable) * Entries
    BY <1>1, <1>2, <2>1, SMTT(30)
  <2>3. (HighBase + LastTable) * Entries = HighBase * Entries + LastTable * Entries
    BY <1>1, <1>2, SMTT(30)
  <2>4. KERNEL_BASE + KernelEnd <= Dirs * Entries
    BY Sizes
  <2>5. QED
    BY <1>1, <1>3, <1>4, <2>2, <2>3, <2>4, Sizes
<1>7. ASSUME NEW f \in Kernel
      PROVE  f \in Nat /\ f < KERNEL_BASE /\ VIRT_TO_PD_INDEX(f) <= LastTable
  <2>1. f \in Nat /\ f <= KernelEnd - 1
    BY <1>1, Sizes DEF Kernel
  <2>2. QED
    BY <1>1, <2>1, DirMonotonic DEF LastTable
<1>8. ASSUME NEW v \in Page
      PROVE  v \in Nat /\ VIRT_TO_PD_INDEX(v) \in Dir
  <2>1. v \in Nat /\ v < Dirs * Entries
    BY <1>1 DEF Page
  <2> DEFINE d == VIRT_TO_PD_INDEX(v)
  <2>2. d \in Nat /\ v >= d * Entries /\ d * Entries \in Nat
    <3>1. /\ v = d * Entries + VIRT_TO_PT_INDEX(v) /\ d * Entries \in Nat
          /\ VIRT_TO_PT_INDEX(v) \in 0 .. Entries - 1 /\ d \in Nat
      BY <2>1, PageParts DEF Entry
    <3> HIDE DEF d
    <3>2. QED
      BY <1>1, <3>1
  <2> HIDE DEF d
  <2>3. d < Dirs
    <3>1. SUFFICES ASSUME Dirs <= d PROVE FALSE
      BY <1>1, <2>2
    <3>2. Dirs * Entries <= d * Entries
      BY <1>1, <2>2, <3>1, SMTT(30)
    <3>3. QED
      BY <1>1, <2>1, <2>2, <3>2
  <2>4. QED
    BY <1>1, <2>1, <2>2, <2>3 DEF Dir, d
<1>9. ASSUME NEW d \in Dir, NEW e \in Entry
      PROVE  d * Entries + e \in Page
  <2>1. d \in 0 .. Dirs - 1 /\ e \in 0 .. Entries - 1
    BY DEF Dir, Entry
  <2>2. d * Entries + e \in 0 .. Dirs * Entries - 1
    BY <1>1, <2>1, IndexBounds
  <2>3. QED
    BY <2>2 DEF Page
<1>10. QED
  BY <1>2, <1>3, <1>5, <1>6, <1>7, <1>8, <1>9

\* Higher-half addresses: a directory HighBase further on, the same entry.
LEMMA HighAlias ==
    ASSUME NEW f \in Nat
    PROVE  /\ VIRT_TO_PD_INDEX(KERNEL_BASE + f) = HighBase + VIRT_TO_PD_INDEX(f)
           /\ VIRT_TO_PT_INDEX(KERNEL_BASE + f) = VIRT_TO_PT_INDEX(f)
<1> DEFINE d == VIRT_TO_PD_INDEX(f)
           e == VIRT_TO_PT_INDEX(f)
<1>1. /\ d \in Nat /\ e \in Entry /\ f = d * Entries + e /\ d * Entries \in Nat
  BY PageParts
<1>2. HighBase \in Nat /\ Entries \in Nat \ {0} /\ KERNEL_BASE = HighBase * Entries
      /\ KERNEL_BASE \in Nat
  BY Layout, Sizes
<1>3. e \in Nat
  BY <1>1, <1>2 DEF Entry
<1> HIDE DEF d, e
<1>4. (HighBase + d) * Entries = KERNEL_BASE + d * Entries
  <2>1. (HighBase + d) * Entries = HighBase * Entries + d * Entries
    BY <1>1, <1>2, SMTT(30)
  <2>2. QED
    BY <1>2, <2>1
<1>5. KERNEL_BASE + f = (HighBase + d) * Entries + e
  BY <1>1, <1>2, <1>3, <1>4
<1>6. HighBase + d \in Nat
  BY <1>1, <1>2
<1>7. /\ VIRT_TO_PD_INDEX(KERNEL_BASE + f) = HighBase + d
      /\ VIRT_TO_PT_INDEX(KERNEL_BASE + f) = e
  BY <1>1, <1>5, <1>6, PageOf
<1>8. QED
  BY <1>7 DEF d, e

\* A page of the higher half lies in a directory from HighBase on, and only
\* such a page does.
LEMMA HighPages ==
    ASSUME NEW v \in Nat
    PROVE  v >= KERNEL_BASE <=> VIRT_TO_PD_INDEX(v) >= HighBase
<1>1. HighBase \in Nat /\ Entries \in Nat \ {0} /\ KERNEL_BASE = HighBase * Entries
      /\ KERNEL_BASE \in Nat /\ VIRT_TO_PD_INDEX(v) \in Nat
  BY Layout, Sizes, PageParts
<1>2. ASSUME v >= KERNEL_BASE
      PROVE  VIRT_TO_PD_INDEX(v) >= HighBase
  BY <1>1, <1>2, DirMonotonic DEF HighBase
<1>3. ASSUME v < KERNEL_BASE
      PROVE  VIRT_TO_PD_INDEX(v) < HighBase
  <2> DEFINE d == VIRT_TO_PD_INDEX(v)
  <2>1. /\ v = d * Entries + VIRT_TO_PT_INDEX(v) /\ d * Entries \in Nat
        /\ VIRT_TO_PT_INDEX(v) \in 0 .. Entries - 1 /\ d \in Nat
    BY PageParts DEF Entry
  <2> HIDE DEF d
  <2>2. SUFFICES ASSUME HighBase <= d PROVE FALSE
    BY <1>1, <2>1 DEF d
  <2>3. HighBase * Entries <= d * Entries
    BY <1>1, <2>1, <2>2, SMTT(30)
  <2>4. QED
    BY <1>1, <1>3, <2>1, <2>3
<1>4. QED
  BY <1>1, <1>2, <1>3

-----------------------------------------------------------------------------
(* The tables setup_paging builds.                                         *)

\* The page table a directory entry stands for once it is entered: those of the
\* image's directories are shared by both halves.
TableIn(d) == IF d \in HighBase .. HighBase + LastTable THEN d - HighBase ELSE d

\* The directory: the image's tables are entered, in the lower half all but
\* perhaps the first; in between nothing is, and above every table at its own
\* directory or nowhere.
Shape(pd) ==
  \A d \in Dir :
     /\ pd[d] \in {None, TablesAt + TableIn(d)}
     /\ d \in 1 .. LastTable \/ d \in HighBase .. HighBase + LastTable => pd[d] # None
     /\ d \in LastTable + 1 .. HighBase - 1 => pd[d] = None

\* What the first asserts of setup_paging ensure: the image starts in the first
\* block of memory.
Lowest == IdentDir = 0 /\ HighDir = HighBase /\ KernelStart < Entries

LEMMA LowestFromAsserts ==
    ASSUME SharesFirstTable({VgaFrame})
    PROVE  Lowest
<1>1. VgaFrame \in 0 .. Entries - 1 /\ VgaFrame \in Nat
  BY GeometryAssumption, Sizes
<1>2. FirstOf({VgaFrame}) = VgaFrame
  BY <1>1, LeastElement
<1>3. VIRT_TO_PD_INDEX(VgaFrame) = 0
  BY <1>1, Sizes, SMTT(30) DEF VIRT_TO_PD_INDEX
<1>4. VIRT_TO_PD_INDEX(KERNEL_BASE + VgaFrame) = HighBase + 0
  BY <1>1, <1>3, HighAlias
<1>5. HighDir = HighBase + IdentDir /\ IdentDir \in Nat /\ HighBase \in Nat
  BY Sizes, HighAlias, PageParts, Layout DEF HighDir, IdentDir
<1>6. HighDir = HighBase + 0
  BY <1>2, <1>4 DEF SharesFirstTable
<1>7. IdentDir = 0 /\ HighDir = HighBase
  BY <1>5, <1>6
<1>8. KernelStart < Entries
  <2>1. /\ KernelStart = IdentDir * Entries + VIRT_TO_PT_INDEX(KernelStart)
        /\ VIRT_TO_PT_INDEX(KernelStart) \in 0 .. Entries - 1
    BY Sizes, PageParts DEF IdentDir, Entry
  <2>2. 0 * Entries = 0
    BY Sizes
  <2>3. QED
    BY <1>7, <2>1, <2>2, Sizes
<1>9. QED
  BY <1>7, <1>8 DEF Lowest

\* The asserts look at the first page of what GRUB passes only.  It is enough:
\* the image, with a table for every directory, covers the end of the first
\* block, so that nothing outside it begins in the block and ends after it.
LEMMA WithinFirstTable ==
    ASSUME Lowest, NEW m \in Infos, NEW S \in {m.info, m.mmap}, SharesFirstTable(S)
    PROVE  S \subseteq 0 .. Entries - 1
<1>1. PICK a \in 0 .. KERNEL_BASE - 1 :
         \E b \in a .. KERNEL_BASE - 1 : S = a .. b
  BY InfosAssumption
<1>2. PICK b \in a .. KERNEL_BASE - 1 : S = a .. b
  BY <1>1
<1>3. a \in Nat /\ b \in Nat /\ a <= b
  BY Sizes
<1>4. FirstOf(S) = a
  <2>1. S \subseteq Nat /\ S # {} /\ a \in S /\ \A y \in S : a <= y
    BY <1>2, <1>3
  <2>2. FirstOf(S) \in S /\ FirstOf(S) <= a
    BY <2>1, LeastElement
  <2>3. QED
    BY <1>3, <2>1, <2>2
<1>5. VIRT_TO_PD_INDEX(a) = 0
  <2>1. VIRT_TO_PD_INDEX(KERNEL_BASE + a) = HighBase + VIRT_TO_PD_INDEX(a)
    BY <1>3, HighAlias
  <2>2. VIRT_TO_PD_INDEX(KERNEL_BASE + a) = HighBase
    BY <1>4 DEF SharesFirstTable, Lowest
  <2>3. VIRT_TO_PD_INDEX(a) \in Nat /\ HighBase \in Nat
    BY <1>3, PageParts, Layout
  <2> DEFINE x == VIRT_TO_PD_INDEX(a)
  <2>4. HighBase = HighBase + x /\ x \in Nat /\ HighBase \in Nat
    BY <2>1, <2>2, <2>3
  <2> HIDE DEF x
  <2>5. x = 0
    BY <2>4
  <2>6. QED
    BY <2>5 DEF x
<1>6. a < Entries
  <2>1. /\ a = VIRT_TO_PD_INDEX(a) * Entries + VIRT_TO_PT_INDEX(a)
        /\ VIRT_TO_PT_INDEX(a) \in 0 .. Entries - 1
    BY <1>3, PageParts DEF Entry
  <2>2. 0 * Entries = 0
    BY Sizes
  <2>3. QED
    BY <1>5, <2>1, <2>2, Sizes
<1>7. b < Entries
  <2>1. SUFFICES ASSUME Entries <= b PROVE FALSE
    BY <1>3, Sizes
  <2>2. Entries \in S
    BY <1>2, <1>3, <1>6, <2>1, Sizes
  <2>3. Entries \notin Kernel
    BY <2>2, InfosAssumption
  <2>4. QED
    BY <2>3, Sizes DEF Lowest, Kernel
<1>8. QED
  BY <1>2, <1>3, <1>7, Sizes

\* The directory setup_paging enters.
LEMMA SetupDirShape ==
    ASSUME Lowest
    PROVE  Shape(SetupDir) /\ SetupDir[0] # None
<1> DEFINE Hit(d, f) == d \in {VIRT_TO_PD_INDEX(f), HighDir + TableOf(f)}
<1>1. /\ HighBase \in Nat /\ LastTable \in Nat /\ LastTable < HighBase
      /\ HighBase + LastTable < Dirs /\ Dirs \in Nat /\ TablesAt \in Nat
  BY Layout, Sizes
<1>2. \A f \in Kernel : /\ VIRT_TO_PD_INDEX(f) \in 0 .. LastTable
                        /\ TableOf(f) = VIRT_TO_PD_INDEX(f)
  <2>1. ASSUME NEW f \in Kernel
        PROVE  VIRT_TO_PD_INDEX(f) \in 0 .. LastTable
    BY <1>1, Layout, PageParts
  <2>2. ASSUME NEW f \in Kernel
        PROVE  TableOf(f) = VIRT_TO_PD_INDEX(f)
    BY <1>1, <2>1 DEF TableOf, Lowest
  <2>3. QED
    BY <2>1, <2>2
<1>3. \A t \in 0 .. LastTable : \E f \in Kernel : VIRT_TO_PD_INDEX(f) = t
  <2>1. SUFFICES ASSUME NEW t \in 0 .. LastTable
                 PROVE  \E f \in Kernel : VIRT_TO_PD_INDEX(f) = t
    OBVIOUS
  <2>2. CASE t = 0
    <3>1. KernelStart \in Kernel /\ VIRT_TO_PD_INDEX(KernelStart) = 0
      BY Sizes DEF Kernel, Lowest, IdentDir
    <3>2. QED
      BY <2>2, <3>1
  <2>3. CASE t # 0
    <3>1. 0 \in Entry /\ t \in Nat /\ Entries \in Nat \ {0}
      BY <1>1, Sizes DEF Entry
    <3>2. t * Entries \in Nat /\ t * Entries + 0 = t * Entries
      BY <3>1, SMTT(30)
    <3>3. VIRT_TO_PD_INDEX(t * Entries) = t
      BY <3>1, <3>2, PageOf
    <3>4. t * Entries >= Entries
      BY <2>3, <3>1, SMTT(30)
    <3>5. t * Entries <= LastTable * Entries /\ LastTable * Entries \in Nat
      BY <1>1, <3>1, SMTT(30)
    <3>6. LastTable * Entries <= KernelEnd - 1
      <4>1. KernelEnd - 1 \in Nat
        BY Sizes
      <4>2. /\ KernelEnd - 1 = LastTable * Entries + VIRT_TO_PT_INDEX(KernelEnd - 1)
            /\ VIRT_TO_PT_INDEX(KernelEnd - 1) \in 0 .. Entries - 1
        BY <4>1, PageParts DEF LastTable, Entry
      <4>3. QED
        BY <3>5, <4>2, Sizes
    <3>7. t * Entries \in Kernel
      <4> DEFINE x == t * Entries
                 y == LastTable * Entries
      <4>1. x \in Nat /\ y \in Nat /\ x >= Entries /\ x <= y /\ y <= KernelEnd - 1
        BY <3>2, <3>4, <3>5, <3>6
      <4> HIDE DEF x, y
      <4>2. x \in Kernel
        BY <4>1, Sizes DEF Kernel, Lowest
      <4>3. QED
        BY <4>2 DEF x
    <3>8. QED
      BY <3>3, <3>7
  <2>4. QED
    BY <2>2, <2>3
<1>4. \A d \in Dir : SetupDir[d] = IF \E f \in Kernel : Hit(d, f)
                                   THEN TablesAt + TableOf(CHOOSE f \in Kernel : Hit(d, f))
                                   ELSE None
  BY DEF SetupDir
<1>5. \A d \in Dir, f \in Kernel : Hit(d, f) <=> \/ d = VIRT_TO_PD_INDEX(f)
                                                 \/ d = HighBase + VIRT_TO_PD_INDEX(f)
  BY <1>2 DEF Lowest
<1>6. \A d \in Dir, f \in Kernel : Hit(d, f) =>
         /\ TableOf(f) = TableIn(d)
         /\ d \in 0 .. LastTable \/ d \in HighBase .. HighBase + LastTable
  <2>1. SUFFICES ASSUME NEW d \in Dir, NEW f \in Kernel, Hit(d, f)
                 PROVE  /\ TableOf(f) = TableIn(d)
                        /\ d \in 0 .. LastTable \/ d \in HighBase .. HighBase + LastTable
    OBVIOUS
  <2>2. /\ VIRT_TO_PD_INDEX(f) \in 0 .. LastTable /\ TableOf(f) = VIRT_TO_PD_INDEX(f)
        /\ d = VIRT_TO_PD_INDEX(f) \/ d = HighBase + VIRT_TO_PD_INDEX(f)
    BY <1>2, <1>5, <2>1
  <2> DEFINE t == VIRT_TO_PD_INDEX(f)
  <2> HIDE DEF t, Hit
  <2>3. /\ t \in 0 .. LastTable /\ TableOf(f) = t
        /\ d = t \/ d = HighBase + t
    BY <2>2 DEF t
  <2>4. QED
    BY <1>1, <2>3 DEF TableIn
<1>7. \A d \in Dir : d \in 0 .. LastTable \/ d \in HighBase .. HighBase + LastTable
                       => \E f \in Kernel : Hit(d, f)
  <2>1. SUFFICES ASSUME NEW d \in Dir,
                        d \in 0 .. LastTable \/ d \in HighBase .. HighBase + LastTable
                 PROVE  \E f \in Kernel : \/ d = VIRT_TO_PD_INDEX(f)
                                          \/ d = HighBase + VIRT_TO_PD_INDEX(f)
    BY <1>5
  <2>2. CASE d \in 0 .. LastTable
    BY <1>3, <2>2
  <2>3. CASE d \in HighBase .. HighBase + LastTable
    <3>1. d - HighBase \in 0 .. LastTable
      BY <1>1, <2>3
    <3>2. PICK f \in Kernel : VIRT_TO_PD_INDEX(f) = d - HighBase
      BY <1>3, <3>1
    <3>3. d = HighBase + VIRT_TO_PD_INDEX(f)
      BY <1>1, <2>3, <3>2
    <3>4. QED
      BY <3>3
  <2>4. QED
    BY <2>1, <2>2, <2>3
<1> HIDE DEF Hit
<1>8. \A d \in Dir :
         /\ d \in 0 .. LastTable \/ d \in HighBase .. HighBase + LastTable
              => SetupDir[d] = TablesAt + TableIn(d)
         /\ ~(d \in 0 .. LastTable \/ d \in HighBase .. HighBase + LastTable)
              => SetupDir[d] = None
  BY <1>4, <1>6, <1>7
<1>9. \A d \in Dir : d \in Nat /\ (d \in 0 .. LastTable \/ d \in HighBase .. HighBase + LastTable
                                     => TableIn(d) \in Nat)
  BY <1>1 DEF TableIn, Dir
<1>10. None \notin Nat
  BY DEF None
<1>11. Shape(SetupDir)
  <2>1. SUFFICES ASSUME NEW d \in Dir
        PROVE  /\ SetupDir[d] \in {None, TablesAt + TableIn(d)}
               /\ d \in 1 .. LastTable \/ d \in HighBase .. HighBase + LastTable
                    => SetupDir[d] # None
               /\ d \in LastTable + 1 .. HighBase - 1 => SetupDir[d] = None
    BY DEF Shape
  <2>2. CASE d \in 0 .. LastTable \/ d \in HighBase .. HighBase + LastTable
    <3>1. SetupDir[d] = TablesAt + TableIn(d) /\ TablesAt + TableIn(d) \in Nat
      BY <1>1, <1>8, <1>9, <2>2
    <3>2. d \notin LastTable + 1 .. HighBase - 1
      BY <1>1, <2>2
    <3>3. QED
      BY <1>10, <3>1, <3>2
  <2>3. CASE ~(d \in 0 .. LastTable \/ d \in HighBase .. HighBase + LastTable)
    <3>1. SetupDir[d] = None
      BY <1>8, <2>3
    <3>2. d \notin 1 .. LastTable
      BY <1>1, <2>3
    <3>3. QED
      BY <2>3, <3>1, <3>2
  <2>4. QED
    BY <2>2, <2>3
<1>12. SetupDir[0] # None
  <2>1. 0 \in Dir /\ 0 \in 0 .. LastTable
    BY <1>1 DEF Dir
  <2>2. SetupDir[0] = TablesAt + TableIn(0) /\ TablesAt + TableIn(0) \in Nat
    BY <1>1, <1>8, <1>9, <2>1
  <2>3. QED
    BY <1>10, <2>2
<1>13. QED
  BY <1>11, <1>12

-----------------------------------------------------------------------------
(* The inductive invariant.                                                *)

\* The entry of page v, whether or not its directory is entered.
Slot(v) == page_tables[TableIn(VIRT_TO_PD_INDEX(v))][VIRT_TO_PT_INDEX(v)]

\* What boot information m and the image need mapped.
Needed(m) == Kernel \cup {VgaFrame} \cup m.info \cup m.mmap

\* The directories above the image's: map_page and reserve_block share them.
Above == {d \in Dir : d > HighBase + LastTable}

\* Before paging there is nothing in the tables.
NothingYet ==
    /\ \A d \in Dir : page_dir[d] = None
    /\ seen = {} /\ maps = {} /\ blocks = {}

\* The image and what was passed to it are in the tables at their own frames,
\* and the TLB may hold their translations.
ImageMapped ==
    /\ \A f \in Kernel : <<f, f>> \in seen
    /\ \A m \in boot : \A f \in Needed(m) :
         /\ f \in Nat /\ VIRT_TO_PD_INDEX(f) <= LastTable
         /\ KERNEL_BASE + f \in Page
         /\ Slot(f) = f /\ <<KERNEL_BASE + f, f>> \in seen

\* What the TLB may hold is still in the tables, but for what map_page has
\* replaced.
Gone(s) == \E m \in Replaced : s = <<m.page, m.frame>>
SeenHold ==
    \A s \in seen :
       /\ s[1] < KERNEL_BASE => Slot(s[1]) = s[2]
       /\ s[1] >= KERNEL_BASE =>
            \/ Gone(s)
            \/ page_dir[VIRT_TO_PD_INDEX(s[1])] # None /\ Slot(s[1]) = s[2]

\* Above the image every entry in use is as some call of map_page wrote it.
OnlyMapped ==
    \A v \in Page : VIRT_TO_PD_INDEX(v) \in Above /\ Slot(v) # None
                      => \E m \in maps : m.page = v /\ m.frame = Slot(v)

\* What map_page has returned is in an entered directory of the higher half,
\* and in the tables unless a later call has replaced it.
MapsHold ==
    \A m \in maps :
       /\ m.page >= KERNEL_BASE /\ page_dir[VIRT_TO_PD_INDEX(m.page)] # None
       /\ m \notin Replaced => Slot(m.page) = m.frame

\* A reserved block is above the image and entered.
BlocksEntered == \A d \in blocks : d \in Above /\ page_dir[d] # None

\* The calls are numbered, and each maps at most one page.
Counted ==
    /\ IsFiniteSet({m.page : m \in maps})
    /\ Cardinality({m.page : m \in maps}) <= calls
    /\ \A m \in maps : m.call < calls

IInv ==
    /\ TypeOK
    /\ boot \subseteq Infos
    /\ ~Paging => NothingYet
    /\ Paging => /\ boot # {} /\ Lowest /\ Shape(page_dir)
                 /\ ImageMapped /\ SeenHold
                 /\ OnlyMapped /\ MapsHold /\ BlocksEntered
    /\ Counted

-----------------------------------------------------------------------------
(* The tables setup_paging fills.                                          *)

\* All that has to be mapped lies in the directories of the image.
LEMMA NeededIsLow ==
    ASSUME Lowest, NEW m \in Infos,
           SharesFirstTable(m.info), SharesFirstTable(m.mmap),
           NEW f \in Needed(m)
    PROVE  /\ f \in Nat /\ VIRT_TO_PD_INDEX(f) <= LastTable
           /\ VIRT_TO_PD_INDEX(f) \in Dir
           /\ f < KERNEL_BASE /\ KERNEL_BASE + f \in Page /\ f \in Page
           /\ f \notin Kernel => VIRT_TO_PD_INDEX(f) = 0
<1>1. ASSUME f \in Kernel
      PROVE  f \in Nat /\ f < KernelEnd /\ VIRT_TO_PD_INDEX(f) <= LastTable
  BY <1>1, Layout, Sizes DEF Kernel
<1>2. ASSUME f \notin Kernel
      PROVE  f \in Nat /\ f < Entries
  <2>1. m.info \subseteq 0 .. Entries - 1 /\ m.mmap \subseteq 0 .. Entries - 1
    BY WithinFirstTable
  <2>2. f \in 0 .. Entries - 1
    BY <1>2, <2>1, GeometryAssumption DEF Needed
  <2>3. QED
    BY <2>2, Sizes
<1>3. ASSUME f \notin Kernel
      PROVE  VIRT_TO_PD_INDEX(f) = 0
  BY <1>2, <1>3, Sizes, SMTT(30) DEF VIRT_TO_PD_INDEX
<1>4. f \in Nat /\ f < KernelEnd
  BY <1>1, <1>2, Sizes
<1>5. f < KERNEL_BASE /\ KERNEL_BASE + f \in Page /\ f \in Page
  BY <1>4, Sizes DEF Page
<1>6. VIRT_TO_PD_INDEX(f) <= LastTable
  BY <1>1, <1>3, Layout
<1>7. VIRT_TO_PD_INDEX(f) \in Dir
  BY <1>5, Layout
<1>8. QED
  BY <1>3, <1>4, <1>5, <1>6, <1>7

\* Each entry holds its own frame, if that is needed, and nothing else: what
\* goes into the first table by its index alone is where its address puts it.
LEMMA SetupTablesEntry ==
    ASSUME Lowest, NEW m \in Infos,
           SharesFirstTable(m.info), SharesFirstTable(m.mmap),
           NEW t \in Dir, NEW e \in Entry
    PROVE  SetupTables(m)[t][e] = IF t * Entries + e \in Needed(m)
                                  THEN t * Entries + e
                                  ELSE None
<1> DEFINE image == {f \in Kernel : TableOf(f) = t /\ VIRT_TO_PT_INDEX(f) = e}
           other == {f \in {VgaFrame} \cup m.info \cup m.mmap :
                         t = 0 /\ VIRT_TO_PT_INDEX(f) = e}
           x == t * Entries + e
<1>1. SetupTables(m)[t][e] = IF other # {} THEN CHOOSE f \in other : TRUE
                             ELSE IF image # {} THEN CHOOSE f \in image : TRUE
                             ELSE None
  BY DEF SetupTables
<1>2. \A f \in Kernel : TableOf(f) = VIRT_TO_PD_INDEX(f)
  <2>1. ASSUME NEW f \in Kernel PROVE TableOf(f) = VIRT_TO_PD_INDEX(f)
    <3>1. VIRT_TO_PD_INDEX(f) \in Nat
      BY Layout, PageParts
    <3>2. QED
      BY <3>1 DEF TableOf, Lowest
  <2>2. QED
    BY <2>1
<1>3. t \in Nat
  BY Sizes DEF Dir
<1>4. \A f \in image : f \in Needed(m) /\ f = x
  <2>1. SUFFICES ASSUME NEW f \in image PROVE f \in Needed(m) /\ f = x
    OBVIOUS
  <2>2. f \in Kernel /\ VIRT_TO_PD_INDEX(f) = t /\ VIRT_TO_PT_INDEX(f) = e /\ f \in Nat
    BY <1>2, Layout
  <2>3. f = VIRT_TO_PD_INDEX(f) * Entries + VIRT_TO_PT_INDEX(f)
    BY <2>2, PageParts
  <2>4. QED
    BY <2>2, <2>3 DEF Needed
<1>5. \A f \in other : f \in Needed(m) /\ f = x
  <2>1. SUFFICES ASSUME NEW f \in other PROVE f \in Needed(m) /\ f = x
    OBVIOUS
  <2>2. f \in Needed(m) /\ f \notin Kernel
    <3>1. /\ f \in {VgaFrame} \cup m.info \cup m.mmap
          /\ VgaFrame \notin Kernel
          /\ m.info \cap Kernel = {} /\ m.mmap \cap Kernel = {}
      BY GeometryAssumption, InfosAssumption
    <3>2. QED
      BY <3>1 DEF Needed
  <2>3. VIRT_TO_PD_INDEX(f) = t /\ VIRT_TO_PT_INDEX(f) = e /\ f \in Nat
    BY <2>2, NeededIsLow
  <2>4. f = VIRT_TO_PD_INDEX(f) * Entries + VIRT_TO_PT_INDEX(f)
    BY <2>3, PageParts
  <2>5. QED
    BY <2>2, <2>3, <2>4
<1>6. ASSUME x \in Needed(m)
      PROVE  x \in image \/ x \in other
  <2>1. VIRT_TO_PD_INDEX(x) = t /\ VIRT_TO_PT_INDEX(x) = e
    BY <1>3, PageOf
  <2> HIDE DEF x
  <2>2. CASE x \in Kernel
    BY <1>2, <2>1, <2>2
  <2>3. CASE x \notin Kernel
    <3>1. t = 0
      BY <1>6, <2>1, <2>3, NeededIsLow
    <3>2. x \in {VgaFrame} \cup m.info \cup m.mmap
      BY <1>6, <2>3 DEF Needed
    <3>3. QED
      BY <2>1, <3>1, <3>2
  <2>4. QED
    BY <2>2, <2>3
<1> HIDE DEF image, other, x
<1>7. SetupTables(m)[t][e] = IF x \in Needed(m) THEN x ELSE None
  <2>1. CASE other # {}
    <3>1. (CHOOSE f \in other : TRUE) \in other
      BY <2>1
    <3>2. QED
      BY <1>1, <1>5, <2>1, <3>1
  <2>2. CASE other = {} /\ image # {}
    <3>1. (CHOOSE f \in image : TRUE) \in image
      BY <2>2
    <3>2. QED
      BY <1>1, <1>4, <2>2, <3>1
  <2>3. CASE other = {} /\ image = {}
    BY <1>1, <1>6, <2>3
  <2>4. QED
    BY <2>1, <2>2, <2>3
<1>8. QED
  BY <1>7 DEF x

\* So every needed frame is in its entry, and the tables after the image's
\* are empty.
LEMMA SetupTablesFilled ==
    ASSUME Lowest, NEW m \in Infos,
           SharesFirstTable(m.info), SharesFirstTable(m.mmap)
    PROVE  /\ SetupTables(m) \in [Dir -> [Entry -> Page \cup {None}]]
           /\ \A f \in Needed(m) :
                SetupTables(m)[VIRT_TO_PD_INDEX(f)][VIRT_TO_PT_INDEX(f)] = f
           /\ \A t \in Dir, e \in Entry :
                t > LastTable => SetupTables(m)[t][e] = None
<1>1. \A t \in Dir, e \in Entry : SetupTables(m)[t][e] \in Page \cup {None}
  BY SetupTablesEntry, Layout
<1>2. SetupTables(m) \in [Dir -> [Entry -> Page \cup {None}]]
  <2> DEFINE c(t, e) == LET image == {f \in Kernel : TableOf(f) = t /\ VIRT_TO_PT_INDEX(f) = e}
                            other == {f \in {VgaFrame} \cup m.info \cup m.mmap :
                                          t = 0 /\ VIRT_TO_PT_INDEX(f) = e}
                        IN  IF other # {} THEN CHOOSE f \in other : TRUE
                            ELSE IF image # {} THEN CHOOSE f \in image : TRUE
                            ELSE None
  <2>1. SetupTables(m) = [t \in Dir |-> [e \in Entry |-> c(t, e)]]
    BY DEF SetupTables
  <2> HIDE DEF c
  <2>2. \A t \in Dir, e \in Entry : c(t, e) \in Page \cup {None}
    BY <1>1, <2>1
  <2>3. QED
    BY <2>1, <2>2
<1>3. ASSUME NEW f \in Needed(m)
      PROVE  SetupTables(m)[VIRT_TO_PD_INDEX(f)][VIRT_TO_PT_INDEX(f)] = f
  <2>1. f \in Nat /\ VIRT_TO_PD_INDEX(f) \in Dir
    BY NeededIsLow
  <2>2. VIRT_TO_PT_INDEX(f) \in Entry
        /\ f = VIRT_TO_PD_INDEX(f) * Entries + VIRT_TO_PT_INDEX(f)
    BY <2>1, PageParts
  <2>3. QED
    BY <2>1, <2>2, SetupTablesEntry
<1>4. ASSUME NEW t \in Dir, NEW e \in Entry, t > LastTable
      PROVE  SetupTables(m)[t][e] = None
  <2>1. VIRT_TO_PD_INDEX(t * Entries + e) = t /\ t \in Nat
    BY PageOf, Sizes DEF Dir
  <2>2. t * Entries + e \notin Needed(m)
    BY <1>4, <2>1, NeededIsLow, Layout
  <2>3. QED
    BY <2>2, SetupTablesEntry
<1>5. QED
  BY <1>2, <1>3, <1>4

-----------------------------------------------------------------------------
(* Slots: where the entry of a page is.                                    *)

\* Two directories share a table only if one of them is in the lower half.
LEMMA TablesApart ==
    ASSUME NEW d \in Dir, NEW e \in Dir, TableIn(d) = TableIn(e),
           d \in Above \/ (d >= HighBase /\ e >= HighBase)
    PROVE  d = e
<1>1. /\ HighBase \in Nat /\ LastTable \in Nat /\ LastTable < HighBase
      /\ d \in Nat /\ e \in Nat
  BY Layout, Sizes DEF Dir
<1>2. QED
  BY <1>1 DEF TableIn, Above

\* The table of a directory is one of init_page_tables.
LEMMA TableInDir ==
    ASSUME NEW d \in Dir
    PROVE  TableIn(d) \in Dir
BY Layout, Sizes DEF TableIn, Dir

\* The walk looks at a page's slot, if the directory is entered.
LEMMA WalkIsSlot ==
    ASSUME NEW pd, NEW pt, Shape(pd), NEW v \in Page
    PROVE  Walk(pd, pt, v) =
             IF pd[VIRT_TO_PD_INDEX(v)] = None THEN None
             ELSE pt[TableIn(VIRT_TO_PD_INDEX(v))][VIRT_TO_PT_INDEX(v)]
<1> DEFINE d == VIRT_TO_PD_INDEX(v)
           e == VIRT_TO_PT_INDEX(v)
<1>1. d \in Dir
  BY Layout
<1>2. Walk(pd, pt, v) = IF pd[d] \in TablesAt .. TablesAt + Dirs - 1
                        THEN pt[pd[d] - TablesAt][e]
                        ELSE None
  BY DEF Walk
<1>3. pd[d] \in {None, TablesAt + TableIn(d)}
  BY <1>1 DEF Shape
<1>4. TableIn(d) \in 0 .. Dirs - 1 /\ TablesAt \in Nat /\ Dirs \in Nat
  BY <1>1, TableInDir, Sizes DEF Dir
<1> DEFINE t == TableIn(d)
<1> HIDE DEF d, e, t
<1>5. t \in 0 .. Dirs - 1 /\ pd[d] \in {None, TablesAt + t}
  BY <1>3, <1>4 DEF t
<1>6. None \notin TablesAt .. TablesAt + Dirs - 1
  BY <1>4 DEF None
<1>7. CASE pd[d] = None
  BY <1>2, <1>6, <1>7 DEF d, e
<1>8. CASE pd[d] # None
  <2>1. pd[d] = TablesAt + t
    BY <1>5, <1>8
  <2>2. pd[d] \in TablesAt .. TablesAt + Dirs - 1 /\ pd[d] - TablesAt = t
    BY <1>4, <1>5, <2>1
  <2>3. QED
    BY <1>2, <1>8, <2>2 DEF d, e, t
<1>9. QED
  BY <1>7, <1>8

\* find_free_virt_page looks at the same slot, entered or not.
LEMMA EmptyIsSlot ==
    ASSUME Shape(page_dir), NEW v \in Page, v >= KERNEL_BASE
    PROVE  Empty(v) <=> Slot(v) = None
<1> DEFINE d == VIRT_TO_PD_INDEX(v)
           e == VIRT_TO_PT_INDEX(v)
<1>1. d \in Dir /\ d >= HighBase /\ HighBase \in Nat /\ LastTable \in Nat
      /\ TablesAt \in Nat /\ d \in Nat
  BY Layout, HighPages, Sizes DEF Dir
<1>2. TableIn(d) \in Nat
  BY <1>1, TableInDir, Sizes DEF Dir
<1> HIDE DEF d, e
<1>3. Slot(v) = page_tables[TableIn(d)][e]
  BY DEF Slot, d, e
<1>4. Empty(v) <=> page_tables[IF page_dir[d] = None THEN d ELSE page_dir[d] - TablesAt][e] = None
  BY DEF Empty, d, e
<1>5. CASE page_dir[d] = None
  <2>1. d \notin HighBase .. HighBase + LastTable
    BY <1>1, <1>5 DEF Shape
  <2>2. TableIn(d) = d
    BY <2>1 DEF TableIn
  <2>3. QED
    BY <1>3, <1>4, <1>5, <2>2
<1>6. CASE page_dir[d] # None
  <2>1. page_dir[d] = TablesAt + TableIn(d)
    BY <1>1, <1>6 DEF Shape
  <2>2. page_dir[d] - TablesAt = TableIn(d)
    BY <1>1, <1>2, <2>1
  <2>3. QED
    BY <1>3, <1>4, <1>6, <2>2
<1>7. QED
  BY <1>5, <1>6

\* The image's frame f and its higher-half page share a slot.
LEMMA AliasSlot ==
    ASSUME NEW f \in Nat, VIRT_TO_PD_INDEX(f) <= LastTable
    PROVE  Slot(KERNEL_BASE + f) = Slot(f)
<1>1. /\ VIRT_TO_PD_INDEX(KERNEL_BASE + f) = HighBase + VIRT_TO_PD_INDEX(f)
      /\ VIRT_TO_PT_INDEX(KERNEL_BASE + f) = VIRT_TO_PT_INDEX(f)
  BY HighAlias
<1>2. /\ HighBase \in Nat /\ LastTable \in Nat /\ LastTable < HighBase
      /\ VIRT_TO_PD_INDEX(f) \in Nat
  BY Layout, PageParts
<1> DEFINE d == VIRT_TO_PD_INDEX(f)
<1>3. TableIn(HighBase + d) = TableIn(d)
  <2>1. d \in Nat /\ d <= LastTable
    BY <1>2
  <2> HIDE DEF d
  <2>2. QED
    BY <1>2, <2>1 DEF TableIn
<1>4. QED
  BY <1>1, <1>3 DEF Slot

\* A page table is reached by its frame's identity, and only it.
LEMMA TableReached ==
    ASSUME IInv, Paging, NEW t \in Dir
    PROVE  /\ TablesAt + t \in Kernel
           /\ Reached(TablesAt + t) = {TablesAt + t}
<1> DEFINE f == TablesAt + t
<1>1. f \in Kernel
  BY Sizes DEF Kernel, Dir
<1>2. f \in Nat /\ f < KERNEL_BASE
  BY <1>1, Layout
<1> HIDE DEF f
<1>3. PICK m \in boot : TRUE
  BY DEF IInv
<1>4. <<f, f>> \in seen /\ Slot(f) = f
  BY <1>1, <1>3 DEF IInv, ImageMapped, Needed
<1>5. \A s \in seen : s[1] = f => s[2] = f
  BY <1>2, <1>4 DEF IInv, SeenHold
<1>6. Reached(f) = {f}
  <2>1. <<f, f>>[1] = f /\ <<f, f>>[2] = f
    OBVIOUS
  <2>2. QED
    BY <1>4, <1>5, <2>1, Zenon DEF Reached
<1>7. QED
  BY <1>1, <1>6 DEF f

-----------------------------------------------------------------------------
(* The steps.                                                              *)

\* Entering directories, and reserving some, keeps the invariant.
LEMMA LoadKeeps ==
    ASSUME IInv, Paging, TypeOK', Paging', Shape(page_dir)',
           page_tables' = page_tables, boot' = boot, seen' = seen, maps' = maps,
           calls' >= calls,
           \A d \in Dir : d # 0 /\ page_dir[d] # None => page_dir'[d] # None,
           blocks \subseteq blocks',
           \A d \in blocks' \ blocks : d \in Above /\ page_dir'[d] # None
    PROVE  IInv'
<1>1. /\ TypeOK /\ boot \subseteq Infos /\ boot # {} /\ Lowest
      /\ ImageMapped /\ SeenHold /\ OnlyMapped /\ MapsHold /\ BlocksEntered /\ Counted
  BY DEF IInv
<1>2. \A v : Slot(v)' = Slot(v)
  BY DEF Slot
<1>3. \A v \in Page : v >= KERNEL_BASE => VIRT_TO_PD_INDEX(v) \in Dir /\ VIRT_TO_PD_INDEX(v) # 0
  BY Layout, HighPages
<1>0. Replaced \subseteq Replaced'
  BY DEF Replaced, Latest
<1>4. ImageMapped'
  BY <1>1, <1>2 DEF ImageMapped, Needed
<1>5. SeenHold'
  <2>1. ASSUME NEW s, Gone(s)
        PROVE  Gone(s)'
    BY <1>0, <2>1 DEF Gone
  <2>2. ASSUME NEW s \in seen
        PROVE  /\ s[1] < KERNEL_BASE => Slot(s[1])' = s[2]
               /\ s[1] >= KERNEL_BASE =>
                    \/ Gone(s)'
                    \/ page_dir'[VIRT_TO_PD_INDEX(s[1])] # None /\ Slot(s[1])' = s[2]
    <3>1. s[1] \in Page
      BY <1>1 DEF TypeOK
    <3>2. QED
      BY <1>1, <1>2, <1>3, <2>1, <3>1 DEF SeenHold
  <2>3. QED
    BY <1>2, <2>2 DEF SeenHold
<1>6. OnlyMapped'
  BY <1>1, <1>2 DEF OnlyMapped
<1>7. MapsHold'
  <2>1. ASSUME NEW m \in maps
        PROVE  /\ m.page >= KERNEL_BASE /\ page_dir'[VIRT_TO_PD_INDEX(m.page)] # None
               /\ m \notin Replaced' => Slot(m.page)' = m.frame
    <3>1. m.page \in Page
      BY <1>1 DEF TypeOK
    <3>2. m.page >= KERNEL_BASE /\ page_dir[VIRT_TO_PD_INDEX(m.page)] # None
      BY <1>1 DEF MapsHold
    <3>3. page_dir'[VIRT_TO_PD_INDEX(m.page)] # None
      BY <1>3, <3>1, <3>2
    <3>4. QED
      BY <1>0, <1>1, <1>2, <3>2, <3>3 DEF MapsHold
  <2>2. QED
    BY <1>2, <2>1 DEF MapsHold
<1>8. BlocksEntered'
  <2>1. ASSUME NEW d \in blocks'
        PROVE  d \in Above /\ page_dir'[d] # None
    <3>1. CASE d \in blocks
      <4>1. d \in Above /\ page_dir[d] # None
        BY <1>1, <3>1 DEF BlocksEntered
      <4>2. d \in Dir /\ d # 0
        BY <4>1, Layout DEF Above
      <4>3. QED
        BY <4>1, <4>2
    <3>2. QED
      BY <3>1
  <2>2. QED
    BY <2>1 DEF BlocksEntered
<1>9. Counted'
  <2>1. IsFiniteSet({m.page : m \in maps}) /\ Cardinality({m.page : m \in maps}) <= calls
    BY <1>1 DEF Counted
  <2>2. Cardinality({m.page : m \in maps}) \in Nat
    BY <2>1, FS_CardinalityType
  <2>3. calls \in Nat /\ calls' \in Nat
    BY <1>1, Sizes DEF TypeOK
  <2>4. Cardinality({m.page : m \in maps}) <= calls'
    <3> DEFINE c == Cardinality({m.page : m \in maps})
    <3>1. c \in Nat /\ c <= calls
      BY <2>1, <2>2
    <3> HIDE DEF c
    <3>2. c <= calls'
      BY <2>3, <3>1
    <3>3. QED
      BY <3>2 DEF c
  <2>5. \A m \in maps : m.call < calls'
    <3>1. ASSUME NEW m \in maps
          PROVE  m.call \in Nat /\ m.call < calls
      BY <1>1, Sizes DEF TypeOK, Counted
    <3>2. QED
      BY <2>3, <3>1
  <2>6. QED
    BY <2>1, <2>4, <2>5 DEF Counted
<1>10. QED
  BY <1>1, <1>4, <1>5, <1>6, <1>7, <1>8, <1>9 DEF IInv

\* The slots after the write of one entry: no other page of the higher half
\* changes, and none at all that holds a frame.
LEMMA SlotsAfterWrite ==
    ASSUME IInv, Paging, NEW v \in Page, v >= KERNEL_BASE, NEW f,
           page_tables' = [page_tables EXCEPT
               ![TableIn(VIRT_TO_PD_INDEX(v))] =
                   [page_tables[TableIn(VIRT_TO_PD_INDEX(v))] EXCEPT
                        ![VIRT_TO_PT_INDEX(v)] = f]],
           Slot(v) = None \/ VIRT_TO_PD_INDEX(v) \in Above
    PROVE  /\ Slot(v)' = f
           /\ \A w \in Page : w # v /\ (w >= KERNEL_BASE \/ Slot(w) # None)
                                => Slot(w)' = Slot(w)
<1> DEFINE T(w) == TableIn(VIRT_TO_PD_INDEX(w))
           E(w) == VIRT_TO_PT_INDEX(w)
<1>1. \A w \in Page : /\ VIRT_TO_PD_INDEX(w) \in Dir /\ w \in Nat
                      /\ T(w) \in Dir /\ E(w) \in Entry
  BY Layout, TableInDir, PageParts
<1>2. \A w \in Page : T(w) = T(v) /\ E(w) = E(v) /\
                        (w >= KERNEL_BASE \/ VIRT_TO_PD_INDEX(v) \in Above) => w = v
  <2>1. SUFFICES ASSUME NEW w \in Page, T(w) = T(v), E(w) = E(v),
                        w >= KERNEL_BASE \/ VIRT_TO_PD_INDEX(v) \in Above
                 PROVE  w = v
    OBVIOUS
  <2>2. VIRT_TO_PD_INDEX(v) >= HighBase
        /\ (w >= KERNEL_BASE => VIRT_TO_PD_INDEX(w) >= HighBase)
    BY <1>1, HighPages
  <2>3. VIRT_TO_PD_INDEX(v) = VIRT_TO_PD_INDEX(w)
    BY <1>1, <2>1, <2>2, TablesApart
  <2>4. /\ w = VIRT_TO_PD_INDEX(w) * Entries + VIRT_TO_PT_INDEX(w)
        /\ v = VIRT_TO_PD_INDEX(v) * Entries + VIRT_TO_PT_INDEX(v)
    BY <1>1, PageParts
  <2>5. QED
    BY <2>1, <2>3, <2>4
<1>3. \A w : Slot(w) = page_tables[T(w)][E(w)] /\ Slot(w)' = page_tables'[T(w)][E(w)]
  BY DEF Slot
<1>4. page_tables \in [Dir -> [Entry -> Page \cup {None}]]
  BY DEF IInv, TypeOK
<1>5. page_tables' = [page_tables EXCEPT ![T(v)] = [page_tables[T(v)] EXCEPT ![E(v)] = f]]
  OBVIOUS
<1> HIDE DEF T, E
<1>6. Slot(v)' = f
  <2>1. page_tables[T(v)] \in [Entry -> Page \cup {None}] /\ T(v) \in Dir /\ E(v) \in Entry
    BY <1>1, <1>4
  <2>2. QED
    BY <1>3, <1>4, <1>5, <2>1
<1>7. ASSUME NEW w \in Page, w # v, w >= KERNEL_BASE \/ Slot(w) # None
      PROVE  Slot(w)' = Slot(w)
  <2>1. ~ (T(w) = T(v) /\ E(w) = E(v))
    <3>1. SUFFICES ASSUME T(w) = T(v), E(w) = E(v) PROVE FALSE
      OBVIOUS
    <3>2. Slot(w) = Slot(v)
      BY <1>3, <3>1
    <3>3. QED
      BY <1>2, <1>7, <3>1, <3>2
  <2>2. T(w) \in Dir /\ E(w) \in Entry /\ T(v) \in Dir /\ E(v) \in Entry
        /\ page_tables[T(v)] \in [Entry -> Page \cup {None}]
    BY <1>1, <1>4
  <2>3. page_tables'[T(w)][E(w)] = page_tables[T(w)][E(w)]
    BY <1>4, <1>5, <2>1, <2>2
  <2>4. QED
    BY <1>3, <2>3
<1>8. QED
  BY <1>6, <1>7

\* The write of one entry keeps the invariant: the entry was empty, or is in a
\* block somebody reserved.
LEMMA WriteKeeps ==
    ASSUME IInv, Paging, TypeOK', Paging', Shape(page_dir)',
           NEW v \in Page, v >= KERNEL_BASE, NEW f \in Frames,
           page_tables' = [page_tables EXCEPT
               ![TableIn(VIRT_TO_PD_INDEX(v))] =
                   [page_tables[TableIn(VIRT_TO_PD_INDEX(v))] EXCEPT
                        ![VIRT_TO_PT_INDEX(v)] = f]],
           \A d \in Dir : page_dir[d] # None => page_dir'[d] # None,
           page_dir'[VIRT_TO_PD_INDEX(v)] # None,
           maps' = maps \cup {[page |-> v, frame |-> f, call |-> calls]},
           seen' = seen \cup Current',
           boot' = boot, blocks' = blocks, calls' = calls + 1,
           Slot(v) = None \/ VIRT_TO_PD_INDEX(v) \in blocks
    PROVE  IInv'
<1>1. /\ TypeOK /\ boot \subseteq Infos /\ boot # {} /\ Lowest /\ Shape(page_dir)
      /\ ImageMapped /\ SeenHold /\ OnlyMapped /\ MapsHold /\ BlocksEntered /\ Counted
  BY DEF IInv
<1>2. Slot(v) = None \/ VIRT_TO_PD_INDEX(v) \in Above
  BY <1>1 DEF BlocksEntered
<1>3. /\ Slot(v)' = f
      /\ \A w \in Page : w # v /\ (w >= KERNEL_BASE \/ Slot(w) # None)
                           => Slot(w)' = Slot(w)
  BY <1>2, SlotsAfterWrite
<1>4. \A g \in Page : g # None /\ g \in Nat
  BY Layout DEF None
<1>5. \A w \in Page : w \in Nat /\ VIRT_TO_PD_INDEX(w) \in Dir
  BY Layout
<1>6. KERNEL_BASE \in Nat
  BY Sizes
<1>new. PICK r : r = [page |-> v, frame |-> f, call |-> calls]
  OBVIOUS
<1>added. /\ r \in maps' /\ r.page = v /\ r.frame = f /\ r.call = calls
          /\ \A m \in maps' : m \in maps \/ m = r
          /\ maps \subseteq maps'
  BY <1>new
<1>older. \A m \in maps : m.call \in Nat /\ calls \in Nat /\ ~ (calls <= m.call)
  <2>1. ASSUME NEW m \in maps
        PROVE  m.call \in Nat /\ calls \in Nat /\ m.call < calls
    BY <1>1, Sizes DEF TypeOK, Counted
  <2>2. QED
    BY <2>1
<1>gone. \A m \in maps :
            m \in Replaced' <=>
                \/ m \in Replaced
                \/ m.page = v /\ VIRT_TO_PD_INDEX(v) \in blocks
  <2>1. SUFFICES ASSUME NEW m \in maps
                 PROVE  m \in Latest' <=> m \in Latest /\ m.page # v
    BY <1>added DEF Replaced
  <2>2. CASE m.page = v
    BY <1>added, <1>older, <2>2 DEF Latest
  <2>3. CASE m.page # v
    BY <1>added, <2>3 DEF Latest
  <2>4. QED
    BY <2>2, <2>3
<1>7. ImageMapped'
  <2>1. ASSUME NEW m \in boot, NEW g \in Needed(m)
        PROVE  Slot(g)' = g
    <3>1. g \in Nat /\ VIRT_TO_PD_INDEX(g) <= LastTable /\ Slot(g) = g
      BY <1>1 DEF ImageMapped
    <3>2. g < KERNEL_BASE
      <4>1. VIRT_TO_PD_INDEX(g) \in Nat
        BY <3>1, PageParts
      <4>2. ~ (g >= KERNEL_BASE)
        BY <3>1, <4>1, HighPages, Layout
      <4>3. QED
        BY <1>6, <3>1, <4>2
    <3>3. g \in Page
      BY <1>6, <3>1, <3>2, Sizes DEF Page
    <3>4. g # v
      BY <1>5, <1>6, <3>1, <3>2
    <3>5. QED
      BY <1>3, <1>4, <3>1, <3>3, <3>4
  <2>2. QED
    BY <1>1, <2>1 DEF ImageMapped, Needed
<1>8. ASSUME NEW s, Gone(s)
      PROVE  Gone(s)'
  <2>1. PICK m \in Replaced : s = <<m.page, m.frame>>
    BY <1>8 DEF Gone
  <2>2. m \in maps
    BY <2>1 DEF Replaced
  <2>3. m \in Replaced'
    BY <1>gone, <2>1, <2>2
  <2>4. QED
    BY <2>1, <2>3 DEF Gone
<1>9. ASSUME NEW s \in seen
      PROVE  /\ s[1] < KERNEL_BASE => Slot(s[1])' = s[2]
             /\ s[1] >= KERNEL_BASE =>
                  \/ Gone(s)'
                  \/ page_dir'[VIRT_TO_PD_INDEX(s[1])] # None /\ Slot(s[1])' = s[2]
  <2>1. s[1] \in Page /\ s[2] \in Page /\ s[2] # None
    BY <1>1, <1>4 DEF TypeOK
  <2>2. CASE s[1] < KERNEL_BASE
    <3>1. Slot(s[1]) = s[2] /\ s[1] # v
      BY <1>1, <1>5, <1>6, <2>1, <2>2 DEF SeenHold
    <3>2. Slot(s[1])' = s[2]
      BY <1>3, <2>1, <3>1
    <3>3. QED
      BY <1>5, <1>6, <2>1, <2>2, <3>2
  <2>3. CASE s[1] >= KERNEL_BASE /\ Gone(s)
    BY <1>5, <1>6, <1>8, <2>1, <2>3
  <2>4. CASE s[1] >= KERNEL_BASE /\ ~Gone(s) /\ s[1] # v
    <3>1. Slot(s[1]) = s[2] /\ page_dir[VIRT_TO_PD_INDEX(s[1])] # None
      BY <1>1, <2>4 DEF SeenHold
    <3>2. Slot(s[1])' = s[2]
      BY <1>3, <2>1, <2>4, <3>1
    <3>3. page_dir'[VIRT_TO_PD_INDEX(s[1])] # None
      BY <1>5, <2>1, <3>1
    <3>4. QED
      BY <1>5, <1>6, <2>1, <2>4, <3>2, <3>3
  <2>5. CASE ~Gone(s) /\ s[1] = v
    <3>1. Slot(v) = s[2] /\ Slot(v) # None
      BY <1>1, <2>1, <2>5 DEF SeenHold
    <3>2. VIRT_TO_PD_INDEX(v) \in blocks
      BY <3>1
    <3>3. PICK m \in maps : m.page = v /\ m.frame = Slot(v)
      BY <1>1, <3>1, <3>2 DEF OnlyMapped, BlocksEntered
    <3>4. m \in Replaced'
      BY <1>gone, <3>2, <3>3
    <3>5. s = <<m.page, m.frame>>
      <4>1. s = <<s[1], s[2]>>
        BY <1>1 DEF TypeOK
      <4>2. QED
        BY <2>5, <3>1, <3>3, <4>1
    <3>6. Gone(s)'
      BY <3>4, <3>5 DEF Gone
    <3>7. s[1] \in Nat /\ ~ (s[1] < KERNEL_BASE)
      BY <1>5, <1>6, <2>5
    <3>8. QED
      BY <3>6, <3>7
  <2>6. QED
    BY <1>5, <1>6, <2>1, <2>2, <2>3, <2>4, <2>5
<1>10. ASSUME NEW s \in Current'
       PROVE  /\ s[1] \in Page /\ page_dir'[VIRT_TO_PD_INDEX(s[1])] # None
              /\ Slot(s[1])' = s[2]
  <2>1. PICK w \in Page : Translate(w)' # None /\ s = <<w, Translate(w)'>>
    BY DEF Current
  <2>2. Translate(w)' = IF page_dir'[VIRT_TO_PD_INDEX(w)] = None THEN None
                        ELSE page_tables'[TableIn(VIRT_TO_PD_INDEX(w))][VIRT_TO_PT_INDEX(w)]
    BY WalkIsSlot DEF Translate
  <2>3. page_dir'[VIRT_TO_PD_INDEX(w)] # None
    BY <2>1, <2>2
  <2>4. Slot(w)' = Translate(w)'
    BY <2>2, <2>3 DEF Slot
  <2>5. s[1] = w /\ s[2] = Translate(w)'
    BY <2>1
  <2>6. QED
    BY <2>3, <2>4, <2>5
<1>11. SeenHold'
  <2>1. ASSUME NEW s \in seen'
        PROVE  /\ s[1] < KERNEL_BASE => Slot(s[1])' = s[2]
               /\ s[1] >= KERNEL_BASE =>
                    \/ Gone(s)'
                    \/ page_dir'[VIRT_TO_PD_INDEX(s[1])] # None /\ Slot(s[1])' = s[2]
    <3>1. CASE s \in seen
      BY <1>9, <3>1
    <3>2. CASE s \in Current'
      BY <1>10, <3>2
    <3>3. QED
      BY <3>1, <3>2
  <2>2. QED
    BY <2>1 DEF SeenHold
<1>12. OnlyMapped'
  <2>1. ASSUME NEW w \in Page, VIRT_TO_PD_INDEX(w) \in Above, Slot(w)' # None
        PROVE  \E m \in maps' : m.page = w /\ m.frame = Slot(w)'
    <3>1. CASE w = v
      BY <1>3, <1>added, <3>1
    <3>2. CASE w # v
      <4>1. w >= KERNEL_BASE
        <5>1. VIRT_TO_PD_INDEX(w) >= HighBase
          BY <1>5, <2>1, Layout, Sizes DEF Above, Dir
        <5>2. QED
          BY <1>5, <5>1, HighPages
      <4>2. Slot(w)' = Slot(w)
        BY <1>3, <3>2, <4>1
      <4>3. QED
        BY <1>1, <1>added, <2>1, <4>2 DEF OnlyMapped
    <3>3. QED
      BY <3>1, <3>2
  <2>2. QED
    BY <2>1 DEF OnlyMapped
<1>13. MapsHold'
  <2>1. ASSUME NEW m \in maps
        PROVE  /\ m.page >= KERNEL_BASE /\ page_dir'[VIRT_TO_PD_INDEX(m.page)] # None
               /\ m \notin Replaced' => Slot(m.page)' = m.frame
    <3>1. m.page \in Page /\ m.frame \in Page /\ m.frame # None
      BY <1>1, <1>4, GeometryAssumption DEF TypeOK
    <3>2. m.page >= KERNEL_BASE /\ page_dir[VIRT_TO_PD_INDEX(m.page)] # None
      BY <1>1 DEF MapsHold
    <3>3. page_dir'[VIRT_TO_PD_INDEX(m.page)] # None
      BY <1>5, <3>1, <3>2
    <3>4. ASSUME m \notin Replaced'
          PROVE  Slot(m.page)' = m.frame
      <4>1. /\ Slot(m.page) = m.frame
            /\ ~ (m.page = v /\ VIRT_TO_PD_INDEX(v) \in blocks)
        BY <1>1, <1>gone, <3>4 DEF MapsHold
      <4>2. m.page # v
        BY <3>1, <4>1
      <4>3. QED
        BY <1>3, <3>1, <3>2, <4>1, <4>2
    <3>5. QED
      BY <3>2, <3>3, <3>4
  <2>2. /\ r.page >= KERNEL_BASE /\ page_dir'[VIRT_TO_PD_INDEX(r.page)] # None
        /\ Slot(r.page)' = r.frame
    BY <1>3, <1>added
  <2>3. QED
    BY <1>added, <2>1, <2>2 DEF MapsHold
<1>14. BlocksEntered'
  <2>1. ASSUME NEW d \in blocks
        PROVE  d \in Above /\ page_dir'[d] # None
    BY <1>1 DEF BlocksEntered, Above
  <2>2. QED
    BY <2>1 DEF BlocksEntered
<1>15. Counted'
  <2> DEFINE P == {m.page : m \in maps}
  <2>1. {m.page : m \in maps'} = P \cup {v}
    <3>1. {m.page : m \in maps'} \subseteq P \cup {v}
      <4>1. ASSUME NEW m \in maps' PROVE m.page \in P \cup {v}
        <5>1. m \in maps \/ m.page = v
          BY <1>added
        <5>2. QED
          BY <5>1
      <4>2. QED
        BY <4>1
    <3>2. P \subseteq {m.page : m \in maps'}
      OBVIOUS
    <3>3. v \in {m.page : m \in maps'}
      BY <1>added
    <3>4. QED
      BY <3>1, <3>2, <3>3
  <2>2. IsFiniteSet(P) /\ Cardinality(P) <= calls
    BY <1>1 DEF Counted
  <2> HIDE DEF P
  <2>3. /\ IsFiniteSet(P \cup {v})
        /\ Cardinality(P \cup {v}) = Cardinality(P) \/ Cardinality(P \cup {v}) = Cardinality(P) + 1
    BY <2>2, FS_AddElement
  <2>4. Cardinality(P) \in Nat /\ calls \in Nat
    BY <1>1, <2>2, FS_CardinalityType, Sizes DEF TypeOK
  <2>5. Cardinality(P \cup {v}) <= calls + 1
    BY <2>2, <2>3, <2>4
  <2>6. ASSUME NEW m \in maps'
        PROVE  m.call < calls'
    <3>1. m \in maps \/ m = r
      BY <1>added
    <3>2. CASE m = r
      BY <1>added, <2>4, <3>2
    <3>3. CASE m \in maps
      BY <1>older, <2>4, <3>3
    <3>4. QED
      BY <3>1, <3>2, <3>3
  <2>7. QED
    BY <2>1, <2>3, <2>5, <2>6 DEF Counted
<1>16. QED
  BY <1>1, <1>7, <1>11, <1>12, <1>13, <1>14, <1>15 DEF IInv

\* A call never finds the higher half used up, and takes an empty page of it.
LEMMA FreePageLeft ==
    ASSUME IInv, Paging, calls < MaxCalls
    PROVE  /\ find_free_virt_page \in Page /\ find_free_virt_page >= KERNEL_BASE
           /\ find_free_virt_page # 0 /\ Slot(find_free_virt_page) = None
           /\ FreePages # {}
<1> DEFINE first == (HighBase + LastTable + 1) * Entries
           last == Dirs * Entries - 1
           P == first .. last
           M == {m.page : m \in maps}
<1>1. /\ HighBase \in Nat /\ LastTable \in Nat /\ HighBase + LastTable + 1 \in Nat
      /\ Entries \in Nat \ {0} /\ KERNEL_BASE \in Nat /\ KernelStart \in Nat
      /\ KernelEnd \in Nat /\ KernelStart < KernelEnd
      /\ Dirs \in Nat /\ Dirs * Entries \in Nat /\ MaxCalls \in Nat
      /\ KERNEL_BASE = HighBase * Entries /\ LastTable < HighBase
  BY Layout, Sizes
<1>2. /\ first \in Nat /\ first > KERNEL_BASE + KernelStart
      /\ first + MaxCalls <= Dirs * Entries
  <2>1. KernelEnd - 1 \in Nat
    BY <1>1
  <2>2. /\ KernelEnd - 1 = LastTable * Entries + VIRT_TO_PT_INDEX(KernelEnd - 1)
        /\ LastTable * Entries \in Nat
        /\ VIRT_TO_PT_INDEX(KernelEnd - 1) \in 0 .. Entries - 1
    BY <2>1, PageParts DEF LastTable, Entry
  <2>3. first = HighBase * Entries + LastTable * Entries + Entries
    BY <1>1, SMTT(30)
  <2>4. KERNEL_BASE + (LastTable + 1) * Entries + MaxCalls <= Dirs * Entries
    BY RoomAssumption DEF LastTable
  <2>5. (LastTable + 1) * Entries = LastTable * Entries + Entries
    BY <1>1, SMTT(30)
  <2> HIDE DEF first
  <2>6. QED
    BY <1>1, <2>1, <2>2, <2>3, <2>4, <2>5
<1>3. \A v \in P : v \in Page /\ v >= KERNEL_BASE + KernelStart
                   /\ VIRT_TO_PD_INDEX(v) \in Above /\ v >= KERNEL_BASE
  <2>1. SUFFICES ASSUME NEW v \in P
                 PROVE  v \in Page /\ v >= KERNEL_BASE + KernelStart
                        /\ VIRT_TO_PD_INDEX(v) \in Above /\ v >= KERNEL_BASE
    OBVIOUS
  <2>2. v \in Nat /\ first <= v /\ v \in Page
    <3> HIDE DEF first
    <3>1. QED
      BY <1>1, <1>2 DEF Page
  <2>3. VIRT_TO_PD_INDEX(first) = HighBase + LastTable + 1
    <3>1. 0 \in Entry /\ first + 0 = first
      BY <1>1, <1>2 DEF Entry
    <3>2. VIRT_TO_PD_INDEX(first + 0) = HighBase + LastTable + 1
      BY <1>1, <3>1, PageOf
    <3> HIDE DEF first
    <3>3. QED
      BY <3>1, <3>2
  <2> HIDE DEF first, P
  <2>4. VIRT_TO_PD_INDEX(first) <= VIRT_TO_PD_INDEX(v)
    BY <1>2, <2>2, DirMonotonic
  <2>5. VIRT_TO_PD_INDEX(v) \in Dir /\ VIRT_TO_PD_INDEX(v) \in Nat
    BY <2>2, Layout, PageParts
  <2>6. VIRT_TO_PD_INDEX(v) \in Above
    BY <1>1, <2>3, <2>4, <2>5 DEF Above
  <2>7. QED
    BY <1>1, <1>2, <2>2, <2>6
<1>4. /\ TypeOK /\ Shape(page_dir) /\ OnlyMapped /\ Counted
  BY DEF IInv
<1>5. FreePages # {}
  <2>1. SUFFICES ASSUME FreePages = {} PROVE FALSE
    OBVIOUS
  <2>2. P \subseteq M
    <3>1. SUFFICES ASSUME NEW v \in P PROVE \E m \in maps : m.page = v
      OBVIOUS
    <3>2. v \in Page /\ v >= KERNEL_BASE /\ v >= KERNEL_BASE + KernelStart
          /\ VIRT_TO_PD_INDEX(v) \in Above
      BY <1>3
    <3>3. ~Empty(v)
      BY <2>1, <3>2 DEF FreePages
    <3>4. Slot(v) # None
      BY <1>4, <3>2, <3>3, EmptyIsSlot
    <3>5. QED
      BY <1>4, <3>2, <3>4 DEF OnlyMapped
  <2>3. IsFiniteSet(M) /\ Cardinality(M) <= calls
    BY <1>4 DEF Counted
  <2> HIDE DEF first, M
  <2>4. last \in Int /\ first \in Int
    BY <1>1, <1>2
  <2>5. Cardinality(P) = IF first > last THEN 0 ELSE last - first + 1
    BY <2>4, FS_Interval
  <2> HIDE DEF P
  <2>6. Cardinality(P) <= Cardinality(M) /\ IsFiniteSet(P)
    BY <2>2, <2>3, FS_Subset
  <2>7. Cardinality(P) \in Nat /\ Cardinality(M) \in Nat /\ calls \in Nat
    BY <1>1, <1>4, <2>3, <2>6, FS_CardinalityType DEF TypeOK
  <2>8. QED
    BY <1>1, <1>2, <2>3, <2>5, <2>6, <2>7
<1>6. FreePages \subseteq Nat
  BY Layout DEF FreePages
<1>7. find_free_virt_page \in FreePages
  BY <1>5, <1>6, LeastElement DEF find_free_virt_page
<1> DEFINE v == find_free_virt_page
<1> HIDE DEF v, first, last, P, M
<1>8. v \in Page /\ v >= KERNEL_BASE + KernelStart /\ Empty(v)
  BY <1>7 DEF FreePages, v
<1>9. v \in Nat /\ v >= KERNEL_BASE
  BY <1>1, <1>8, Layout
<1>10. KERNEL_BASE # 0
  BY <1>1, SMTT(30)
<1>11. v # 0
  BY <1>1, <1>9, <1>10
<1>12. Slot(v) = None
  BY <1>4, <1>8, <1>9, EmptyIsSlot
<1>13. QED
  BY <1>5, <1>8, <1>9, <1>11, <1>12 DEF v

\* Entering tables above the image keeps the shape of the directory.
LEMMA LoadShape ==
    ASSUME Shape(page_dir), NEW A \in SUBSET Above
    PROVE  /\ Shape(load_page_table(page_dir, A))
           /\ \A d \in Dir : page_dir[d] # None \/ d \in A
                                 => load_page_table(page_dir, A)[d] # None
<1> DEFINE pd == load_page_table(page_dir, A)
<1>1. /\ HighBase \in Nat /\ LastTable \in Nat /\ TablesAt \in Nat
      /\ LastTable < HighBase
      /\ \A d \in Dir : d \in Nat
  BY Layout, Sizes DEF Dir
<1>2. \A d \in Dir : pd[d] = IF d \in A THEN TablesAt + d ELSE page_dir[d]
  BY DEF load_page_table
<1> HIDE DEF pd
<1>3. \A d \in A : /\ d \in Dir /\ TableIn(d) = d /\ TablesAt + d # None
                   /\ d \notin LastTable + 1 .. HighBase - 1
  BY <1>1 DEF Above, TableIn, None
<1>4. ASSUME NEW d \in Dir
      PROVE  /\ pd[d] \in {None, TablesAt + TableIn(d)}
             /\ d \in 1 .. LastTable \/ d \in HighBase .. HighBase + LastTable => pd[d] # None
             /\ d \in LastTable + 1 .. HighBase - 1 => pd[d] = None
  <2>1. CASE d \in A
    BY <1>2, <1>3, <2>1
  <2>2. CASE d \notin A
    BY <1>2, <2>2 DEF Shape
  <2>3. QED
    BY <2>1, <2>2
<1>5. \A d \in Dir : page_dir[d] # None \/ d \in A => pd[d] # None
  BY <1>2, <1>3
<1>6. Shape(pd)
  BY <1>4 DEF Shape
<1>7. QED
  BY <1>5, <1>6 DEF pd

\* A directory of that shape has the type of a directory.
LEMMA ShapeType ==
    ASSUME NEW pd, Shape(pd), NEW d \in Dir
    PROVE  pd[d] \in TablesAt .. TablesAt + Dirs - 1 \cup {None}
<1>1. TableIn(d) \in 0 .. Dirs - 1 /\ TablesAt \in Nat /\ Dirs \in Nat
  BY TableInDir, Sizes DEF Dir
<1>2. TablesAt + TableIn(d) \in TablesAt .. TablesAt + Dirs - 1
  BY <1>1
<1>3. QED
  BY <1>2 DEF Shape

\* What the walk finds is a frame.
LEMMA CurrentType ==
    ASSUME NEW pd, NEW pt, Shape(pd), pt \in [Dir -> [Entry -> Page \cup {None}]],
           NEW v \in Page
    PROVE  Walk(pd, pt, v) \in Page \cup {None}
<1>1. TableIn(VIRT_TO_PD_INDEX(v)) \in Dir /\ VIRT_TO_PT_INDEX(v) \in Entry
  BY Layout, TableInDir, PageParts
<1>2. pt[TableIn(VIRT_TO_PD_INDEX(v))][VIRT_TO_PT_INDEX(v)] \in Page \cup {None}
  BY <1>1
<1>3. QED
  BY <1>2, WalkIsSlot

\* A call of map_page as the proofs see it, whether it chooses the page or the
\* owner of a block does: the scan loads the directories in A and looks at the
\* tables of those in D, and page v is empty or in a block somebody reserved.
Writes(A, D, v, f) ==
    /\ Running /\ calls < MaxCalls
    /\ v >= KERNEL_BASE
    /\ \A d \in D \cup {VIRT_TO_PD_INDEX(v)} : page_dir[d] # None \/ d \in A
    /\ Slot(v) = None \/ VIRT_TO_PD_INDEX(v) \in blocks
    /\ WriteEntry(load_page_table(page_dir, A), D, v, f)
    /\ boot' = boot /\ blocks' = blocks /\ calls' = calls + 1

\* The access when it does not fault.
LEMMA WriteEffect ==
    ASSUME IInv,
           NEW A \in SUBSET Above, NEW D \in SUBSET Dir,
           NEW v \in Page, NEW f \in Frames,
           Writes(A, D, v, f), stage' # "fault"
    PROVE  /\ Shape(page_dir') /\ page_dir' = load_page_table(page_dir, A)
           /\ \A d \in Dir : page_dir[d] # None => page_dir'[d] # None
           /\ page_dir'[VIRT_TO_PD_INDEX(v)] # None
           /\ page_tables' = [page_tables EXCEPT
                ![TableIn(VIRT_TO_PD_INDEX(v))] =
                    [page_tables[TableIn(VIRT_TO_PD_INDEX(v))] EXCEPT
                         ![VIRT_TO_PT_INDEX(v)] = f]]
           /\ maps' = maps \cup {[page |-> v, frame |-> f, call |-> calls]}
           /\ seen' = seen \cup Current'
           /\ stage' = stage
<1> DEFINE pd == load_page_table(page_dir, A)
           last == VIRT_TO_PD_INDEX(v)
<1>1. /\ TypeOK /\ Shape(page_dir) /\ Paging
      /\ WriteEntry(pd, D, v, f) /\ v >= KERNEL_BASE
      /\ page_dir[last] # None \/ last \in A
  BY DEF IInv, Running, Paging, Writes
<1>2. last \in Dir /\ v \in Nat /\ TableIn(last) \in Dir /\ VIRT_TO_PT_INDEX(v) \in Entry
  BY Layout, TableInDir, PageParts
<1>3. /\ Shape(pd) /\ pd[last] # None
      /\ \A d \in Dir : page_dir[d] # None => pd[d] # None
  BY <1>1, <1>2, LoadShape
<1>4. PICK g \in Reached(get_page_table(pd, last)) :
        /\ page_dir' = pd
        /\ page_tables' =
             [t \in Dir |->
                IF TablesAt + t = g
                THEN [page_tables[t] EXCEPT ![VIRT_TO_PT_INDEX(v)] = f]
                ELSE page_tables[t]]
        /\ maps' = IF v = 0 THEN maps
                   ELSE maps \cup {[page |-> v, frame |-> f, call |-> calls]}
        /\ seen' = seen \cup Current'
        /\ UNCHANGED stage
  BY <1>1 DEF WriteEntry
<1>5. v # 0
  <2>1. v > 0
    <3>1. /\ HighBase \in Nat /\ HighBase # 0 /\ Entries \in Nat \ {0}
          /\ KERNEL_BASE = HighBase * Entries
      BY Layout, Sizes
    <3>2. KERNEL_BASE > 0
      BY <3>1, SMTT(30)
    <3>3. QED
      BY <1>1, <1>2, <3>2, Sizes
  <2>2. QED
    BY <2>1, GeometryAssumption
<1>6. g = TablesAt + TableIn(last)
  <2>1. pd[last] = TablesAt + TableIn(last)
    BY <1>2, <1>3 DEF Shape
  <2>2. get_page_table(pd, last) = TablesAt + TableIn(last)
    BY <1>3, <2>1 DEF get_page_table
  <2>3. Reached(TablesAt + TableIn(last)) = {TablesAt + TableIn(last)}
    BY <1>1, <1>2, TableReached
  <2>4. QED
    BY <1>4, <2>2, <2>3
<1>7. page_tables' = [page_tables EXCEPT
          ![TableIn(last)] = [page_tables[TableIn(last)] EXCEPT ![VIRT_TO_PT_INDEX(v)] = f]]
  <2> DEFINE t0 == TableIn(last)
             e0 == VIRT_TO_PT_INDEX(v)
  <2>1. t0 \in Dir /\ e0 \in Entry /\ page_tables \in [Dir -> [Entry -> Page \cup {None}]]
    BY <1>1, <1>2 DEF TypeOK
  <2>2. \A t \in Dir : TablesAt + t = g <=> t = t0
    <3>1. \A t \in Dir : t \in Nat
      BY Sizes DEF Dir
    <3> HIDE DEF t0
    <3>2. g = TablesAt + t0 /\ TablesAt \in Nat
      BY <1>6, Sizes DEF t0
    <3>3. QED
      BY <2>1, <3>1, <3>2
  <2>3. page_tables' = [t \in Dir |->
            IF TablesAt + t = g THEN [page_tables[t] EXCEPT ![e0] = f] ELSE page_tables[t]]
    BY <1>4
  <2> HIDE DEF t0, e0
  <2>4. page_tables' = [page_tables EXCEPT ![t0] = [page_tables[t0] EXCEPT ![e0] = f]]
    BY <2>1, <2>2, <2>3
  <2>5. QED
    BY <2>4 DEF t0, e0
<1>8. QED
  BY <1>3, <1>4, <1>5, <1>7

\* The access keeps the invariant, with or without a fault on the way.
LEMMA WriteEntryKeeps ==
    ASSUME IInv,
           NEW A \in SUBSET Above, NEW D \in SUBSET Dir,
           NEW v \in Page, NEW f \in Frames,
           Writes(A, D, v, f)
    PROVE  IInv'
<1> DEFINE pd == load_page_table(page_dir, A)
           last == VIRT_TO_PD_INDEX(v)
           Missing(d) == Walk(pd, page_tables, get_page_table(pd, d)) = None
           r == [page |-> v, frame |-> f, call |-> calls]
<1>1. /\ TypeOK /\ Shape(page_dir) /\ Paging
      /\ stage \in {"early", "main"}
      /\ calls < MaxCalls /\ v >= KERNEL_BASE
      /\ boot' = boot /\ blocks' = blocks /\ calls' = calls + 1
  BY DEF IInv, Running, Paging, Writes
<1>2. last \in Dir /\ v \in Nat /\ TableIn(last) \in Dir /\ VIRT_TO_PT_INDEX(v) \in Entry
      /\ f \in Page
  BY Layout, TableInDir, PageParts, GeometryAssumption
<1>3. calls \in Nat /\ calls' \in 0 .. MaxCalls /\ calls' >= calls
  BY <1>1, Sizes DEF TypeOK
<1>4. blocks \subseteq Dir
  BY <1>1 DEF TypeOK
<1>5. ASSUME NEW d \in D \cup {last}, Missing(d), stage' = "fault",
             page_dir' = [e \in Dir |-> IF e <= d THEN pd[e] ELSE page_dir[e]],
             UNCHANGED <<page_tables, seen, maps>>
      PROVE  IInv'
  <2> DEFINE B == {e \in A : e <= d}
  <2>1. page_dir' = load_page_table(page_dir, B)
    <3>1. \A e \in Dir : (IF e <= d THEN pd[e] ELSE page_dir[e])
                           = IF e \in B THEN TablesAt + e ELSE page_dir[e]
      BY DEF load_page_table
    <3> HIDE DEF B, pd
    <3>2. QED
      BY <1>5, <3>1 DEF load_page_table
  <2>2. B \in SUBSET Above
    OBVIOUS
  <2> HIDE DEF B
  <2>3. /\ Shape(page_dir')
        /\ \A d1 \in Dir : page_dir[d1] # None => page_dir'[d1] # None
    BY <1>1, <2>1, <2>2, LoadShape
  <2>4. page_dir' \in [Dir -> TablesAt .. TablesAt + Dirs - 1 \cup {None}]
    <3>1. \A d1 \in Dir : page_dir'[d1] \in TablesAt .. TablesAt + Dirs - 1 \cup {None}
      BY <2>3, ShapeType
    <3>2. QED
      BY <2>1, <3>1 DEF load_page_table
  <2>5. TypeOK'
    BY <1>1, <1>3, <1>5, <2>4 DEF TypeOK
  <2>6. Paging' /\ Shape(page_dir)'
    BY <1>5, <2>3 DEF Paging, Shape
  <2>7. QED
    BY <1>1, <1>3, <1>5, <2>3, <2>5, <2>6, LoadKeeps
<1>6. ASSUME stage' # "fault"
      PROVE  IInv'
  <2>1. /\ Shape(page_dir') /\ page_dir' = pd
        /\ \A d \in Dir : page_dir[d] # None => page_dir'[d] # None
        /\ page_dir'[last] # None
        /\ page_tables' = [page_tables EXCEPT
               ![TableIn(last)] = [page_tables[TableIn(last)] EXCEPT ![VIRT_TO_PT_INDEX(v)] = f]]
        /\ maps' = maps \cup {r}
        /\ seen' = seen \cup Current'
        /\ stage' = stage
    BY <1>6, WriteEffect
  <2>2. page_tables' \in [Dir -> [Entry -> Page \cup {None}]]
    <3>1. page_tables \in [Dir -> [Entry -> Page \cup {None}]]
      BY <1>1 DEF TypeOK
    <3>2. QED
      BY <1>2, <2>1, <3>1
  <2>3. page_dir' \in [Dir -> TablesAt .. TablesAt + Dirs - 1 \cup {None}]
    <3>1. \A d1 \in Dir : page_dir'[d1] \in TablesAt .. TablesAt + Dirs - 1 \cup {None}
      BY <2>1, ShapeType
    <3>2. QED
      BY <2>1, <3>1 DEF load_page_table
  <2>4. Current' \subseteq Page \X Page
    <3>1. \A w \in Page : Translate(w)' \in Page \cup {None}
      BY <2>1, <2>2, CurrentType DEF Translate
    <3>2. QED
      BY <3>1 DEF Current
  <2>5. r \in [page : Page, frame : Frames, call : 0 .. MaxCalls - 1]
    BY <1>1, <1>3, Sizes
  <2>6. TypeOK'
    BY <1>1, <1>3, <2>1, <2>2, <2>3, <2>4, <2>5 DEF TypeOK
  <2>7. Paging' /\ Shape(page_dir)'
    BY <1>1, <2>1 DEF Paging, Shape
  <2>8. Slot(v) = None \/ last \in blocks
    BY DEF Writes
  <2>9. QED
    BY <1>1, <2>1, <2>6, <2>7, <2>8, WriteKeeps
<1>7. CASE stage' = "fault"
  <2>1. PICK d \in D \cup {last} :
          /\ Missing(d)
          /\ page_dir' = [e \in Dir |-> IF e <= d THEN pd[e] ELSE page_dir[e]]
          /\ UNCHANGED <<page_tables, seen, maps>>
    BY <1>1, <1>7 DEF WriteEntry, Writes
  <2>2. QED
    BY <1>5, <1>7, <2>1
<1>8. QED
  BY <1>6, <1>7

\* The start: nothing is mapped.
LEMMA InitIInv ==
    ASSUME Init
    PROVE  IInv
<1>1. TypeOK
  BY Sizes DEF Init, TypeOK
<1>2. ~Paging /\ NothingYet
  BY DEF Init, Paging, NothingYet
<1>3. boot \subseteq Infos
  BY DEF Init
<1>4. Counted
  <2>1. {m.page : m \in maps} = {}
    BY DEF Init
  <2>2. IsFiniteSet({}) /\ Cardinality({}) = 0
    BY FS_EmptySet
  <2>3. \A m \in maps : m.call < calls
    BY DEF Init
  <2>4. QED
    BY <2>1, <2>2, <2>3 DEF Init, Counted
<1>5. QED
  BY <1>1, <1>2, <1>3, <1>4 DEF IInv

\* setup_paging, whether an assert stops it or paging comes on.
LEMMA SetupKeeps ==
    ASSUME IInv, NEW m \in Infos, setup_paging(m)
    PROVE  IInv'
<1> DEFINE ok == /\ SharesFirstTable({VgaFrame})
                 /\ SharesFirstTable(m.info) /\ SharesFirstTable(m.mmap)
<1>1. /\ TypeOK /\ stage = "real" /\ boot' = {m} /\ boot' \subseteq Infos
      /\ UNCHANGED <<blocks, maps, calls>>
  BY DEF IInv, setup_paging
<1>2. NothingYet
  BY <1>1 DEF IInv, Paging
<1>3. Counted'
  BY <1>1 DEF IInv, Counted
<1>4. CASE ~ok
  <2>1. stage' = "hang" /\ UNCHANGED <<page_dir, page_tables, seen>>
    BY <1>4 DEF setup_paging
  <2>2. TypeOK' /\ ~Paging' /\ NothingYet'
    BY <1>1, <1>2, <2>1 DEF TypeOK, Paging, NothingYet
  <2>3. QED
    BY <1>1, <1>3, <2>2 DEF IInv
<1>5. CASE ok
  <2>1. /\ page_dir' = SetupDir /\ page_tables' = SetupTables(m)
        /\ stage' = "early" /\ seen' = Current'
    BY <1>5 DEF setup_paging
  <2>2. Lowest
    BY <1>5, LowestFromAsserts
  <2>3. Shape(page_dir') /\ page_dir'[0] # None
    BY <2>1, <2>2, SetupDirShape
  <2>4. /\ page_tables' \in [Dir -> [Entry -> Page \cup {None}]]
        /\ \A f \in Needed(m) :
             page_tables'[VIRT_TO_PD_INDEX(f)][VIRT_TO_PT_INDEX(f)] = f
        /\ \A t \in Dir, e \in Entry : t > LastTable => page_tables'[t][e] = None
    BY <1>5, <2>1, <2>2, SetupTablesFilled
  <2>5. \A f \in Needed(m) :
           /\ f \in Nat /\ VIRT_TO_PD_INDEX(f) <= LastTable
           /\ VIRT_TO_PD_INDEX(f) \in Dir /\ f < KERNEL_BASE
           /\ KERNEL_BASE + f \in Page /\ f \in Page
    BY <1>5, <2>2, NeededIsLow
  <2>6. page_dir' \in [Dir -> TablesAt .. TablesAt + Dirs - 1 \cup {None}]
    <3>1. \A d1 \in Dir : page_dir'[d1] \in TablesAt .. TablesAt + Dirs - 1 \cup {None}
      BY <2>3, ShapeType
    <3>2. QED
      BY <2>1, <3>1 DEF SetupDir
  <2>7. \A w \in Page : Translate(w)' \in Page \cup {None}
    BY <2>3, <2>4, CurrentType DEF Translate
  <2>8. Current' \subseteq Page \X Page
    BY <2>7 DEF Current
  <2>9. TypeOK'
    BY <1>1, <2>1, <2>4, <2>6, <2>8 DEF TypeOK
  <2>10. \A w \in Page : page_dir'[VIRT_TO_PD_INDEX(w)] # None => Translate(w)' = Slot(w)'
    BY <2>3, WalkIsSlot DEF Translate, Slot
  <2>11. \A w \in Page : Translate(w)' # None =>
            page_dir'[VIRT_TO_PD_INDEX(w)] # None /\ Translate(w)' = Slot(w)'
    <3>1. \A w \in Page : page_dir'[VIRT_TO_PD_INDEX(w)] = None => Translate(w)' = None
      BY <2>3, WalkIsSlot DEF Translate
    <3>2. QED
      BY <2>10, <3>1
  <2>12. ASSUME NEW f \in Needed(m)
         PROVE  /\ Slot(f)' = f /\ Slot(KERNEL_BASE + f)' = f
                /\ <<f, f>> \in seen' /\ <<KERNEL_BASE + f, f>> \in seen'
    <3> DEFINE d == VIRT_TO_PD_INDEX(f)
    <3>1. /\ f \in Nat /\ d <= LastTable /\ d \in Dir /\ d \in Nat
          /\ f \in Page /\ KERNEL_BASE + f \in Page
          /\ VIRT_TO_PD_INDEX(KERNEL_BASE + f) = HighBase + d
          /\ VIRT_TO_PT_INDEX(KERNEL_BASE + f) = VIRT_TO_PT_INDEX(f)
      BY <2>5, PageParts, HighAlias
    <3>2. page_tables'[d][VIRT_TO_PT_INDEX(f)] = f
      BY <2>4
    <3>3. VIRT_TO_PD_INDEX(KERNEL_BASE + f) \in Dir
      BY <3>1, Layout
    <3> HIDE DEF d
    <3>4. /\ TableIn(d) = d /\ TableIn(HighBase + d) = d
          /\ d = 0 \/ d \in 1 .. LastTable
          /\ HighBase + d \in HighBase .. HighBase + LastTable
      BY <3>1, Layout DEF TableIn
    <3>5. Slot(f)' = f /\ Slot(KERNEL_BASE + f)' = f
      BY <3>1, <3>2, <3>4 DEF Slot, d
    <3>6. page_dir'[d] # None /\ page_dir'[HighBase + d] # None
      BY <2>3, <3>1, <3>3, <3>4 DEF Shape
    <3>7. Translate(f)' = f /\ Translate(KERNEL_BASE + f)' = f
      BY <2>10, <3>1, <3>5, <3>6 DEF d
    <3>8. f # None
      BY <3>1 DEF None
    <3>9. <<f, f>> \in Current' /\ <<KERNEL_BASE + f, f>> \in Current'
      BY <3>1, <3>7, <3>8 DEF Current
    <3>10. QED
      BY <2>1, <3>5, <3>9
  <2>13. ImageMapped'
    <3>1. \A f \in Kernel : f \in Needed(m)
      BY DEF Needed
    <3>2. QED
      BY <1>1, <2>5, <2>12, <3>1 DEF ImageMapped, Needed
  <2>14. SeenHold'
    <3>1. ASSUME NEW s \in Current'
          PROVE  page_dir'[VIRT_TO_PD_INDEX(s[1])] # None /\ Slot(s[1])' = s[2]
      <4>1. PICK w \in Page : Translate(w)' # None /\ s = <<w, Translate(w)'>>
        BY DEF Current
      <4>2. s[1] = w /\ s[2] = Translate(w)'
        BY <4>1
      <4>3. QED
        BY <2>11, <4>1, <4>2
    <3>2. QED
      BY <2>1, <3>1 DEF SeenHold
  <2>15. OnlyMapped'
    <3>1. ASSUME NEW w \in Page, VIRT_TO_PD_INDEX(w) \in Above
          PROVE  Slot(w)' = None
      <4>1. /\ TableIn(VIRT_TO_PD_INDEX(w)) \in Dir /\ VIRT_TO_PT_INDEX(w) \in Entry
        BY Layout, TableInDir, PageParts
      <4>2. TableIn(VIRT_TO_PD_INDEX(w)) > LastTable
        BY <3>1, Layout, Sizes DEF Above, Dir, TableIn
      <4>3. QED
        BY <2>4, <4>1, <4>2 DEF Slot
    <3>2. QED
      BY <3>1 DEF OnlyMapped
  <2>16. MapsHold' /\ BlocksEntered'
    BY <1>1, <1>2 DEF NothingYet, MapsHold, BlocksEntered
  <2>17. Paging' /\ boot' # {} /\ Shape(page_dir)'
    BY <1>1, <2>1, <2>3 DEF Paging, Shape
  <2>18. QED
    BY <1>1, <1>3, <2>2, <2>9, <2>13, <2>14, <2>15, <2>16, <2>17 DEF IInv
<1>6. QED
  BY <1>4, <1>5

\* clear_ident_map takes away the first directory entry only: the tables of
\* the image stay entered in the higher half.
LEMMA ClearKeeps ==
    ASSUME IInv, clear_ident_map
    PROVE  IInv'
<1>1. /\ TypeOK /\ Paging /\ Shape(page_dir) /\ Lowest
      /\ stage' = "main" /\ page_dir' = [page_dir EXCEPT ![IdentDir] = None]
      /\ UNCHANGED <<page_tables, boot, seen, blocks, maps, calls>>
  BY DEF IInv, clear_ident_map, Paging
<1>2. IdentDir = 0 /\ page_dir \in [Dir -> TablesAt .. TablesAt + Dirs - 1 \cup {None}]
  BY <1>1 DEF Lowest, TypeOK
<1>3. \A d \in Dir : page_dir'[d] = IF d = 0 THEN None ELSE page_dir[d]
  BY <1>1, <1>2
<1>4. 0 \notin 1 .. LastTable /\ 0 \notin HighBase .. HighBase + LastTable
  BY Layout
<1>5. Shape(page_dir')
  BY <1>1, <1>3, <1>4 DEF Shape
<1>6. page_dir' \in [Dir -> TablesAt .. TablesAt + Dirs - 1 \cup {None}]
  BY <1>1, <1>2
<1>7. TypeOK'
  BY <1>1, <1>6 DEF TypeOK
<1>8. Paging' /\ Shape(page_dir)' /\ calls' >= calls
  BY <1>1, <1>5, Sizes DEF Paging, Shape, TypeOK
<1>9. QED
  BY <1>1, <1>3, <1>7, <1>8, LoadKeeps

\* The block reserve_block takes lies above the image and was not entered.
LEMMA ReserveTakes ==
    ASSUME IInv, reserve_block
    PROVE  \E d \in Above : /\ page_dir[d] = None
                            /\ page_dir' = load_page_table(page_dir, {d})
                            /\ blocks' = blocks \cup {d}
<1> DEFINE first == VIRT_TO_PD_INDEX(KERNEL_BASE + KernelStart + Entries - 1)
           free == {d \in Dir : d >= first /\ page_dir[d] = None}
<1>1. Paging /\ Shape(page_dir)
  BY DEF IInv, reserve_block, Running, Paging
<1>2. PICK d \in free : /\ page_dir' = load_page_table(page_dir, {d})
                        /\ blocks' = blocks \cup {d}
  BY DEF reserve_block
<1>3. first >= HighBase /\ first \in Nat
  <2> DEFINE x == KERNEL_BASE + KernelStart + Entries - 1
  <2>1. x \in Nat /\ KERNEL_BASE \in Nat /\ KERNEL_BASE <= x
    BY Sizes
  <2> HIDE DEF x
  <2>2. VIRT_TO_PD_INDEX(KERNEL_BASE) <= VIRT_TO_PD_INDEX(x) /\ VIRT_TO_PD_INDEX(x) \in Nat
    BY <2>1, DirMonotonic, PageParts
  <2>3. QED
    BY <2>2, Layout DEF HighBase, x
<1>4. d \in Dir /\ d >= first /\ page_dir[d] = None
  OBVIOUS
<1> HIDE DEF first
<1>5. d \notin HighBase .. HighBase + LastTable
  BY <1>1, <1>4 DEF Shape
<1>6. d \in Above
  BY <1>3, <1>4, <1>5, Layout, Sizes DEF Dir, Above
<1>7. QED
  BY <1>2, <1>4, <1>6

\* reserve_block keeps the invariant.
LEMMA ReserveKeeps ==
    ASSUME IInv, reserve_block
    PROVE  IInv'
<1>1. /\ TypeOK /\ Paging /\ Shape(page_dir)
      /\ UNCHANGED <<page_tables, stage, boot, seen, maps, calls>>
  BY DEF IInv, reserve_block, Running, Paging
<1>2. PICK d \in Above : /\ page_dir' = load_page_table(page_dir, {d})
                         /\ blocks' = blocks \cup {d}
  BY ReserveTakes
<1>3. {d} \in SUBSET Above /\ d \in Dir
  BY DEF Above
<1>4. /\ Shape(page_dir')
      /\ \A e \in Dir : page_dir[e] # None \/ e \in {d} => page_dir'[e] # None
  BY <1>1, <1>2, <1>3, LoadShape
<1>5. page_dir' \in [Dir -> TablesAt .. TablesAt + Dirs - 1 \cup {None}]
  <2>1. \A e \in Dir : page_dir'[e] \in TablesAt .. TablesAt + Dirs - 1 \cup {None}
    BY <1>4, ShapeType
  <2>2. QED
    BY <1>2, <2>1 DEF load_page_table
<1>6. TypeOK'
  BY <1>1, <1>2, <1>3, <1>5 DEF TypeOK
<1>7. Paging' /\ Shape(page_dir)' /\ calls' >= calls
  BY <1>1, <1>4, Sizes DEF Paging, Shape, TypeOK
<1>8. \A e \in blocks' \ blocks : e \in Above /\ page_dir'[e] # None
  BY <1>2, <1>3, <1>4
<1>9. blocks \subseteq blocks'
  BY <1>2
<1>10. QED
  BY <1>1, <1>4, <1>6, <1>7, <1>8, <1>9, LoadKeeps

\* map_page where it chooses the page: the scan ends at an empty one.
LEMMA MapAnywhereWrites ==
    ASSUME IInv, NEW f \in Frames, map_anywhere(f)
    PROVE  \E A \in SUBSET Above, D \in SUBSET Dir, v \in Page :
             Writes(A, D, v, f)
<1> DEFINE v == find_free_virt_page
           last == VIRT_TO_PD_INDEX(v)
           A == {d \in Scanned : page_dir[d] = None}
<1>1. /\ Running /\ calls < MaxCalls
      /\ WriteEntry(load_page_table(page_dir, A), Scanned, v, f)
      /\ calls' = calls + 1 /\ boot' = boot /\ blocks' = blocks
  BY DEF map_anywhere
<1>2. Paging /\ Shape(page_dir) /\ Lowest
  BY <1>1 DEF IInv, Running, Paging
<1>3. /\ v \in Page /\ v >= KERNEL_BASE /\ Slot(v) = None /\ FreePages # {}
  BY <1>1, <1>2, FreePageLeft
<1> HIDE DEF v
<1>4. last \in Dir /\ last >= HighBase /\ last \in Nat
  BY <1>3, Layout, HighPages, PageParts
<1>5. A \in SUBSET Above
  <2>1. SUFFICES ASSUME NEW d \in A PROVE d \in Above
    OBVIOUS
  <2>2. d \in Dir /\ d >= HighBase /\ page_dir[d] = None
    BY <1>2 DEF Scanned, Lowest
  <2>3. d \notin HighBase .. HighBase + LastTable
    BY <1>2, <2>2 DEF Shape
  <2>4. QED
    BY <2>2, <2>3, Layout, Sizes DEF Dir, Above
<1>6. last \in Scanned
  <2>1. last >= HighDir /\ last <= VIRT_TO_PD_INDEX(find_free_virt_page)
    BY <1>2, <1>4 DEF Lowest, v
  <2>2. QED
    BY <1>4, <2>1 DEF Scanned
<1>7. \A d \in Scanned \cup {last} : page_dir[d] # None \/ d \in A
  BY <1>6
<1>8. Scanned \in SUBSET Dir
  BY DEF Scanned
<1> HIDE DEF A
<1>9. Writes(A, Scanned, v, f)
  BY <1>1, <1>3, <1>7 DEF Writes
<1>10. QED
  BY <1>3, <1>5, <1>8, <1>9

\* map_page where the owner of a block says.
LEMMA MapAtWrites ==
    ASSUME IInv, NEW v \in Page, NEW f \in Frames, map_at(v, f)
    PROVE  Writes({}, {}, v, f)
<1>1. /\ Running /\ calls < MaxCalls
      /\ VIRT_TO_PD_INDEX(v) \in blocks
      /\ WriteEntry(page_dir, {}, v, f)
      /\ calls' = calls + 1 /\ boot' = boot /\ blocks' = blocks
  BY DEF map_at
<1>2. TypeOK /\ Paging /\ BlocksEntered
  BY <1>1 DEF IInv, Running, Paging
<1>3. /\ VIRT_TO_PD_INDEX(v) \in Above
      /\ page_dir[VIRT_TO_PD_INDEX(v)] # None
  BY <1>1, <1>2 DEF BlocksEntered
<1>4. v >= KERNEL_BASE
  <2>1. v \in Nat /\ VIRT_TO_PD_INDEX(v) >= HighBase
    BY <1>3, Layout, Sizes DEF Above, Dir
  <2>2. QED
    BY <2>1, HighPages
<1>5. load_page_table(page_dir, {}) = page_dir
  <2>1. page_dir \in [Dir -> TablesAt .. TablesAt + Dirs - 1 \cup {None}]
    BY <1>2 DEF TypeOK
  <2>2. load_page_table(page_dir, {}) = [d \in Dir |-> page_dir[d]]
    BY DEF load_page_table
  <2>3. QED
    BY <2>1, <2>2
<1>6. WriteEntry(load_page_table(page_dir, {}), {}, v, f)
  BY <1>1, <1>5
<1>7. QED
  BY <1>1, <1>3, <1>4, <1>6 DEF Writes

\* So every call of map_page is a Writes step.
LEMMA MapCalls ==
    ASSUME IInv, \/ \E f \in Frames : map_anywhere(f)
                 \/ \E v \in Page, f \in Frames : map_at(v, f)
    PROVE  \E A \in SUBSET Above, D \in SUBSET Dir, v \in Page, f \in Frames : Writes(A, D, v, f)
<1>1. CASE \E f \in Frames : map_anywhere(f)
  <2>1. PICK f \in Frames : map_anywhere(f)
    BY <1>1
  <2>2. PICK A \in SUBSET Above, D \in SUBSET Dir, v \in Page : Writes(A, D, v, f)
    BY <2>1, MapAnywhereWrites
  <2>3. QED
    BY <2>2
<1>2. CASE \E v \in Page, f \in Frames : map_at(v, f)
  <2>1. PICK v \in Page, f \in Frames : map_at(v, f)
    BY <1>2
  <2>2. Writes({}, {}, v, f)
    BY <2>1, MapAtWrites
  <2>3. QED
    BY <2>2
<1>3. QED
  BY <1>1, <1>2

\* So does every step.
LEMMA StepKeeps ==
    ASSUME IInv, [Next]_vars
    PROVE  IInv'
<1>1. CASE \E m \in Infos : setup_paging(m)
  BY <1>1, SetupKeeps
<1>2. CASE clear_ident_map
  BY <1>2, ClearKeeps
<1>3. CASE reserve_block
  BY <1>3, ReserveKeeps
<1>4. CASE \/ \E f \in Frames : map_anywhere(f)
           \/ \E v \in Page, f \in Frames : map_at(v, f)
  BY <1>4, MapCalls, WriteEntryKeeps
<1>5. CASE UNCHANGED vars
  <2>1. /\ page_dir' = page_dir /\ page_tables' = page_tables /\ stage' = stage
        /\ boot' = boot /\ seen' = seen /\ blocks' = blocks /\ maps' = maps
        /\ calls' = calls
    BY <1>5 DEF vars
  <2>2. TypeOK' /\ (Paging' <=> Paging) /\ boot' \subseteq Infos
    BY <2>1 DEF IInv, TypeOK, Paging
  <2>3. CASE Paging
    <3>1. Shape(page_dir)' /\ calls' >= calls
      BY <2>1, <2>3, Sizes DEF IInv, Shape, TypeOK
    <3>2. QED
      BY <2>1, <2>2, <2>3, <3>1, LoadKeeps DEF IInv
  <2>4. CASE ~Paging
    <3>1. NothingYet' /\ Counted'
      BY <2>1, <2>4 DEF IInv, NothingYet, Counted
    <3>2. QED
      BY <2>2, <2>4, <3>1 DEF IInv
  <2>5. QED
    BY <2>3, <2>4
<1>6. QED
  BY <1>1, <1>2, <1>3, <1>4, <1>5 DEF Next

\* The inductive invariant holds of every behaviour.
THEOREM AlwaysIInv == Spec => []IInv
<1>1. Init => IInv
  BY InitIInv
<1>2. IInv /\ [Next]_vars => IInv'
  BY StepKeeps
<1>3. QED
  BY <1>1, <1>2, PTL DEF Spec

-----------------------------------------------------------------------------
(* What the invariant says.                                                *)

\* The page directory, the page tables, the TLB and the histories are what
\* they are taken for: every entry is a frame or none, whatever map_page wrote.
THEOREM VirtTypeCorrect == Spec => []TypeOK
<1>1. IInv => TypeOK
  BY DEF IInv
<1>2. QED
  BY <1>1, AlwaysIInv, PTL

\* From the moment paging is on, the image, the text buffer and the boot
\* information are at their higher-half addresses for good: no scan, block or
\* fault ever changes those entries, and the TLB knows no other frame.
THEOREM KernelStaysMapped == Spec => []KernelMapped
<1>1. ASSUME IInv, Paging, NEW m \in boot, NEW f \in Needed(m)
      PROVE  Translate(KERNEL_BASE + f) = f /\ Reached(KERNEL_BASE + f) = {f}
  <2>1. /\ f \in Nat /\ VIRT_TO_PD_INDEX(f) <= LastTable
        /\ KERNEL_BASE + f \in Page
        /\ Slot(f) = f /\ <<KERNEL_BASE + f, f>> \in seen
        /\ Shape(page_dir) /\ SeenHold /\ BlocksEntered
    BY <1>1 DEF IInv, ImageMapped
  <2> DEFINE d == VIRT_TO_PD_INDEX(f)
             v == KERNEL_BASE + f
  <2>2. /\ VIRT_TO_PD_INDEX(v) = HighBase + d /\ d \in Nat
        /\ VIRT_TO_PD_INDEX(v) \in Dir
        /\ v >= KERNEL_BASE
    BY <2>1, HighAlias, PageParts, Layout, Sizes
  <2>3. Slot(v) = f
    BY <2>1, AliasSlot
  <2> HIDE DEF d
  <2>4. HighBase + d \in HighBase .. HighBase + LastTable
    BY <2>1, <2>2, Layout DEF d
  <2>5. page_dir[VIRT_TO_PD_INDEX(v)] # None
    BY <2>1, <2>2, <2>4 DEF Shape
  <2>6. Translate(v) = f
    BY <2>1, <2>3, <2>5, WalkIsSlot DEF Translate, Slot
  <2>7. \A s : s[1] = v => ~Gone(s)
    <3>1. VIRT_TO_PD_INDEX(v) \notin Above
      BY <2>2, <2>4, Layout DEF Above
    <3>2. VIRT_TO_PD_INDEX(v) \notin blocks
      BY <2>1, <3>1 DEF BlocksEntered
    <3> HIDE DEF v
    <3>3. \A n \in Replaced : n.page # v
      BY <3>2 DEF Replaced
    <3>4. QED
      BY <3>3 DEF Gone
  <2>8. \A s \in seen : s[1] = v => s[2] = f
    BY <2>1, <2>2, <2>3, <2>7 DEF SeenHold
  <2>9. Reached(v) = {f}
    <3>1. <<v, f>>[1] = v /\ <<v, f>>[2] = f /\ <<v, f>> \in seen
      BY <2>1
    <3> HIDE DEF v
    <3>2. QED
      BY <2>8, <3>1, Zenon DEF Reached
  <2>10. QED
    BY <2>6, <2>9
<1>2. IInv => KernelMapped
  BY <1>1 DEF KernelMapped, Needed
<1>3. QED
  BY <1>2, AlwaysIInv, PTL

\* get_page_table's use of a physical address as a pointer never reaches
\* anything but that table, and only the image's directories share tables.
THEOREM TablePointersAreExact == Spec => []TablePointersExact
<1>1. ASSUME IInv, NEW d \in Dir, page_dir[d] # None
      PROVE  /\ Reached(page_dir[d]) = {page_dir[d]}
             /\ \A e \in Dir : e < d /\ page_dir[e] = page_dir[d]
                                  => d = HighDir + (e - IdentDir)
  <2>1. Paging
    BY <1>1 DEF IInv, NothingYet
  <2>2. Shape(page_dir) /\ Lowest
    BY <1>1, <2>1 DEF IInv
  <2>3. page_dir[d] = TablesAt + TableIn(d) /\ TableIn(d) \in Dir
    BY <1>1, <2>2, TableInDir DEF Shape
  <2>4. Reached(page_dir[d]) = {page_dir[d]}
    BY <1>1, <2>1, <2>3, TableReached
  <2>5. ASSUME NEW e \in Dir, e < d, page_dir[e] = page_dir[d]
        PROVE  d = HighDir + (e - IdentDir)
    <3>1. page_dir[e] = TablesAt + TableIn(e) /\ TableIn(e) \in Dir
      BY <1>1, <2>2, <2>5, TableInDir DEF Shape
    <3>2. /\ HighBase \in Nat /\ LastTable \in Nat /\ LastTable < HighBase
          /\ d \in Nat /\ e \in Nat /\ TablesAt \in Nat
      BY Layout, Sizes DEF Dir
    <3>3. TableIn(d) = TableIn(e)
      <4> DEFINE x == TableIn(d)
                 y == TableIn(e)
      <4>1. x \in Nat /\ y \in Nat /\ TablesAt + x = TablesAt + y
        BY <2>3, <2>5, <3>1, Sizes DEF Dir
      <4> HIDE DEF x, y
      <4>2. x = y
        BY <3>2, <4>1
      <4>3. QED
        BY <4>2 DEF x, y
    <3>4. d = HighBase + e
      BY <2>5, <3>2, <3>3 DEF TableIn
    <3>5. QED
      BY <2>2, <3>2, <3>4 DEF Lowest
  <2>6. QED
    BY <2>4, <2>5
<1>2. IInv => TablePointersExact
  BY <1>1 DEF TablePointersExact
<1>3. QED
  BY <1>2, AlwaysIInv, PTL

\* Of the calls of map_page for a page the last one holds for good, and all of
\* them do outside the blocks somebody reserved.
THEOREM MappingsAlwaysHold == Spec => []MappingsHold
<1>1. ASSUME IInv, NEW m \in maps, m \notin Replaced
      PROVE  Translate(m.page) = m.frame
  <2>1. Paging
    BY <1>1 DEF IInv, NothingYet
  <2>2. Shape(page_dir) /\ m.page \in Page
    BY <1>1, <2>1 DEF IInv, TypeOK
  <2>3. page_dir[VIRT_TO_PD_INDEX(m.page)] # None /\ Slot(m.page) = m.frame
    BY <1>1, <2>1 DEF IInv, MapsHold
  <2>4. QED
    BY <2>2, <2>3, WalkIsSlot DEF Translate, Slot
<1>2. IInv => MappingsHold
  BY <1>1 DEF MappingsHold
<1>3. QED
  BY <1>2, AlwaysIInv, PTL

\* The kernel never flushes the TLB.  That is safe in the higher half but for
\* the pages of a reserved block that map_page has mapped more than once: every
\* other translation that was ever valid still is.
THEOREM StaleOnlyInIdentityMap == Spec => []StaleOnlyInIdentity
<1>1. ASSUME IInv, NEW s \in seen
      PROVE  \/ Translate(s[1]) = s[2]
             \/ s[1] < KERNEL_BASE
             \/ Gone(s)
  <2>1. Paging
    BY <1>1 DEF IInv, NothingYet
  <2>2. Shape(page_dir) /\ s[1] \in Page /\ s[1] \in Nat
    BY <1>1, <2>1, Layout DEF IInv, TypeOK
  <2>3. SUFFICES ASSUME s[1] >= KERNEL_BASE, ~Gone(s)
                 PROVE  Translate(s[1]) = s[2]
    BY <2>2, Sizes
  <2>4. page_dir[VIRT_TO_PD_INDEX(s[1])] # None /\ Slot(s[1]) = s[2]
    BY <1>1, <2>1, <2>3 DEF IInv, SeenHold
  <2>5. QED
    BY <2>2, <2>4, WalkIsSlot DEF Translate, Slot
<1>2. IInv => StaleOnlyInIdentity
  BY <1>1 DEF StaleOnlyInIdentity, Gone
<1>3. QED
  BY <1>2, AlwaysIInv, PTL

\* reserve_block returns a block in which nothing is mapped, and never one it
\* or map_page has used.
THEOREM ReservedBlocksAreFresh == Spec => ReservedBlocksFresh
<1> DEFINE Fresh(d) == /\ \A e \in Entry : page_tables'[page_dir'[d] - TablesAt][e] = None
                       /\ \A m \in maps : VIRT_TO_PD_INDEX(m.page) # d
<1>1. ASSUME IInv, reserve_block, NEW d \in blocks' \ blocks
      PROVE  Fresh(d)
  <2>1. Paging /\ page_tables' = page_tables
    BY <1>1 DEF reserve_block, Running, Paging
  <2>2. PICK b \in Above : /\ page_dir[b] = None
                           /\ page_dir' = load_page_table(page_dir, {b})
                           /\ blocks' = blocks \cup {b}
    BY <1>1, ReserveTakes
  <2>3. d = b /\ d \in Dir /\ d \in Nat
    BY <1>1, <2>2, Sizes DEF Above, Dir
  <2>4. page_dir'[d] - TablesAt = d
    <3>1. page_dir'[d] = TablesAt + d
      BY <2>2, <2>3 DEF load_page_table
    <3>2. QED
      BY <2>3, <3>1, Sizes
  <2>5. \A m \in maps : VIRT_TO_PD_INDEX(m.page) # d
    BY <1>1, <2>1, <2>2, <2>3 DEF IInv, MapsHold
  <2>6. ASSUME NEW e \in Entry
        PROVE  page_tables[d][e] = None
    <3> DEFINE v == d * Entries + e
    <3>1. /\ v \in Page /\ VIRT_TO_PD_INDEX(v) = d /\ VIRT_TO_PT_INDEX(v) = e
      BY <2>3, PageOf, Layout
    <3> HIDE DEF v
    <3>2. Slot(v) = page_tables[d][e]
      <4>1. TableIn(d) = d
        BY <2>2, <2>3, Layout DEF TableIn, Above
      <4>2. QED
        BY <3>1, <4>1 DEF Slot
    <3>3. \A m \in maps : m.page # v
      BY <2>5, <3>1
    <3>4. QED
      BY <1>1, <2>1, <2>2, <2>3, <3>1, <3>2, <3>3 DEF IInv, OnlyMapped
  <2>7. QED
    BY <2>1, <2>4, <2>5, <2>6
<1>2. ASSUME IInv, [Next]_vars, NEW d \in blocks' \ blocks
      PROVE  Fresh(d)
  <2>1. reserve_block
    BY <1>2 DEF Next, vars, setup_paging, clear_ident_map, map_anywhere, map_at
  <2>2. QED
    BY <1>1, <1>2, <2>1
<1>3. IInv /\ [Next]_vars
        => [\A d \in blocks' \ blocks : Fresh(d)]_vars
  BY <1>2
<1>4. QED
  BY <1>3, AlwaysIInv, PTL DEF Spec, ReservedBlocksFresh

-----------------------------------------------------------------------------
(* The higher half as a whole, and the page faults.                        *)

\* What is mapped in the higher half, on the word of setup_paging and of
\* map_page: the image and the boot information, and every page returned.
Known == (UNION {{<<KERNEL_BASE + f, f>> : f \in Needed(m)} : m \in boot})
         \cup {<<m.page, m.frame>> : m \in maps}

\* The translations of the higher half the TLB may hold are those and no others.
HigherHalfExact == Paging => {s \in seen : s[1] >= KERNEL_BASE} = Known

\* Before the identity map is cleared no access to a page table faults.
NoFaultBeforeClear == [][stage = "early" => stage' # "fault"]_vars

\* The same of every entry of the tables, whether or not its directory is
\* entered, in the form that each step keeps.
SlotsKnown ==
    \A v \in Page : v >= KERNEL_BASE /\ Slot(v) # None => <<v, Slot(v)>> \in Known
SeenKnown == \A s \in seen : s[1] >= KERNEL_BASE => s \in Known
MapsSeen  == \A m \in maps : <<m.page, m.frame>> \in seen

HInv == /\ IInv
        /\ Paging => SlotsKnown /\ SeenKnown /\ MapsSeen
        /\ stage = "early" => page_dir[0] # None

\* A step that leaves the tables, the TLB and the histories alone.
LEMMA SameTablesKnown ==
    ASSUME HInv, Paging,
           UNCHANGED <<page_tables, boot, seen, maps>>
    PROVE  SlotsKnown' /\ SeenKnown' /\ MapsSeen'
<1>1. Known' = Known
  BY DEF Known
<1>2. \A v : Slot(v)' = Slot(v)
  BY DEF Slot
<1>3. QED
  BY <1>1, <1>2 DEF HInv, SlotsKnown, SeenKnown, MapsSeen

\* setup_paging: the tables hold what is needed, at its higher-half page.
LEMMA SetupKnown ==
    ASSUME HInv, NEW m \in Infos, setup_paging(m)
    PROVE  HInv'
<1>1. IInv'
  BY SetupKeeps DEF HInv
<1>2. CASE ~Paging'
  BY <1>1, <1>2 DEF HInv, Paging
<1>3. CASE Paging'
  <2>1. /\ SharesFirstTable({VgaFrame})
        /\ SharesFirstTable(m.info) /\ SharesFirstTable(m.mmap)
        /\ page_dir' = SetupDir /\ page_tables' = SetupTables(m)
        /\ stage' = "early" /\ seen' = Current' /\ boot' = {m} /\ maps' = maps
    BY <1>3 DEF setup_paging, Paging
  <2>2. maps = {} /\ Lowest
    BY <2>1, LowestFromAsserts DEF HInv, IInv, setup_paging, Paging, NothingYet
  <2>3. ASSUME NEW v \in Page, v >= KERNEL_BASE, Slot(v)' # None
        PROVE  <<v, Slot(v)'>> \in Known'
    <3> DEFINE d == VIRT_TO_PD_INDEX(v)
               e == VIRT_TO_PT_INDEX(v)
               t == TableIn(d)
               x == t * Entries + e
    <3>1. /\ d \in Dir /\ t \in Dir /\ e \in Entry /\ v \in Nat /\ d >= HighBase
          /\ v = d * Entries + e
      BY <2>3, Layout, TableInDir, PageParts, HighPages
    <3>2. Slot(v)' = SetupTables(m)[t][e]
      BY <2>1 DEF Slot
    <3>3. x \in Needed(m) /\ Slot(v)' = x
      BY <2>1, <2>2, <2>3, <3>1, <3>2, SetupTablesEntry
    <3>4. VIRT_TO_PD_INDEX(x) <= LastTable
      BY <2>1, <2>2, <3>3, NeededIsLow
    <3>5. VIRT_TO_PD_INDEX(x) = t /\ t \in Nat /\ d \in Nat
      BY <3>1, PageOf, Sizes DEF Dir
    <3> HIDE DEF t
    <3>6. d = HighBase + t
      <4>1. t <= LastTable
        BY <3>4, <3>5
      <4> HIDE DEF d
      <4>2. t = IF d \in HighBase .. HighBase + LastTable THEN d - HighBase ELSE d
        BY DEF t, TableIn
      <4>3. QED
        BY <3>1, <3>5, <4>1, <4>2, Layout
    <3>7. v = KERNEL_BASE + x
      <4>1. KERNEL_BASE = HighBase * Entries /\ HighBase \in Nat /\ Entries \in Nat
        BY Layout, Sizes
      <4>2. (HighBase + t) * Entries = HighBase * Entries + t * Entries
        BY <3>5, <4>1, SMTT(30)
      <4>3. /\ t * Entries \in Nat /\ HighBase * Entries \in Nat /\ e \in Nat
        BY <3>1, <3>5, <4>1, SMTT(30) DEF Entry
      <4> DEFINE a == t * Entries
                 b == HighBase * Entries
                 c == d * Entries
      <4>4. c = b + a /\ v = c + e /\ KERNEL_BASE = b /\ x = a + e /\ a \in Nat /\ b \in Nat
        BY <3>1, <3>6, <4>1, <4>2, <4>3
      <4> HIDE DEF a, b, c, d, e, x
      <4>5. QED
        BY <4>3, <4>4
    <3> HIDE DEF x, e, d
    <3>8. <<KERNEL_BASE + x, x>> \in Known'
      BY <2>1, <3>3 DEF Known, Needed
    <3>9. QED
      BY <3>3, <3>7, <3>8
  <2>4. SlotsKnown'
    BY <2>3 DEF SlotsKnown
  <2>5. SeenKnown'
    <3>1. ASSUME NEW s \in Current', s[1] >= KERNEL_BASE
          PROVE  s \in Known'
      <4>1. PICK w \in Page : Translate(w)' # None /\ s = <<w, Translate(w)'>>
        BY <3>1 DEF Current
      <4>2. Translate(w)' = Slot(w)'
        <5>1. Shape(page_dir')
          BY <1>1, <1>3 DEF IInv, Shape
        <5>2. QED
          BY <4>1, <5>1, WalkIsSlot DEF Translate, Slot
      <4>3. w >= KERNEL_BASE
        BY <3>1, <4>1
      <4>4. QED
        BY <2>3, <4>1, <4>2, <4>3
    <3>2. QED
      BY <2>1, <3>1 DEF SeenKnown
  <2>6. MapsSeen'
    BY <2>1, <2>2 DEF MapsSeen
  <2>7. page_dir'[0] # None
    BY <2>1, <2>2, SetupDirShape
  <2>8. QED
    BY <1>1, <2>4, <2>5, <2>6, <2>7 DEF HInv
<1>4. QED
  BY <1>2, <1>3

\* A call of map_page that does not fault adds the page it returns, and what
\* the walk then finds for it.
LEMMA WriteKnown ==
    ASSUME HInv, NEW A \in SUBSET Above, NEW D \in SUBSET Dir,
           NEW v \in Page, NEW f \in Frames,
           Writes(A, D, v, f), stage' # "fault"
    PROVE  SlotsKnown' /\ SeenKnown' /\ MapsSeen'
<1> DEFINE r == [page |-> v, frame |-> f, call |-> calls]
<1>1. /\ IInv /\ Paging /\ v >= KERNEL_BASE /\ boot' = boot
      /\ SlotsKnown /\ SeenKnown /\ MapsSeen
      /\ Slot(v) = None \/ VIRT_TO_PD_INDEX(v) \in Above
  BY DEF HInv, IInv, Writes, Running, Paging, BlocksEntered
<1>2. /\ Shape(page_dir') /\ page_dir' = load_page_table(page_dir, A)
      /\ \A d \in Dir : page_dir[d] # None => page_dir'[d] # None
      /\ page_dir'[VIRT_TO_PD_INDEX(v)] # None
      /\ page_tables' = [page_tables EXCEPT
           ![TableIn(VIRT_TO_PD_INDEX(v))] =
               [page_tables[TableIn(VIRT_TO_PD_INDEX(v))] EXCEPT
                    ![VIRT_TO_PT_INDEX(v)] = f]]
      /\ maps' = maps \cup {[page |-> v, frame |-> f, call |-> calls]}
      /\ seen' = seen \cup Current'
      /\ stage' = stage
  <2>1. IInv
    BY <1>1
  <2> HIDE DEF r
  <2>2. QED
    BY <2>1, WriteEffect
<1>3. /\ Slot(v)' = f
      /\ \A w \in Page : w # v /\ (w >= KERNEL_BASE \/ Slot(w) # None)
                           => Slot(w)' = Slot(w)
  BY <1>1, <1>2, SlotsAfterWrite
<1>4. f \in Page /\ f # None
  BY GeometryAssumption, Layout DEF None
<1>5. r.page = v /\ r.frame = f
  OBVIOUS
<1>added. maps' = maps \cup {r}
  BY <1>2
<1> HIDE DEF r
<1>6. Known \subseteq Known' /\ <<v, f>> \in Known'
  BY <1>1, <1>added, <1>5 DEF Known, Needed
<1>7. ASSUME NEW w \in Page, w >= KERNEL_BASE, Slot(w)' # None
      PROVE  <<w, Slot(w)'>> \in Known'
  <2>1. CASE w = v
    BY <1>3, <1>6, <2>1
  <2>2. CASE w # v
    BY <1>1, <1>3, <1>6, <1>7, <2>2 DEF SlotsKnown
  <2>3. QED
    BY <2>1, <2>2
<1>8. SlotsKnown'
  BY <1>7 DEF SlotsKnown
<1>9. \A w \in Page : Translate(w)' = IF page_dir'[VIRT_TO_PD_INDEX(w)] = None
                                      THEN None ELSE Slot(w)'
  BY <1>2, WalkIsSlot DEF Translate, Slot
<1>10. SeenKnown'
  <2>1. ASSUME NEW s \in Current', s[1] >= KERNEL_BASE
        PROVE  s \in Known'
    <3>1. PICK w \in Page : Translate(w)' # None /\ s = <<w, Translate(w)'>>
      BY <2>1 DEF Current
    <3>2. Translate(w)' = Slot(w)' /\ w >= KERNEL_BASE
      BY <1>9, <2>1, <3>1
    <3>3. QED
      BY <1>7, <3>1, <3>2
  <2>2. ASSUME NEW s \in seen, s[1] >= KERNEL_BASE
        PROVE  s \in Known'
    BY <1>1, <1>6, <2>2 DEF SeenKnown
  <2>3. QED
    BY <1>2, <2>1, <2>2 DEF SeenKnown
<1>11. MapsSeen'
  <2>1. Translate(v)' = f
    BY <1>2, <1>3, <1>9
  <2>2. <<v, f>> \in Current'
    BY <1>4, <2>1 DEF Current
  <2>3. ASSUME NEW m \in maps'
        PROVE  <<m.page, m.frame>> \in seen'
    BY <1>1, <1>2, <1>added, <1>5, <2>2 DEF MapsSeen
  <2>4. QED
    BY <2>3 DEF MapsSeen
<1>12. QED
  BY <1>8, <1>10, <1>11

\* While the identity map is there every page table is found at its frame, so
\* no call of map_page faults.
LEMMA WriteDoesNotFault ==
    ASSUME HInv, stage = "early", NEW A \in SUBSET Above, NEW D \in SUBSET Dir,
           NEW v \in Page, NEW f \in Frames,
           Writes(A, D, v, f)
    PROVE  stage' # "fault"
<1> DEFINE pd == load_page_table(page_dir, A)
           last == VIRT_TO_PD_INDEX(v)
<1>1. IInv /\ Paging /\ Shape(page_dir) /\ page_dir[0] # None
  BY DEF HInv, IInv, Paging
<1>2. /\ Shape(pd)
      /\ \A d \in Dir : page_dir[d] # None \/ d \in A => pd[d] # None
  BY <1>1, LoadShape
<1>3. last \in Dir /\ 0 \in Dir
  BY Layout, Sizes DEF Dir
<1>4. ASSUME NEW d \in D \cup {last}
      PROVE  Walk(pd, page_tables, get_page_table(pd, d)) # None
  <2>1. d \in Dir /\ pd[d] # None
    BY <1>2, <1>3 DEF Writes
  <2> DEFINE t == TableIn(d)
             g == TablesAt + t
  <2>2. get_page_table(pd, d) = g /\ t \in Dir
    BY <1>2, <2>1, TableInDir DEF get_page_table, Shape
  <2>3. g \in Kernel /\ g \in Page /\ g \in Nat
    <3>1. g \in Kernel
      BY <1>1, <2>2, TableReached
    <3>2. g \in Nat /\ g < KERNEL_BASE
      BY <3>1, Layout
    <3>3. QED
      BY <3>1, <3>2, Sizes DEF Page
  <2> HIDE DEF g, t
  <2>4. VIRT_TO_PD_INDEX(g) \in 0 .. LastTable /\ VIRT_TO_PD_INDEX(g) \in Dir
    BY <2>3, Layout, PageParts
  <2>5. pd[VIRT_TO_PD_INDEX(g)] # None
    <3>1. CASE VIRT_TO_PD_INDEX(g) = 0
      BY <1>1, <1>2, <1>3, <3>1
    <3>2. CASE VIRT_TO_PD_INDEX(g) # 0
      BY <1>2, <2>4, <3>2, Layout DEF Shape
    <3>3. QED
      BY <3>1, <3>2
  <2>6. Slot(g) = g
    <3>1. PICK m \in boot : TRUE
      BY <1>1 DEF IInv
    <3>2. QED
      BY <1>1, <2>3, <3>1 DEF IInv, ImageMapped, Needed
  <2>7. Walk(pd, page_tables, g) = g
    BY <1>2, <2>3, <2>5, <2>6, WalkIsSlot DEF Slot
  <2>8. QED
    BY <2>2, <2>3, <2>7 DEF None
<1>5. QED
  BY <1>4 DEF WriteEntry, Writes

\* Every step keeps the invariant.
LEMMA StepKnown ==
    ASSUME HInv, [Next]_vars
    PROVE  HInv'
<1>1. IInv'
  BY StepKeeps DEF HInv
<1>2. CASE \E m \in Infos : setup_paging(m)
  BY <1>2, SetupKnown
<1>3. CASE clear_ident_map
  <2>1. Paging /\ stage' = "main" /\ UNCHANGED <<page_tables, boot, seen, maps>>
    BY <1>3 DEF clear_ident_map, Paging
  <2>2. QED
    BY <1>1, <2>1, SameTablesKnown DEF HInv
<1>4. CASE reserve_block
  <2>1. Paging /\ UNCHANGED <<page_tables, boot, seen, maps, stage>>
    BY <1>4 DEF reserve_block, Running, Paging
  <2>2. page_dir[0] # None => page_dir'[0] # None
    <3>1. PICK d \in Dir : page_dir' = load_page_table(page_dir, {d})
      BY <1>4 DEF reserve_block
    <3>2. 0 \in Dir
      BY Sizes DEF Dir
    <3>3. page_dir'[0] = IF 0 \in {d} THEN TablesAt + 0 ELSE page_dir[0]
      BY <3>1, <3>2 DEF load_page_table
    <3>4. TablesAt + 0 # None
      BY Sizes DEF None
    <3>5. QED
      BY <3>3, <3>4
  <2>3. QED
    BY <1>1, <2>1, <2>2, SameTablesKnown DEF HInv
<1>5. CASE \/ \E f \in Frames : map_anywhere(f)
           \/ \E v \in Page, f \in Frames : map_at(v, f)
  <2>1. PICK A \in SUBSET Above, D \in SUBSET Dir, v \in Page, f \in Frames : Writes(A, D, v, f)
    BY <1>5, MapCalls DEF HInv
  <2>2. Running /\ Paging /\ boot' = boot
    BY <2>1 DEF Writes, Running, Paging
  <2>3. CASE stage' = "fault"
    <3>1. UNCHANGED <<page_tables, seen, maps>>
      BY <2>1, <2>2, <2>3 DEF Writes, WriteEntry, Running
    <3>2. QED
      BY <1>1, <2>2, <2>3, <3>1, SameTablesKnown DEF HInv
  <2>4. CASE stage' # "fault"
    <3>1. SlotsKnown' /\ SeenKnown' /\ MapsSeen'
      BY <2>1, <2>4, WriteKnown
    <3>2. /\ stage' = stage
          /\ \A d \in Dir : page_dir[d] # None => page_dir'[d] # None
      BY <2>1, <2>4, WriteEffect DEF HInv
    <3>3. 0 \in Dir
      BY Sizes DEF Dir
    <3>4. QED
      BY <1>1, <3>1, <3>2, <3>3 DEF HInv
  <2>5. QED
    BY <2>3, <2>4
<1>6. CASE UNCHANGED vars
  <2>1. CASE Paging
    BY <1>1, <1>6, <2>1, SameTablesKnown DEF vars, HInv
  <2>2. CASE ~Paging
    BY <1>1, <1>6, <2>2 DEF vars, HInv, Paging
  <2>3. QED
    BY <2>1, <2>2
<1>7. QED
  BY <1>2, <1>3, <1>4, <1>5, <1>6 DEF Next

THEOREM AlwaysHInv == Spec => []HInv
<1>1. Init => HInv
  BY InitIInv DEF Init, HInv, Paging
<1>2. HInv /\ [Next]_vars => HInv'
  BY StepKnown
<1>3. QED
  BY <1>1, <1>2, PTL DEF Spec

\* The TLB can lead a higher-half address to nothing but the image, the boot
\* information and what map_page has returned, and each of these it may hold:
\* scans, blocks, faults and the missing flush add nothing and lose nothing.
THEOREM HigherHalfIsExact == Spec => []HigherHalfExact
<1>1. ASSUME HInv, Paging, NEW p \in Known
      PROVE  p \in seen /\ p[1] >= KERNEL_BASE
  <2>1. CASE \E m \in boot : p \in {<<KERNEL_BASE + f, f>> : f \in Needed(m)}
    <3>1. PICK m \in boot : \E f \in Needed(m) : p = <<KERNEL_BASE + f, f>>
      BY <2>1
    <3> PICK f \in Needed(m) : p = <<KERNEL_BASE + f, f>>
      BY <3>1
    <3>2. f \in Nat /\ p \in seen
      BY <1>1 DEF HInv, IInv, ImageMapped
    <3>3. QED
      BY <3>2, Sizes
  <2>2. CASE p \in {<<m.page, m.frame>> : m \in maps}
    <3>1. PICK m \in maps : p = <<m.page, m.frame>>
      BY <2>2
    <3>2. p \in seen /\ m.page >= KERNEL_BASE
      BY <1>1, <3>1 DEF HInv, MapsSeen, IInv, MapsHold
    <3>3. QED
      BY <3>1, <3>2
  <2>3. QED
    BY <1>1, <2>1, <2>2 DEF Known
<1>2. ASSUME HInv, Paging
      PROVE  {s \in seen : s[1] >= KERNEL_BASE} = Known
  <2>1. {s \in seen : s[1] >= KERNEL_BASE} \subseteq Known
    BY <1>2 DEF HInv, SeenKnown
  <2>2. QED
    BY <1>1, <1>2, <2>1
<1>3. HInv => HigherHalfExact
  BY <1>2 DEF HigherHalfExact
<1>4. QED
  BY <1>3, AlwaysHInv, PTL

\* The page tables are used by their physical addresses.  Until clear_ident_map
\* no call of the allocator can fault on one.
THEOREM NoFaultBeforeIdentityIsCleared == Spec => NoFaultBeforeClear
<1>1. HInv /\ [Next]_vars => (stage = "early" => stage' # "fault")
  <2> SUFFICES ASSUME HInv, [Next]_vars, stage = "early"
               PROVE  stage' # "fault"
    OBVIOUS
  <2>1. CASE \/ \E f \in Frames : map_anywhere(f)
             \/ \E v \in Page, f \in Frames : map_at(v, f)
    <3>1. PICK A \in SUBSET Above, D \in SUBSET Dir, v \in Page, f \in Frames : Writes(A, D, v, f)
      BY <2>1, MapCalls DEF HInv
    <3>2. QED
      BY <3>1, WriteDoesNotFault
  <2>2. CASE ~ \/ \E f \in Frames : map_anywhere(f)
               \/ \E v \in Page, f \in Frames : map_at(v, f)
    BY <2>2 DEF Next, vars, setup_paging, clear_ident_map, reserve_block
  <2>3. QED
    BY <2>1, <2>2
<1>2. QED
  BY <1>1, AlwaysHInv, PTL DEF Spec, NoFaultBeforeClear

=============================================================================
