------------------------- MODULE VirtMemAllocator -------------------------
(***************************************************************************)
(* Paging: the tables setup_paging builds before paging is on              *)
(* (pre_kernel.cpp), the allocator that takes them over                    *)
(* (virt_mem_allocator.cpp), and what the processor makes of them.         *)
(*                                                                         *)
(* Addresses are page numbers.  A page directory entry is the frame of a   *)
(* page table or None; a page table entry is a frame or None.  The kernel  *)
(* never flushes the TLB after paging is on, so the processor may use any  *)
(* translation that was ever valid: seen is the set of them.               *)
(***************************************************************************)
EXTENDS Integers, FiniteSets

CONSTANTS
    Dirs,           \* entries of the page directory, and page tables (1024)
    Entries,        \* entries of a page table (1024)
    KERNEL_BASE,    \* first page of the higher half
    KernelStart, KernelEnd,   \* frames of the image: Start .. End - 1
    TablesAt,       \* frame of init_page_tables, inside the image
    VgaFrame,       \* TERM_BUFFER
    GdtFrame,       \* init_gdt, in the image; GDTR holds its physical address
    Infos,          \* what GRUB may pass: [info, mmap : first .. last frame]
    Frames,         \* frames the callers of map_page bring
    MaxCalls        \* bound: calls of map_page

Page  == 0 .. Dirs * Entries - 1     \* virtual pages, and frames
Dir   == 0 .. Dirs - 1
Entry == 0 .. Entries - 1
None  == -1

VIRT_TO_PD_INDEX(v) == v \div Entries
VIRT_TO_PT_INDEX(v) == v % Entries

Kernel == KernelStart .. KernelEnd - 1
IdentDir == VIRT_TO_PD_INDEX(KernelStart)
HighDir  == VIRT_TO_PD_INDEX(KERNEL_BASE + KernelStart)

ASSUME GeometryAssumption ==
    /\ Dirs \in Nat \ {0} /\ Entries \in Nat \ {0}
    /\ KERNEL_BASE \in Page /\ KERNEL_BASE % Entries = 0
    /\ KernelStart \in Nat /\ KernelEnd \in Nat
    /\ KernelStart < KernelEnd /\ KernelEnd <= KERNEL_BASE
    /\ KERNEL_BASE + KernelEnd <= Dirs * Entries
    /\ TablesAt \in Kernel /\ TablesAt + Dirs <= KernelEnd
    /\ Entries < KernelEnd   \* the tables alone are as many as its entries
    /\ GdtFrame \in Kernel
    /\ VgaFrame \in 0 .. Entries - 1 \ Kernel
    /\ Frames \subseteq Page
    /\ MaxCalls \in Nat

\* GRUB passes two structures, each in one piece and outside the image.
ASSUME InfosAssumption ==
    \A m \in Infos : \A S \in {m.info, m.mmap} :
        /\ \E a \in 0 .. KERNEL_BASE - 1 : \E b \in a .. KERNEL_BASE - 1 : S = a .. b
        /\ S \cap Kernel = {}

\* The calls cannot use up the higher half: above the tables of the image
\* there is an entry for each (init_heap_pages, the only caller of map_page,
\* fills one block).
ASSUME RoomAssumption ==
    KERNEL_BASE + (VIRT_TO_PD_INDEX(KernelEnd - 1) + 1) * Entries + MaxCalls
        <= Dirs * Entries

VARIABLES
    page_dir,     \* [Dir -> frame of a page table, or None]
    page_tables,  \* [Dir -> [Entry -> frame or None]]: all of init_page_tables
    stage,        \* "real", "early" (paging on), "main" (identity map cleared),
                  \* "hang" (assert failed; a release has none and stops at
                  \* its first access), "fault" (page fault in the kernel)
    boot,         \* history: the Infos element of this boot
    seen,         \* <<page, frame>>: translations the TLB may still hold
    blocks,       \* history: the directories reserve_block returned
    maps,         \* history: every page map_page returned, the frame it was
                  \* mapped to, and the number of the call
    calls         \* calls of map_page so far

vars == <<page_dir, page_tables, stage, boot, seen, blocks, maps, calls>>

TypeOK ==
    /\ page_dir \in [Dir -> TablesAt .. TablesAt + Dirs - 1 \cup {None}]
    /\ page_tables \in [Dir -> [Entry -> Page \cup {None}]]
    /\ stage \in {"real", "early", "main", "hang", "fault"}
    /\ seen \subseteq Page \X Page
    /\ maps \subseteq [page : Page, frame : Frames, call : 0 .. MaxCalls - 1]
    /\ blocks \subseteq Dir
    /\ calls \in 0 .. MaxCalls

-----------------------------------------------------------------------------
(* The processor.                                                          *)

\* The walk: page tables are found by frame, in init_page_tables or nowhere.
Walk(pd, pt, v) ==
    LET f == pd[VIRT_TO_PD_INDEX(v)]
    IN  IF f \in TablesAt .. TablesAt + Dirs - 1
        THEN pt[f - TablesAt][VIRT_TO_PT_INDEX(v)]
        ELSE None
Translate(v) == Walk(page_dir, page_tables, v)

Current == {<<v, Translate(v)>> : v \in {v \in Page : Translate(v) # None}}

\* The frames an access to page v may reach.
Reached(v) == {s[2] : s \in {s \in seen : s[1] = v}}

-----------------------------------------------------------------------------
(* pre_kernel.cpp                                                          *)

\* The table, counted from the first, that setup_paging uses for frame f.
TableOf(f) == VIRT_TO_PD_INDEX(f) - IdentDir

\* Slip: the directory entry does not move on with the table.
SetupDirOneTable ==
    [d \in Dir |->
        IF \E f \in Kernel : d \in {VIRT_TO_PD_INDEX(f), HighDir + TableOf(f)}
        THEN TablesAt
        ELSE None]

\* One table per directory the image touches, entered for the identity and
\* for the higher half.
SetupDir ==
    [d \in Dir |->
        IF \E f \in Kernel : d \in {VIRT_TO_PD_INDEX(f), HighDir + TableOf(f)}
        THEN TablesAt + TableOf(CHOOSE f \in Kernel :
                 d \in {VIRT_TO_PD_INDEX(f), HighDir + TableOf(f)})
        ELSE None]

\* The pages of the text buffer and of the boot information go into the
\* first table, at their index within it.
SetupTables(m) ==
    [t \in Dir |-> [e \in Entry |->
        LET image == {f \in Kernel : TableOf(f) = t /\ VIRT_TO_PT_INDEX(f) = e}
            other == {f \in {VgaFrame} \cup m.info \cup m.mmap :
                          t = 0 /\ VIRT_TO_PT_INDEX(f) = e}
        IN  IF other # {} THEN CHOOSE f \in other : TRUE
            ELSE IF image # {} THEN CHOOSE f \in image : TRUE
            ELSE None]]

\* The asserts look at the first page of each structure only.
FirstOf(S) == CHOOSE f \in S : \A g \in S : f <= g
SharesFirstTable(S) == VIRT_TO_PD_INDEX(KERNEL_BASE + FirstOf(S)) = HighDir

Init ==
    /\ page_dir = [d \in Dir |-> None]
    /\ page_tables = [t \in Dir |-> [e \in Entry |-> None]]
    /\ stage = "real"
    /\ boot = {}
    /\ seen = {}
    /\ blocks = {}
    /\ maps = {}
    /\ calls = 0

\* setup_paging and the load of CR3 and CR0 in init_paging, then
\* VirtMemAllocator::init_page_dir, which only takes the tables over.
setup_paging(m) ==
    /\ stage = "real"
    /\ boot' = {m}
    /\ IF SharesFirstTable({VgaFrame}) /\ SharesFirstTable(m.info)
                                       /\ SharesFirstTable(m.mmap)
       THEN /\ page_dir' = SetupDir
            /\ page_tables' = SetupTables(m)
            /\ stage' = "early"
            /\ seen' = Current'
       ELSE stage' = "hang" /\ UNCHANGED <<page_dir, page_tables, seen>>
    /\ UNCHANGED <<blocks, maps, calls>>

-----------------------------------------------------------------------------
(* virt_mem_allocator.cpp                                                  *)

Running == stage \in {"early", "main"}

\* Slip: the index is taken of the kernel's virtual address.
ClearsHighDir ==
    /\ stage = "early"
    /\ stage' = "main"
    /\ page_dir' = [page_dir EXCEPT ![HighDir] = None]
    /\ UNCHANGED <<page_tables, boot, seen, blocks, maps, calls>>

clear_ident_map ==
    /\ stage = "early"
    /\ stage' = "main"
    /\ page_dir' = [page_dir EXCEPT ![IdentDir] = None]
    /\ UNCHANGED <<page_tables, boot, seen, blocks, maps, calls>>

\* Slips: the address of the table stays virtual; the index is not scaled by
\* the size of a table.
LoadsVirtual(pd, D) ==
    [d \in Dir |-> IF d \in D THEN KERNEL_BASE + TablesAt + d ELSE pd[d]]
LoadsFirstTable(pd, D) == [d \in Dir |-> IF d \in D THEN TablesAt ELSE pd[d]]

load_page_table(pd, D) == [d \in Dir |-> IF d \in D THEN TablesAt + d ELSE pd[d]]

\* get_page_table follows a physical address as if it were virtual: an entry
\* that is not there gives address 0.
get_page_table(pd, d) == IF pd[d] = None THEN 0 ELSE pd[d]

\* When no directory is left it returns nullptr and changes nothing.
reserve_block ==
    /\ Running
    /\ LET first == VIRT_TO_PD_INDEX(KERNEL_BASE + KernelStart + Entries - 1)
           free == {d \in Dir : d >= first /\ page_dir[d] = None}
       IN  /\ free # {}
           /\ \E d \in free :
                /\ \A e \in free : d <= e
                /\ page_dir' = load_page_table(page_dir, {d})
                /\ blocks' = blocks \cup {d}
    /\ UNCHANGED <<page_tables, stage, boot, seen, maps, calls>>

\* find_free_virt_page: the first page from the kernel's on whose entry is
\* empty; the tables of the directories it looks at are loaded on the way.
\* Slip: the scan looks in the directory's own table, not the one entered.
EmptyInOwnTable(v) == page_tables[VIRT_TO_PD_INDEX(v)][VIRT_TO_PT_INDEX(v)] = None
Empty(v) ==
    LET d == VIRT_TO_PD_INDEX(v)
        t == IF page_dir[d] = None THEN d ELSE page_dir[d] - TablesAt
    IN  page_tables[t][VIRT_TO_PT_INDEX(v)] = None
FreePages == {v \in Page : v >= KERNEL_BASE + KernelStart /\ Empty(v)}
find_free_virt_page ==
    IF FreePages = {} THEN 0 ELSE FirstOf(FreePages)
Scanned ==
    {d \in Dir : /\ d >= HighDir
                 /\ FreePages # {} =>
                      d <= VIRT_TO_PD_INDEX(find_free_virt_page)}

\* The access to the tables of directories D in order, ending with the write
\* of the entry of page v; pd is the directory after the scan.  A table that
\* only the TLB still knows may be reached, or fault.
WriteEntry(pd, D, v, f) ==
    LET last == VIRT_TO_PD_INDEX(v)
        Missing(d) == Walk(pd, page_tables, get_page_table(pd, d)) = None
    IN  \/ \E d \in D \cup {last} :
              /\ Missing(d)
              /\ stage' = "fault"
              /\ page_dir' = [e \in Dir |-> IF e <= d THEN pd[e] ELSE page_dir[e]]
              /\ UNCHANGED <<page_tables, seen, maps>>
        \/ /\ \A d \in D : Reached(get_page_table(pd, d)) # {}
           /\ page_dir' = pd
           /\ \E g \in Reached(get_page_table(pd, last)) :
                page_tables' =
                  [t \in Dir |->
                     IF TablesAt + t = g
                     THEN [page_tables[t] EXCEPT ![VIRT_TO_PT_INDEX(v)] = f]
                     ELSE page_tables[t]]
           /\ maps' = IF v = 0 THEN maps
                      ELSE maps \cup {[page |-> v, frame |-> f, call |-> calls]}
           /\ seen' = seen \cup Current'
           /\ UNCHANGED stage

\* map_page(nullptr, f).  When nothing is free the scan returns the null page
\* and map_page goes on with it.
map_anywhere(f) ==
    /\ Running
    /\ calls < MaxCalls
    /\ WriteEntry(load_page_table(page_dir, {d \in Scanned : page_dir[d] = None}),
                  Scanned, find_free_virt_page, f)
    /\ calls' = calls + 1
    /\ UNCHANGED <<boot, blocks>>

\* map_page(v, f).  The caller chooses pages of a block it has reserved, as
\* init_heap_pages does; map_page does not look whether v is in use, and so
\* replaces the frame of a page it has returned before.
map_at(v, f) ==
    /\ Running
    /\ calls < MaxCalls
    /\ VIRT_TO_PD_INDEX(v) \in blocks
    /\ WriteEntry(page_dir, {}, v, f)
    /\ calls' = calls + 1
    /\ UNCHANGED <<boot, blocks>>

Next ==
    \/ \E m \in Infos : setup_paging(m)
    \/ clear_ident_map
    \/ reserve_block
    \/ \E f \in Frames : map_anywhere(f)
    \/ \E v \in Page, f \in Frames : map_at(v, f)

Spec == Init /\ [][Next]_vars

-----------------------------------------------------------------------------
(* Properties.                                                             *)

Paging == stage \in {"early", "main", "fault"}

\* From the moment paging is on, the image, the text buffer and the boot
\* information are at their higher-half addresses, and nowhere does the TLB
\* know better: no call of the allocator ever touches those entries.
KernelMapped ==
    Paging => \A m \in boot : \A f \in Kernel \cup {VgaFrame} \cup m.info \cup m.mmap :
        Translate(KERNEL_BASE + f) = f /\ Reached(KERNEL_BASE + f) = {f}

\* get_page_table uses physical addresses as pointers.  Whenever such an
\* access goes through it reaches that very table, and no two directories
\* share a table but those of the identity map and of the higher half.
TablePointersExact ==
    \A d \in Dir : page_dir[d] # None =>
        /\ Reached(page_dir[d]) = {page_dir[d]}
        /\ \A e \in Dir : e < d /\ page_dir[e] = page_dir[d] => d = HighDir + (e - IdentDir)

\* What a later call of map_page for the same page has replaced, in a block
\* somebody reserved.
Latest == {m \in maps : \A n \in maps : n.page = m.page => n.call <= m.call}
Replaced == {m \in maps \ Latest : VIRT_TO_PD_INDEX(m.page) \in blocks}

\* Of all calls of map_page for a page the last one holds, whatever was mapped,
\* reserved or cleared since; and outside reserved blocks they all do, so that
\* map_page(nullptr) never takes a page it has already returned.
\* virt_mem_allocator.h:27-28 promises more, "If `virt_page` is unavailable,
\* returns `nullptr`": map_page never looks, and in a reserved block a later call
\* replaces the mapping of an earlier one.
MappingsHold == \A m \in maps \ Replaced : Translate(m.page) = m.frame

\* When to flush (the question of virt_mem_allocator.cpp:9): a translation the
\* TLB may hold is still valid unless it is of the identity map, or one that a
\* later call of map_page for a page of a reserved block has replaced.
StaleOnlyInIdentity ==
    \A s \in seen : \/ Translate(s[1]) = s[2]
                    \/ s[1] < KERNEL_BASE
                    \/ \E m \in Replaced : s = <<m.page, m.frame>>

\* reserve_block returns a block in which nothing is mapped, and never one it
\* or map_page has used.
ReservedBlocksFresh ==
    [][\A d \in blocks' \ blocks :
          /\ \A e \in Entry : page_tables'[page_dir'[d] - TablesAt][e] = None
          /\ \A m \in maps : VIRT_TO_PD_INDEX(m.page) # d]_vars

\* The processor reads the GDT, at the address GDTR holds, whenever a gate
\* loads the code selector: it must be mapped while interrupts can come.
GdtMapped == stage \in {"early", "main"} => Translate(GdtFrame) = GdtFrame
=============================================================================
