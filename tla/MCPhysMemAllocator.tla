------------------------ MODULE MCPhysMemAllocator ------------------------
(***************************************************************************)
(* Five words of two bytes of two pages (20 pages), addressed in half      *)
(* pages.  The maps start and end regions inside a page, overlap them,     *)
(* and leave page 0 free or take it; the kernel and the text buffer split  *)
(* the middle words, the first and the last can be wholly free.            *)
(***************************************************************************)
EXTENDS PhysMemAllocator

R(a, l, t) == [addr |-> a, len |-> l, type |-> t]

\* low memory, a reserved half page below ACPI memory, RAM to the end
MapLow == {R(0, 11, "available"), R(11, 1, "reserved"),
           R(12, 4, "acpi_reclaimable"), R(16, 24, "available")}
\* half of page 0 reserved, two regions overlapping inside a page
MapBios == {R(0, 1, "reserved"), R(1, 34, "available"),
            R(33, 3, "nvs"), R(35, 3, "badram")}
\* everything available
MapAll == {R(0, 40, "available")}

MCMmaps == {MapLow, MapBios, MapAll}
MCKernelRegion == R(17, 2, "reserved")
MCVgaRegion == R(15, 1, "reserved")
=============================================================================
