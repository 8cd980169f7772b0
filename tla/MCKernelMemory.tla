--------------------------- MODULE MCKernelMemory ---------------------------
(***************************************************************************)
(* 192 pages: words and chunks of four, blocks of 32, so that the heap is  *)
(* one block of eight chunks.  The image, mostly page tables, lies across  *)
(* the end of the first block, and the boot information in low memory that *)
(* is available.  Memory: plenty, eight usable words and one that page 0   *)
(* spoils, one word less.                                                  *)
(***************************************************************************)
EXTENDS KernelMemory

R(a, l, t) == [addr |-> a, len |-> l, type |-> t]

Plenty == {R(0, 192, "available")}
Exact  == {R(0, 8, "available"), R(8, 4, "reserved"), R(12, 52, "available"),
           R(64, 128, "nvs")}
Short  == {R(0, 8, "available"), R(8, 4, "reserved"), R(12, 28, "available"),
           R(41, 23, "available"), R(40, 1, "badram"), R(64, 128, "nvs")}
MCMmaps == {Plenty, Exact, Short}
MCKernelRegion == R(12, 24, "reserved")
MCVgaRegion == R(10, 1, "reserved")

MCInfos == {[info |-> {7}, mmap |-> {6, 7}],
            [info |-> {5}, mmap |-> {40}]}
=============================================================================
