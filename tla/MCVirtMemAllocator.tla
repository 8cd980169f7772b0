------------------------- MODULE MCVirtMemAllocator -------------------------
(***************************************************************************)
(* Eight directories of eight pages, the higher half from the fifth on.    *)
(* As in the real image, page tables make up most of the kernel: it fills  *)
(* the rest of the first block and most of the second, so that the tables  *)
(* of the first directories lie in one block and the last in another.      *)
(***************************************************************************)
EXTENDS VirtMemAllocator

Boot(i, m) == [info |-> i, mmap |-> m]

\* below the image; with a memory map of two pages, one shared; past the
\* image, where the asserts of setup_paging stop the boot
MCInfos == {Boot({0}, {1}), Boot({1}, {0, 1}), Boot({1}, {15})}
OneInfo == {Boot({1}, {1})}
MCFrames == {20, 21}
=============================================================================
