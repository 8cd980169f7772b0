-------------------------- MODULE MCHeapAllocator --------------------------
(***************************************************************************)
(* A scaled-down heap with the real header, alignment and slot sizes: 56,  *)
(* 24 and 8 slots and a block area of four pages of 64 bytes.  Requests    *)
(* fall through every slab and out of the heap, lie on both sides of the   *)
(* alignment, fit only the empty area (192) or never (193 and more, the    *)
(* last ones around the size of the heap).                                 *)
(***************************************************************************)
EXTENDS HeapAllocator

MCRequests == {8, 32, 33, 64, 65, 128, 192, 193, 1792, 1793}
=============================================================================
