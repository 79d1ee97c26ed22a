-------------------------------- MODULE MCHeap --------------------------------
(* A heap of 96 bytes: room for three blocks with a header, for grants that *)
(* split a block and grants that take it whole, and two calls of kmalloc_a. *)
EXTENDS HeapRefinement

MCRequests == {0, 6, 20, 68}

ASSUME NoWrap
=============================================================================
