----------------------------- MODULE HeapRefinement -----------------------------
(***************************************************************************)
(* The block list implements the allocator's promise, as long as no caller *)
(* asks for the last three sizes a word can hold (size + 3 would wrap).    *)
(***************************************************************************)
EXTENDS Heap

NoWrap == \A n \in Requests : n + 3 < WORD

HeldGrants ==
  {[ptr |-> PtrOf(b), asked |-> live[PtrOf(b)], len |-> b.size] :
     b \in UsedBlocks(blocks)}

Promise == INSTANCE Allocator WITH
  ArenaStart <- HEAP_START,
  ArenaEnd   <- HEAP_START + HEAP_SIZE,
  Sizes      <- Requests,
  held       <- HeldGrants

(* Every step of the block list is a grant, a return or no step at all of  *)
(* the abstract allocator (heap.c:28-60 and 91-113).                       *)
ImplementsAllocator == Promise!Spec
=============================================================================
