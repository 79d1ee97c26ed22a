--------------------------------- MODULE Heap ---------------------------------
(***************************************************************************)
(* kernel/heap.c as a state machine.  A step is one call of kmalloc, kfree *)
(* or kmalloc_a: the functions have one caller at a time (kernel_main; the *)
(* interrupt handlers never allocate).                                     *)
(*                                                                         *)
(* `live' and `pages' are history variables: what the callers were given   *)
(* and have not given back.  kfree is called the way the kernel calls it,  *)
(* with a pointer that kmalloc returned and that was not freed since.      *)
(***************************************************************************)
EXTENDS HeapBlocks, FiniteSets

CONSTANTS
  Requests,     \* the sizes callers ask for
  PAGE,         \* page size of kmalloc_a
  MaxPages      \* bound on the calls of kmalloc_a

ASSUME HeapParameters ==
  /\ Requests \subseteq 0..(WORD - 1)
  /\ PAGE \in Nat \ {0}
  /\ MaxPages \in Nat

VARIABLES
  blocks,        \* the list at heap_head
  heap_current,  \* where kmalloc_a continues
  live,          \* pointer -> requested size, for every kmalloc not yet freed
  pages          \* the set of [ptr, size] that kmalloc_a returned

vars == <<blocks, heap_current, live, pages>>

Init ==
  /\ blocks = InitialBlocks
  /\ heap_current = HEAP_START + HDR
  /\ live = [p \in {} |-> 0]
  /\ pages = {}

-----------------------------------------------------------------------------
Kmalloc(n) ==
  /\ n # 0
  /\ \E i \in DOMAIN blocks :
       /\ IsFirstFit(blocks, i, AlignUp(n))
       /\ blocks' = Taken(blocks, i, AlignUp(n))
       /\ live' = [p \in DOMAIN live \cup {PtrOf(blocks[i])} |->
                     IF p = PtrOf(blocks[i]) THEN n ELSE live[p]]
  /\ UNCHANGED <<heap_current, pages>>

(* The two ways kmalloc returns NULL.                                      *)
Refuses(n) == n = 0 \/ \A b \in ToSet(blocks) : ~Fits(b, AlignUp(n))

KmallocNull(n) ==
  /\ Refuses(n)
  /\ UNCHANGED vars

Kfree(p) ==
  /\ p \in DOMAIN live
  /\ \E i \in DOMAIN blocks :
       /\ PtrOf(blocks[i]) = p
       /\ blocks' = Freed(blocks, i)
  /\ live' = [q \in DOMAIN live \ {p} |-> live[q]]
  /\ UNCHANGED <<heap_current, pages>>

PageUp(a) == IF a % PAGE = 0 THEN a ELSE (a - (a % PAGE) + PAGE) % WORD

KmallocA(n) ==
  /\ Cardinality(pages) < MaxPages
  /\ pages' = pages \cup {[ptr |-> PageUp(heap_current), size |-> n]}
  /\ heap_current' = (PageUp(heap_current) + n) % WORD
  /\ UNCHANGED <<blocks, live>>

Next ==
  \/ \E n \in Requests : Kmalloc(n) \/ KmallocNull(n) \/ KmallocA(n)
  \/ \E p \in DOMAIN live : Kfree(p)

Spec == Init /\ [][Next]_vars

-----------------------------------------------------------------------------
TypeOK ==
  /\ blocks \in Seq(Block)
  /\ heap_current \in 0..(WORD - 1)
  /\ live \in [DOMAIN live -> Requests]
  /\ pages \subseteq [ptr : 0..(WORD - 1), size : Requests]

(* No byte of the heap is lost and no two blocks share one, however the    *)
(* calls of kmalloc and kfree are mixed (heap.c:43-51 and 98-112).         *)
BlocksTileHeap == Tiled(blocks) /\ Ascending(blocks)

(* kfree leaves no two free neighbours: the one merge with the next block  *)
(* and the one with the previous are enough (heap.c:98-112).               *)
FullyCoalesced == Coalesced(blocks)

(* The blocks in use are exactly the ones the callers hold: nothing leaks  *)
(* and no held pointer lies in a free block or inside another block.       *)
HeldExactlyUsed ==
  DOMAIN live = {PtrOf(b) : b \in UsedBlocks(blocks)}

(* A held block is as large as what was asked for, unless size + 3 wrapped *)
(* (heap.c:32).                                                            *)
GrantCoversRequest ==
  \A b \in UsedBlocks(blocks) :
    LET n == live[PtrOf(b)] IN n + 3 < WORD => b.size >= n

(* Every pointer kmalloc hands out is a multiple of four (heap.c:31),      *)
(* also when the block it lies in was cut or merged many times.            *)
GrantsAligned == \A p \in DOMAIN live : p % 4 = 0

(* Bytes claimed by a held block, header included.                         *)
HeldBytes == UNION {b.addr..(EndOf(b) - 1) : b \in UsedBlocks(blocks)}

(* Free space is never hidden by stale block boundaries: if kmalloc        *)
(* refuses n, no run of bytes outside the held blocks could have carried   *)
(* a header and n aligned bytes.                                           *)
RefusesOnlyWhenFull ==
  \A n \in Requests \ {0} :
    Refuses(n) =>
      ~\E a \in HEAP_START..(HEAP_START + HEAP_SIZE - HDR - AlignUp(n)) :
          (a..(a + HDR + AlignUp(n) - 1)) \cap HeldBytes = {}

(* heap_stats (heap.c:116-131): the total is the whole heap, `used' the    *)
(* held bytes, free_blocks the number of maximal runs of unheld bytes.     *)
StatsExact ==
  LET s == Stats(blocks)
      Unheld(a) == a \in HEAP_START..(HEAP_START + HEAP_SIZE - 1) /\ a \notin HeldBytes
  IN  /\ s.total = HEAP_SIZE
      /\ s.used = Cardinality(HeldBytes)
      /\ s.free_blocks =
           Cardinality({a \in HEAP_START..(HEAP_START + HEAP_SIZE - 1) :
                          Unheld(a) /\ ~Unheld(a - 1)})

(* A call never moves, resizes or frees the block behind a pointer that    *)
(* stays held: its neighbours split and merge around it.                   *)
HeldBlocksStay ==
  [][\A b \in UsedBlocks(blocks) :
       PtrOf(b) \in DOMAIN live' => b \in UsedBlocks(blocks')]_vars

=============================================================================
