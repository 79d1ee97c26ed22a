------------------------------ MODULE HeapProofs ------------------------------
(***************************************************************************)
(* The invariants of Heap.tla for every heap, header and request size.     *)
(* Heap!TypeOK says too little to be inductive with the others: splitting  *)
(* and merging keep the list tiled only if it was tiled, and kfree finds   *)
(* one block only if no two blocks share an address.  HeapInv collects     *)
(* what a step needs.                                                      *)
(***************************************************************************)
EXTENDS HeapRefinement, HeapBlocksProofs, FiniteSetTheorems

HeapInv ==
  /\ ListOK(blocks) /\ Coalesced(blocks)
  /\ heap_current \in 0..(WORD - 1)
  /\ live \in [DOMAIN live -> Requests]
  /\ pages \subseteq [ptr : 0..(WORD - 1), size : Requests]
  /\ HeldExactlyUsed
  /\ GrantCoversRequest

LEMMA RequestsTyped ==
  /\ WORD \in Nat /\ WORD > 0 /\ HEAP_START + HDR \in 0..(WORD - 1)
  /\ \A n \in Requests : n \in Nat /\ n < WORD
<1>1. WORD \in Nat /\ HEAP_START + HEAP_SIZE < WORD
  BY HeapConstants
<1>2. Requests \subseteq 0..(WORD - 1)
  BY HeapParameters
<1> QED BY <1>1, <1>2, ConstantSizes

-----------------------------------------------------------------------------
(* kmalloc.                                                                *)
LEMMA KmallocInv ==
  ASSUME HeapInv, NEW n \in Requests, Kmalloc(n)
  PROVE  HeapInv'
<1> DEFINE need == AlignUp(n)
<1>1. /\ n \in Nat /\ need \in Nat /\ need % 4 = 0
      /\ n + 3 < WORD => need >= n
  BY RequestsTyped, AlignUpFacts
<1>2. PICK i \in DOMAIN blocks :
        /\ IsFirstFit(blocks, i, need)
        /\ blocks' = Taken(blocks, i, need)
        /\ live' = [p \in DOMAIN live \cup {PtrOf(blocks[i])} |->
                      IF p = PtrOf(blocks[i]) THEN n ELSE live[p]]
  BY DEF Kmalloc
<1> HIDE DEF need
<1>3. /\ blocks \in Seq(Block) /\ i \in 1..Len(blocks) /\ Fits(blocks[i], need)
      /\ ListOK(blocks) /\ Coalesced(blocks)
  BY <1>2, LenProperties DEF HeapInv, ListOK, IsFirstFit
<1> DEFINE g == GrantOf(blocks, i, need)
           q == PtrOf(blocks[i])
<1>4. /\ ListOK(blocks') /\ Coalesced(blocks')
      /\ UsedBlocks(blocks') = UsedBlocks(blocks) \cup {g}
  BY <1>1, <1>2, <1>3, TakenFacts
<1>5. PtrOf(g) = q /\ g.size \in Nat /\ g.size >= need
  <2>1. blocks[i].size \in Nat /\ blocks[i].size >= need
    BY <1>3, ElementsTyped DEF Fits
  <2> QED BY <1>1, <2>1 DEF GrantOf, PtrOf
<1>6. \A b \in UsedBlocks(blocks) : PtrOf(b) # q
  <2> SUFFICES ASSUME NEW b \in UsedBlocks(blocks), PtrOf(b) = q PROVE FALSE
    OBVIOUS
  <2>1. ~b.is_free /\ \E j \in 1..Len(blocks) : b = blocks[j]
    BY <1>3, UsedBlocksTyped
  <2>2. PICK j \in 1..Len(blocks) : b = blocks[j]
    BY <2>1
  <2>3. i = j
    BY <1>3, <2>2, OneBlockPerPointer
  <2> QED BY <1>3, <2>1, <2>2, <2>3 DEF Fits
<1> HIDE DEF g, q
<1>7. live' \in [DOMAIN live' -> Requests]
  BY <1>2 DEF HeapInv
<1>8. HeldExactlyUsed'
  <2>1. DOMAIN live' = DOMAIN live \cup {q}
    BY <1>2 DEF q
  <2> QED BY <1>4, <1>5, <2>1 DEF HeapInv, HeldExactlyUsed
<1>9. GrantCoversRequest'
  <2>1. ASSUME NEW b \in UsedBlocks(blocks)
        PROVE  live'[PtrOf(b)] + 3 < WORD => b.size >= live'[PtrOf(b)]
    <3>1. PtrOf(b) \in DOMAIN live
      BY DEF HeapInv, HeldExactlyUsed
    <3>2. live'[PtrOf(b)] = live[PtrOf(b)]
      BY <1>2, <1>6, <3>1 DEF q
    <3> QED BY <3>2 DEF HeapInv, GrantCoversRequest
  <2>2. live'[PtrOf(g)] = n
    BY <1>2, <1>5 DEF q
  <2>3. n + 3 < WORD => g.size >= n
    BY <1>1, <1>5
  <2> QED BY <1>4, <2>1, <2>2, <2>3 DEF GrantCoversRequest
<1> QED BY <1>4, <1>7, <1>8, <1>9 DEF HeapInv, Kmalloc

-----------------------------------------------------------------------------
(* kfree: the block that goes free is the one whose pointer was passed,    *)
(* and it was in use.                                                      *)
LEMMA KfreeBlock ==
  ASSUME HeapInv, NEW p \in DOMAIN live, NEW i \in DOMAIN blocks, PtrOf(blocks[i]) = p
  PROVE  /\ i \in 1..Len(blocks) /\ ~blocks[i].is_free
         /\ blocks[i] \in UsedBlocks(blocks)
         /\ \A b \in UsedBlocks(blocks) : PtrOf(b) = p => b = blocks[i]
<1>1. ListOK(blocks) /\ blocks \in Seq(Block) /\ i \in 1..Len(blocks)
  BY LenProperties DEF HeapInv, ListOK
<1>2. ASSUME NEW b \in UsedBlocks(blocks), PtrOf(b) = p
      PROVE  b = blocks[i] /\ ~b.is_free
  <2>1. ~b.is_free /\ \E j \in 1..Len(blocks) : b = blocks[j]
    BY <1>1, UsedBlocksTyped
  <2>2. PICK j \in 1..Len(blocks) : b = blocks[j]
    BY <2>1
  <2>3. i = j
    BY <1>1, <1>2, <2>2, OneBlockPerPointer
  <2> QED BY <2>1, <2>2, <2>3
<1>3. PICK b \in UsedBlocks(blocks) : PtrOf(b) = p
  BY DEF HeapInv, HeldExactlyUsed
<1> QED BY <1>1, <1>2, <1>3

LEMMA KfreeInv ==
  ASSUME HeapInv, NEW p \in DOMAIN live, Kfree(p)
  PROVE  HeapInv'
<1>1. PICK i \in DOMAIN blocks :
        PtrOf(blocks[i]) = p /\ blocks' = Freed(blocks, i)
  BY DEF Kfree
<1>2. /\ i \in 1..Len(blocks) /\ ~blocks[i].is_free
      /\ blocks[i] \in UsedBlocks(blocks)
      /\ \A b \in UsedBlocks(blocks) : PtrOf(b) = p => b = blocks[i]
  BY <1>1, KfreeBlock
<1>3. /\ ListOK(blocks') /\ Coalesced(blocks')
      /\ UsedBlocks(blocks') = UsedBlocks(blocks) \ {blocks[i]}
  BY <1>1, <1>2, FreedFacts DEF HeapInv
<1>4. live' = [q \in DOMAIN live \ {p} |-> live[q]] /\ DOMAIN live' = DOMAIN live \ {p}
  BY DEF Kfree
<1>5. live' \in [DOMAIN live' -> Requests]
  BY <1>4 DEF HeapInv
<1>6. HeldExactlyUsed'
  BY <1>1, <1>2, <1>3, <1>4 DEF HeapInv, HeldExactlyUsed
<1>7. GrantCoversRequest'
  <2> SUFFICES ASSUME NEW b \in UsedBlocks(blocks')
               PROVE  live'[PtrOf(b)] + 3 < WORD => b.size >= live'[PtrOf(b)]
    BY DEF GrantCoversRequest
  <2>1. b \in UsedBlocks(blocks) /\ PtrOf(b) \in DOMAIN live'
    BY <1>3, <1>6 DEF HeldExactlyUsed
  <2>2. live'[PtrOf(b)] = live[PtrOf(b)]
    BY <1>4, <2>1
  <2> QED BY <2>1, <2>2 DEF HeapInv, GrantCoversRequest
<1> QED BY <1>3, <1>5, <1>6, <1>7 DEF HeapInv, Kfree

-----------------------------------------------------------------------------
(* kmalloc_a moves heap_current only.                                      *)
LEMMA KmallocAInv ==
  ASSUME HeapInv, NEW n \in Requests, KmallocA(n)
  PROVE  HeapInv'
<1>1. /\ WORD \in Nat /\ WORD > 0 /\ n \in Nat /\ heap_current \in Nat
      /\ heap_current < WORD /\ PAGE \in Nat /\ PAGE > 0
  BY RequestsTyped, HeapParameters DEF HeapInv
<1>2. \A x \in Int : x % WORD \in 0..(WORD - 1)
  BY <1>1
<1>3. \A a, k \in Nat : k > 0 => a % k \in Int
  OBVIOUS
<1>4. PageUp(heap_current) \in 0..(WORD - 1)
  <2>1. heap_current - (heap_current % PAGE) + PAGE \in Int
    BY <1>1, <1>3
  <2> QED BY <1>1, <1>2, <2>1 DEF PageUp
<1>5. (PageUp(heap_current) + n) % WORD \in 0..(WORD - 1)
  BY <1>1, <1>2, <1>4
<1> QED BY <1>4, <1>5
  DEF KmallocA, HeapInv, HeldExactlyUsed, GrantCoversRequest

LEMMA HeapInit == Init => HeapInv
<1> SUFFICES ASSUME Init PROVE HeapInv
  OBVIOUS
<1>1. /\ ListOK(blocks) /\ Coalesced(blocks) /\ UsedBlocks(blocks) = {}
  BY InitialFacts DEF Init
<1>2. DOMAIN live = {} /\ live \in [DOMAIN live -> Requests]
  BY DEF Init
<1>3. heap_current \in 0..(WORD - 1)
  BY RequestsTyped DEF Init
<1> QED BY <1>1, <1>2, <1>3 DEF Init, HeapInv, HeldExactlyUsed, GrantCoversRequest

LEMMA HeapStep == HeapInv /\ [Next]_vars => HeapInv'
<1> SUFFICES ASSUME HeapInv, [Next]_vars PROVE HeapInv'
  OBVIOUS
<1>1. ASSUME NEW n \in Requests, Kmalloc(n) PROVE HeapInv'
  BY <1>1, KmallocInv
<1>2. ASSUME UNCHANGED vars PROVE HeapInv'
  BY <1>2 DEF vars, HeapInv, HeldExactlyUsed, GrantCoversRequest
<1>3. ASSUME NEW n \in Requests, KmallocA(n) PROVE HeapInv'
  BY <1>3, KmallocAInv
<1>4. ASSUME NEW p \in DOMAIN live, Kfree(p) PROVE HeapInv'
  BY <1>4, KfreeInv
<1> QED BY <1>1, <1>2, <1>3, <1>4 DEF Next, KmallocNull

(* The inductive invariant holds in every reachable state.                 *)
THEOREM HeapInvariant == Spec => []HeapInv
<1>1. Init => HeapInv
  BY HeapInit
<1>2. HeapInv /\ [Next]_vars => HeapInv'
  BY HeapStep
<1> QED BY <1>1, <1>2, PTL DEF Spec

-----------------------------------------------------------------------------
(* The variables keep their types (heap.c:6-15).                           *)
THEOREM HeapTypeOK == Spec => []TypeOK
<1>1. HeapInv => TypeOK
  BY DEF HeapInv, ListOK, TypeOK
<1> QED BY <1>1, HeapInvariant, PTL

(* kmalloc and kfree neither lose a byte of the heap nor let two blocks    *)
(* overlap, for every heap size and every sequence of calls.               *)
THEOREM HeapTiled == Spec => []BlocksTileHeap
<1>1. HeapInv => BlocksTileHeap
  BY DEF HeapInv, ListOK, BlocksTileHeap
<1> QED BY <1>1, HeapInvariant, PTL

(* The two merges of kfree (heap.c:98-112) are enough: free neighbours     *)
(* never survive a call.                                                   *)
THEOREM HeapCoalesced == Spec => []FullyCoalesced
<1>1. HeapInv => FullyCoalesced
  BY DEF HeapInv, FullyCoalesced
<1> QED BY <1>1, HeapInvariant, PTL

(* The blocks marked in use are the ones callers hold.                     *)
THEOREM HeapHeld == Spec => []HeldExactlyUsed
<1>1. HeapInv => HeldExactlyUsed
  BY DEF HeapInv
<1> QED BY <1>1, HeapInvariant, PTL

(* A grant is never shorter than its request, unless size + 3 wrapped.     *)
THEOREM HeapCovers == Spec => []GrantCoversRequest
<1>1. HeapInv => GrantCoversRequest
  BY DEF HeapInv
<1> QED BY <1>1, HeapInvariant, PTL

(* Every pointer in a caller's hands is a multiple of four.                *)
THEOREM HeapAligned == Spec => []GrantsAligned
<1>1. HeapInv => GrantsAligned
  <2> SUFFICES ASSUME HeapInv, NEW p \in DOMAIN live PROVE p % 4 = 0
    BY DEF GrantsAligned
  <2>1. PICK b \in UsedBlocks(blocks) : p = PtrOf(b)
    BY DEF HeapInv, HeldExactlyUsed
  <2>2. b.addr \in Nat /\ b.addr % 4 = 0
    BY UsedBlocksTyped DEF HeapInv, Block
  <2> QED BY <2>1, <2>2, ConstantSizes, HeaderAligned, FoursAdd DEF PtrOf
<1> QED BY <1>1, HeapInvariant, PTL

(* A call leaves alone every block that stays held: same place, same size, *)
(* still in use.                                                           *)
THEOREM HeapHeldBlocksStay == Spec => HeldBlocksStay
<1> DEFINE Stay == \A b \in UsedBlocks(blocks) :
                     PtrOf(b) \in DOMAIN live' => b \in UsedBlocks(blocks')
<1>1. HeapInv /\ [Next]_vars => [Stay]_vars
  <2> SUFFICES ASSUME HeapInv, [Next]_vars PROVE [Stay]_vars
    OBVIOUS
  <2>1. ASSUME NEW n \in Requests, Kmalloc(n) PROVE Stay
    <3>1. PICK i \in DOMAIN blocks :
            IsFirstFit(blocks, i, AlignUp(n)) /\ blocks' = Taken(blocks, i, AlignUp(n))
      BY <2>1 DEF Kmalloc
    <3>2. AlignUp(n) \in Nat /\ AlignUp(n) % 4 = 0
      BY RequestsTyped, AlignUpFacts
    <3>3. i \in 1..Len(blocks) /\ Fits(blocks[i], AlignUp(n)) /\ ListOK(blocks)
      BY <3>1, LenProperties DEF HeapInv, ListOK, IsFirstFit
    <3>4. UsedBlocks(blocks') = UsedBlocks(blocks) \cup {GrantOf(blocks, i, AlignUp(n))}
      BY <3>1, <3>2, <3>3, TakenFacts
    <3> QED BY <3>4
  <2>2. ASSUME NEW n \in Requests, KmallocA(n) PROVE Stay
    BY <2>2 DEF KmallocA
  <2>3. ASSUME NEW p \in DOMAIN live, Kfree(p) PROVE Stay
    <3>1. PICK i \in DOMAIN blocks : PtrOf(blocks[i]) = p /\ blocks' = Freed(blocks, i)
      BY <2>3 DEF Kfree
    <3>2. UsedBlocks(blocks') = UsedBlocks(blocks) \ {blocks[i]}
      BY <3>1, KfreeBlock, FreedFacts DEF HeapInv
    <3>3. p \notin DOMAIN live'
      BY <2>3 DEF Kfree
    <3> QED BY <3>1, <3>2, <3>3
  <2> QED BY <2>1, <2>2, <2>3 DEF Next, KmallocNull
<1> QED BY <1>1, HeapInvariant, PTL DEF Spec, HeldBlocksStay

LEMMA HeldBytesAre == HeldBytes = UsedBytes(blocks)
BY DEF HeldBytes, UsedBytes, BytesOf

LEMMA RefusalMeansFull == HeapInv => RefusesOnlyWhenFull
<1> SUFFICES ASSUME HeapInv, NEW n \in Requests \ {0}, Refuses(n),
                    NEW a \in HEAP_START..(HEAP_START + HEAP_SIZE - HDR - AlignUp(n)),
                    (a..(a + HDR + AlignUp(n) - 1)) \cap HeldBytes = {}
             PROVE  FALSE
  BY DEF RefusesOnlyWhenFull
<1> DEFINE need == AlignUp(n)
<1>1. need \in Nat /\ n # 0
  BY RequestsTyped, AlignUpFacts
<1>2. ListOK(blocks) /\ Coalesced(blocks)
  BY DEF HeapInv
<1>3. \A i \in 1..Len(blocks) : ~Fits(blocks[i], need)
  <2> SUFFICES ASSUME NEW i \in 1..Len(blocks) PROVE ~Fits(blocks[i], need)
    OBVIOUS
  <2>1. blocks[i] \in ToSet(blocks)
    BY <1>2, LenProperties DEF ListOK, ToSet
  <2> QED BY <1>1, <2>1 DEF Refuses
<1> HIDE DEF need
<1>4. a \in Nat /\ HEAP_START <= a /\ a + HDR + need <= HEAP_START + HEAP_SIZE
  BY <1>1, ConstantSizes DEF need
<1>5. (a..(a + HDR + need - 1)) \cap UsedBytes(blocks) = {}
  BY HeldBytesAre DEF need
<1> QED BY <1>1, <1>2, <1>3, <1>4, <1>5, RunFitsBlock

(* kmalloc refuses only when no run of free bytes could carry the request: *)
(* stale boundaries between free blocks never hide room (heap.c:35-56).    *)
THEOREM HeapRefusesOnlyWhenFull == Spec => []RefusesOnlyWhenFull
<1> QED BY HeapInvariant, RefusalMeansFull, PTL

-----------------------------------------------------------------------------
(* heap_stats.  What it has counted after k blocks is true of the bytes in *)
(* front of the end of the k-th.                                           *)
HeapBytes == HEAP_START..(HEAP_START + HEAP_SIZE - 1)
UsedBelow(bs, e) == {a \in UsedBytes(bs) : a < e}
Unused(bs, a) == a \in HeapBytes /\ a \notin UsedBytes(bs)
RunStarts(bs) == {a \in HeapBytes : Unused(bs, a) /\ ~Unused(bs, a - 1)}
RunStartsBelow(bs, e) == {a \in RunStarts(bs) : a < e}

CountedBelow(bs, e) ==
  [total       |-> e - HEAP_START,
   used        |-> Cardinality(UsedBelow(bs, e)),
   free_blocks |-> Cardinality(RunStartsBelow(bs, e))]

LEMMA UsedBytesInHeap ==
  ASSUME NEW bs, ListOK(bs)
  PROVE  UsedBytes(bs) \subseteq HeapBytes
<1> SUFFICES ASSUME NEW a \in UsedBytes(bs) PROVE a \in HeapBytes
  OBVIOUS
<1>1. PICK b \in UsedBlocks(bs) : a \in BytesOf(b)
  BY DEF UsedBytes
<1>2. PICK j \in 1..Len(bs) : b = bs[j]
  BY UsedBlocksTyped
<1>3. /\ bs[j].addr \in Nat /\ EndOf(bs[j]) \in Nat
      /\ HEAP_START <= bs[j].addr /\ EndOf(bs[j]) <= HEAP_START + HEAP_SIZE
  BY BlockEnds, WithinHeap
<1> QED BY <1>1, <1>2, <1>3, ConstantSizes DEF BytesOf, HeapBytes

LEMMA BelowFinite ==
  ASSUME NEW bs, ListOK(bs), NEW e
  PROVE  /\ IsFiniteSet(UsedBelow(bs, e)) /\ Cardinality(UsedBelow(bs, e)) \in Nat
         /\ IsFiniteSet(RunStartsBelow(bs, e)) /\ Cardinality(RunStartsBelow(bs, e)) \in Nat
<1>1. IsFiniteSet(HeapBytes)
  <2>1. HEAP_START \in Int /\ HEAP_START + HEAP_SIZE - 1 \in Int
    BY ConstantSizes
  <2> QED BY <2>1, FS_Interval DEF HeapBytes
<1>2. UsedBelow(bs, e) \in SUBSET HeapBytes /\ RunStartsBelow(bs, e) \in SUBSET HeapBytes
  BY UsedBytesInHeap DEF UsedBelow, RunStartsBelow, RunStarts
<1>3. IsFiniteSet(UsedBelow(bs, e)) /\ IsFiniteSet(RunStartsBelow(bs, e))
  BY <1>1, <1>2, FS_Subset
<1> QED BY <1>3, FS_CardinalityType

(* The bytes of block k are used or not with it.                           *)
LEMMA UsedBelowStep ==
  ASSUME NEW bs, ListOK(bs), NEW k \in 1..Len(bs)
  PROVE  Cardinality(UsedBelow(bs, EndOf(bs[k]))) =
           Cardinality(UsedBelow(bs, bs[k].addr))
             + (IF bs[k].is_free THEN 0 ELSE bs[k].size + HDR)
<1> DEFINE lo == bs[k].addr
           hi == EndOf(bs[k])
<1>1. /\ lo \in Nat /\ hi \in Nat /\ lo < hi /\ bs[k].size \in Nat /\ hi = lo + HDR + bs[k].size
      /\ bs[k].is_free \in BOOLEAN
  BY BlockEnds
<1>2. \A a \in Nat : lo <= a /\ a < hi => (a \in UsedBytes(bs) <=> ~bs[k].is_free)
  BY UsedByte
<1>3. UsedBytes(bs) \subseteq Nat
  BY UsedBytesInHeap, ConstantSizes DEF HeapBytes
<1> HIDE DEF lo, hi
<1>4. CASE bs[k].is_free
  <2>1. UsedBelow(bs, hi) = UsedBelow(bs, lo)
    BY <1>1, <1>2, <1>3, <1>4 DEF UsedBelow
  <2> QED BY <1>4, <2>1, BelowFinite DEF lo, hi
<1>5. CASE ~bs[k].is_free
  <2> DEFINE mine == lo..(hi - 1)
             rest == UsedBelow(bs, lo)
  <2>1. UsedBelow(bs, hi) = rest \cup mine
    BY <1>1, <1>2, <1>3, <1>5 DEF UsedBelow
  <2>2. rest \cap mine = {}
    BY <1>1, <1>3 DEF UsedBelow
  <2>3. IsFiniteSet(mine) /\ Cardinality(mine) = bs[k].size + HDR
    <3>1. lo \in Int /\ hi - 1 \in Int /\ ~(lo > hi - 1) /\ (hi - 1) - lo + 1 = bs[k].size + HDR
      BY <1>1, ConstantSizes
    <3> QED BY <3>1, FS_Interval
  <2>4. IsFiniteSet(rest) /\ Cardinality(rest) \in Nat
    BY BelowFinite
  <2> HIDE DEF mine, rest
  <2>5. Cardinality(rest \cup mine) = Cardinality(rest) + Cardinality(mine) - Cardinality({})
    BY <2>2, <2>3, <2>4, FS_Union
  <2>6. Cardinality({}) = 0
    BY FS_EmptySet
  <2>7. Cardinality(rest \cup mine) = Cardinality(rest) + (bs[k].size + HDR)
    <3>1. bs[k].size + HDR \in Nat
      BY <1>1, ConstantSizes
    <3> QED BY <2>3, <2>4, <2>5, <2>6, <3>1
  <2> QED BY <1>5, <2>1, <2>7 DEF lo, hi, rest
<1> QED BY <1>1, <1>4, <1>5

(* A run of unused bytes starts where a free block does: the block before  *)
(* it is in use.                                                           *)
LEMMA RunStartsStep ==
  ASSUME NEW bs, ListOK(bs), Coalesced(bs), NEW k \in 1..Len(bs)
  PROVE  Cardinality(RunStartsBelow(bs, EndOf(bs[k]))) =
           Cardinality(RunStartsBelow(bs, bs[k].addr)) + (IF bs[k].is_free THEN 1 ELSE 0)
<1> DEFINE lo == bs[k].addr
           hi == EndOf(bs[k])
<1>1. /\ lo \in Nat /\ hi \in Nat /\ lo < hi /\ bs[k].is_free \in BOOLEAN
      /\ HEAP_START <= lo /\ hi <= HEAP_START + HEAP_SIZE
  BY BlockEnds, EndsAfter
<1>2. \A a \in Nat : lo <= a /\ a < hi => (Unused(bs, a) <=> bs[k].is_free)
  <2> SUFFICES ASSUME NEW a \in Nat, lo <= a, a < hi PROVE Unused(bs, a) <=> bs[k].is_free
    OBVIOUS
  <2>1. a \in UsedBytes(bs) <=> ~bs[k].is_free
    BY UsedByte
  <2>2. a \in HeapBytes
    BY <1>1, ConstantSizes DEF HeapBytes
  <2> QED BY <2>1, <2>2 DEF Unused
<1>3. bs[k].is_free => ~Unused(bs, lo - 1)
  <2> SUFFICES ASSUME bs[k].is_free PROVE ~Unused(bs, lo - 1)
    OBVIOUS
  <2>0. Len(bs) \in Nat
    BY LenProperties DEF ListOK
  <2>1. CASE k = 1
    <3>1. lo = HEAP_START
      BY <2>1, BlockEnds
    <3> QED BY <3>1, ConstantSizes DEF Unused, HeapBytes
  <2>2. CASE k # 1
    <3>1. k - 1 \in 1..Len(bs) /\ k - 1 \in 1..(Len(bs) - 1) /\ k - 1 < Len(bs) /\ (k - 1) + 1 = k
      BY <2>0, <2>2
    <3>2. ~bs[k - 1].is_free
      BY <3>1 DEF Coalesced
    <3>3. lo = EndOf(bs[k - 1]) /\ bs[k - 1].addr < lo /\ bs[k - 1].addr \in Nat
      BY <3>1, BlockEnds
    <3>4. lo - 1 \in Nat /\ bs[k - 1].addr <= lo - 1 /\ lo - 1 < EndOf(bs[k - 1])
      BY <1>1, <3>3
    <3>5. lo - 1 \in UsedBytes(bs)
      <4> HIDE DEF lo
      <4> QED BY <3>1, <3>2, <3>4, UsedByte
    <3> QED BY <3>5 DEF Unused
  <2> QED BY <2>1, <2>2
<1>4. RunStarts(bs) \subseteq Nat /\ lo \in HeapBytes
  BY <1>1, ConstantSizes DEF RunStarts, HeapBytes
<1> HIDE DEF lo, hi
<1>5. CASE ~bs[k].is_free
  <2>1. RunStartsBelow(bs, hi) = RunStartsBelow(bs, lo)
    BY <1>1, <1>2, <1>4, <1>5 DEF RunStartsBelow, RunStarts
  <2> QED BY <1>5, <2>1, BelowFinite DEF lo, hi
<1>6. CASE bs[k].is_free
  <2>1. lo \in RunStarts(bs)
    BY <1>1, <1>2, <1>3, <1>4, <1>6 DEF RunStarts
  <2>2. \A a \in RunStarts(bs) : lo <= a /\ a < hi => a = lo
    <3> SUFFICES ASSUME NEW a \in RunStarts(bs), lo < a, a < hi PROVE FALSE
      BY <1>1, <1>4
    <3>1. a - 1 \in Nat /\ lo <= a - 1 /\ a - 1 < hi
      BY <1>1, <1>4
    <3>2. Unused(bs, a - 1)
      BY <1>2, <1>6, <3>1
    <3> QED BY <3>2 DEF RunStarts
  <2>3. RunStartsBelow(bs, hi) = RunStartsBelow(bs, lo) \cup {lo} /\ lo \notin RunStartsBelow(bs, lo)
    BY <1>1, <1>4, <2>1, <2>2 DEF RunStartsBelow
  <2>4. IsFiniteSet(RunStartsBelow(bs, lo))
    BY BelowFinite
  <2>5. Cardinality(RunStartsBelow(bs, hi)) = Cardinality(RunStartsBelow(bs, lo)) + 1
    BY <2>3, <2>4, FS_AddElement
  <2> QED BY <1>6, <2>5 DEF lo, hi
<1> QED BY <1>1, <1>5, <1>6

(* The walk of heap_stats, block by block.                                 *)
LEMMA StatsCounted ==
  ASSUME NEW bs, ListOK(bs), Coalesced(bs)
  PROVE  Stats(bs) = CountedBelow(bs, HEAP_START + HEAP_SIZE)
<1>0. bs \in Seq(Block) /\ Len(bs) \in Nat /\ Len(bs) > 0
  BY LenProperties DEF ListOK, Tiled
<1>1. PICK r : /\ r[0] = StatsBase /\ r[Len(bs)] = Stats(bs)
               /\ \A k \in 1..Len(bs) : r[k] = StatsStep(r[k - 1], bs[k])
  BY <1>0, StatsInSteps
<1> DEFINE S == {k \in Nat : k <= Len(bs) => r[k] = CountedBelow(bs, EndAfter(bs, k))}
<1>2. 0 \in S
  <2>1. UsedBelow(bs, HEAP_START) = {} /\ RunStartsBelow(bs, HEAP_START) = {}
    BY UsedBytesInHeap, ConstantSizes DEF UsedBelow, RunStartsBelow, RunStarts, HeapBytes
  <2>2. EndAfter(bs, 0) = HEAP_START /\ HEAP_START - HEAP_START = 0
    BY ConstantSizes DEF EndAfter
  <2>3. CountedBelow(bs, HEAP_START) = StatsBase
    BY <2>1, <2>2, FS_EmptySet DEF CountedBelow, StatsBase
  <2> QED BY <1>1, <2>2, <2>3
<1>3. ASSUME NEW n \in Nat, n \in S PROVE n + 1 \in S
  <2> SUFFICES ASSUME n + 1 <= Len(bs)
               PROVE  r[n + 1] = CountedBelow(bs, EndAfter(bs, n + 1))
    OBVIOUS
  <2> DEFINE k == n + 1
  <2>1. k \in 1..Len(bs) /\ k - 1 = n
    BY <1>0
  <2>2. r[n] = CountedBelow(bs, bs[k].addr)
    <3>1. EndAfter(bs, k - 1) = bs[k].addr
      BY <2>1, EndsAfter
    <3> QED BY <1>0, <1>3, <2>1, <3>1
  <2>3. r[k] = StatsStep(CountedBelow(bs, bs[k].addr), bs[k])
    BY <1>1, <2>1, <2>2
  <2>4. EndAfter(bs, k) = EndOf(bs[k])
    BY <2>1, EndsAfter
  <2> HIDE DEF k
  <2>5. bs[k].addr - HEAP_START + bs[k].size + HDR = EndOf(bs[k]) - HEAP_START
    BY <2>1, BlockEnds, ConstantSizes
  <2>6. StatsStep(CountedBelow(bs, bs[k].addr), bs[k]) = CountedBelow(bs, EndOf(bs[k]))
    BY <2>1, <2>5, UsedBelowStep, RunStartsStep DEF StatsStep, CountedBelow
  <2> QED BY <2>3, <2>4, <2>6 DEF k
<1>4. r[Len(bs)] = CountedBelow(bs, EndAfter(bs, Len(bs)))
  <2> HIDE DEF S
  <2>1. Len(bs) \in S
    BY <1>0, <1>2, <1>3, NatInductive
  <2> QED BY <2>1 DEF S
<1>5. EndAfter(bs, Len(bs)) = HEAP_START + HEAP_SIZE
  BY <1>0 DEF EndAfter, ListOK, Tiled
<1> QED BY <1>1, <1>4, <1>5

LEMMA StatsAreExact == HeapInv => StatsExact
<1> SUFFICES ASSUME HeapInv PROVE StatsExact
  OBVIOUS
<1>1. ListOK(blocks) /\ Coalesced(blocks)
  BY DEF HeapInv
<1> DEFINE top == HEAP_START + HEAP_SIZE
<1>2. Stats(blocks) = CountedBelow(blocks, top)
  BY <1>1, StatsCounted
<1>3. UsedBelow(blocks, top) = HeldBytes
  <2>1. \A a \in HeapBytes : a < top
    BY ConstantSizes DEF HeapBytes
  <2> QED BY <1>1, <2>1, UsedBytesInHeap, HeldBytesAre DEF UsedBelow
<1> DEFINE starts == {a \in HeapBytes : Unused(blocks, a) /\ ~Unused(blocks, a - 1)}
<1>4. RunStartsBelow(blocks, top) = starts
  <2>1. \A a \in HeapBytes : a < top
    BY ConstantSizes DEF HeapBytes
  <2> QED BY <2>1 DEF RunStartsBelow, RunStarts
<1>5. starts =
        {a \in HEAP_START..(HEAP_START + HEAP_SIZE - 1) :
           /\ a \in HEAP_START..(HEAP_START + HEAP_SIZE - 1) /\ a \notin HeldBytes
           /\ ~(a - 1 \in HEAP_START..(HEAP_START + HEAP_SIZE - 1) /\ a - 1 \notin HeldBytes)}
  BY HeldBytesAre DEF Unused, HeapBytes
<1>6. top - HEAP_START = HEAP_SIZE
  BY ConstantSizes
<1> HIDE DEF starts, top
<1>7. Stats(blocks).total = HEAP_SIZE
  BY <1>2, <1>6 DEF CountedBelow
<1>8. Stats(blocks).used = Cardinality(HeldBytes)
  BY <1>2, <1>3 DEF CountedBelow
<1>9. Stats(blocks).free_blocks = Cardinality(starts)
  BY <1>2, <1>4 DEF CountedBelow
<1> QED BY <1>5, <1>7, <1>8, <1>9 DEF StatsExact

(* heap_stats reports the whole heap, the bytes of the held blocks and the *)
(* number of gaps between them (heap.c:116-131), whatever calls came       *)
(* before.                                                                 *)
THEOREM HeapStatsExact == Spec => []StatsExact
<1> QED BY HeapInvariant, StatsAreExact, PTL

-----------------------------------------------------------------------------
(* A grant of the block list is one the abstract allocator may give.       *)
GrantFor(b) == [ptr |-> PtrOf(b), asked |-> live[PtrOf(b)], len |-> b.size]

LEMMA GrantTyped ==
  ASSUME NEW bs, ListOK(bs), NEW b \in UsedBlocks(bs), NEW n \in Requests
  PROVE  /\ [ptr |-> PtrOf(b), asked |-> n, len |-> b.size] \in Promise!Grant
         /\ PtrOf(b) + b.size <= HEAP_START + HEAP_SIZE
<1>1. /\ b \in Block /\ b.addr % 4 = 0 /\ b.addr \in Nat /\ b.size \in Nat
  BY UsedBlocksTyped DEF Block
<1>2. PICK j \in 1..Len(bs) : b = bs[j]
  BY <1>1, UsedBlocksTyped
<1>3. HEAP_START <= b.addr /\ b.addr + HDR + b.size <= HEAP_START + HEAP_SIZE
  BY <1>1, <1>2, WithinHeap DEF EndOf
<1>4. PtrOf(b) % 4 = 0 /\ PtrOf(b) \in Nat /\ PtrOf(b) = b.addr + HDR
  BY <1>1, ConstantSizes, HeaderAligned, FoursAdd DEF PtrOf
<1>6. /\ PtrOf(b) \in HEAP_START..(HEAP_START + HEAP_SIZE)
      /\ PtrOf(b) + b.size <= HEAP_START + HEAP_SIZE
  BY <1>1, <1>3, <1>4, ConstantSizes
<1>7. PtrOf(b) \in Promise!Address
  BY <1>4, <1>6 DEF Promise!Address
<1>9. b.size \in Promise!Length
  BY <1>1, <1>3, ConstantSizes DEF Promise!Length
<1>8. [ptr |-> PtrOf(b), asked |-> n, len |-> b.size] \in Promise!Grant
  BY <1>7, <1>9 DEF Promise!Grant
<1> QED BY <1>6, <1>8

LEMMA GrantsApart ==
  ASSUME HeapInv, NEW b \in UsedBlocks(blocks), NEW c \in UsedBlocks(blocks), b # c
  PROVE  GrantFor(b).ptr # GrantFor(c).ptr /\ Promise!Apart(GrantFor(b), GrantFor(c))
<1>1. /\ b.addr \in Nat /\ b.size \in Nat /\ c.addr \in Nat /\ c.size \in Nat
      /\ ListOK(blocks)
  BY UsedBlocksTyped DEF HeapInv, Block
<1>2. EndOf(b) <= c.addr \/ EndOf(c) <= b.addr
  BY <1>1, BlocksApart
<1> QED BY <1>1, <1>2, ConstantSizes DEF EndOf, PtrOf, GrantFor, Promise!Apart

LEMMA HeldGrantsAre == HeldGrants = {GrantFor(b) : b \in UsedBlocks(blocks)}
BY DEF HeldGrants, GrantFor

-----------------------------------------------------------------------------
LEMMA KmallocRefines ==
  ASSUME NoWrap, HeapInv, HeapInv', NEW n \in Requests, Kmalloc(n)
  PROVE  Promise!Malloc
<1> DEFINE need == AlignUp(n)
<1>1. PICK i \in DOMAIN blocks :
        /\ IsFirstFit(blocks, i, need)
        /\ blocks' = Taken(blocks, i, need)
        /\ live' = [p \in DOMAIN live \cup {PtrOf(blocks[i])} |->
                      IF p = PtrOf(blocks[i]) THEN n ELSE live[p]]
  BY DEF Kmalloc
<1>2. need \in Nat /\ need % 4 = 0
  BY RequestsTyped, AlignUpFacts
<1> HIDE DEF need
<1>3. i \in 1..Len(blocks) /\ Fits(blocks[i], need) /\ ListOK(blocks)
  BY <1>1, LenProperties DEF HeapInv, ListOK, IsFirstFit
<1> DEFINE g == GrantOf(blocks, i, need)
<1>4. UsedBlocks(blocks') = UsedBlocks(blocks) \cup {g}
  BY <1>1, <1>2, <1>3, TakenFacts
<1>5. \A b \in UsedBlocks(blocks) : PtrOf(b) # PtrOf(blocks[i])
  <2> SUFFICES ASSUME NEW b \in UsedBlocks(blocks), PtrOf(b) = PtrOf(blocks[i]) PROVE FALSE
    OBVIOUS
  <2>1. ~b.is_free /\ \E j \in 1..Len(blocks) : b = blocks[j]
    BY <1>3, UsedBlocksTyped
  <2>2. PICK j \in 1..Len(blocks) : b = blocks[j]
    BY <2>1
  <2>3. i = j
    BY <1>3, <2>2, OneBlockPerPointer
  <2> QED BY <1>3, <2>1, <2>2, <2>3 DEF Fits
<1>6. \A b \in UsedBlocks(blocks) : live'[PtrOf(b)] = live[PtrOf(b)] /\ g # b
  <2> SUFFICES ASSUME NEW b \in UsedBlocks(blocks)
               PROVE  live'[PtrOf(b)] = live[PtrOf(b)] /\ g # b
    BY DEF GrantFor
  <2>1. PtrOf(b) \in DOMAIN live
    BY DEF HeapInv, HeldExactlyUsed
  <2>2. PtrOf(g) = PtrOf(blocks[i])
    BY DEF GrantOf, PtrOf
  <2> QED BY <1>1, <1>5, <2>1, <2>2
<1> HIDE DEF g
<1> DEFINE new == [ptr |-> PtrOf(g), asked |-> live'[PtrOf(g)], len |-> g.size]
<1>7. HeldGrants' = HeldGrants \cup {new}
  <2>1. HeldGrants' = {[ptr |-> PtrOf(b), asked |-> live'[PtrOf(b)], len |-> b.size] :
                         b \in UsedBlocks(blocks')}
    BY DEF HeldGrants
  <2>2. \A b \in UsedBlocks(blocks) :
          [ptr |-> PtrOf(b), asked |-> live'[PtrOf(b)], len |-> b.size] = GrantFor(b)
    BY <1>6 DEF GrantFor
  <2> QED BY <1>4, <2>1, <2>2, HeldGrantsAre
<1>8. g \in UsedBlocks(blocks')
  BY <1>4
<1>9. /\ new \in Promise!Grant /\ new.len >= new.asked
      /\ new.ptr + new.len <= HEAP_START + HEAP_SIZE
  <2>1. live'[PtrOf(g)] \in Requests
    BY <1>8 DEF HeapInv, HeldExactlyUsed
  <2>2. g.size >= live'[PtrOf(g)]
    BY <1>8, <2>1 DEF HeapInv, GrantCoversRequest, NoWrap
  <2>3. ListOK(blocks')
    BY DEF HeapInv
  <2>4. new \in Promise!Grant /\ PtrOf(g) + g.size <= HEAP_START + HEAP_SIZE
    BY <1>8, <2>1, <2>3, GrantTyped
  <2> QED BY <2>2, <2>4
<1>10. \A h \in HeldGrants : new.ptr # h.ptr /\ Promise!Apart(new, h)
  <2> SUFFICES ASSUME NEW b \in UsedBlocks(blocks)
               PROVE  new.ptr # GrantFor(b).ptr /\ Promise!Apart(new, GrantFor(b))
    BY HeldGrantsAre
  <2>0. /\ b \in UsedBlocks(blocks') /\ g # b /\ ListOK(blocks')
        /\ GrantFor(b).ptr = PtrOf(b) /\ GrantFor(b).len = b.size
    BY <1>4, <1>6 DEF HeapInv, GrantFor
  <2>1. EndOf(g) <= b.addr \/ EndOf(b) <= g.addr
    BY <1>8, <2>0, BlocksApart
  <2>2. /\ b.addr \in Nat /\ b.size \in Nat /\ g.addr \in Nat /\ g.size \in Nat
    BY <1>8, <2>0, UsedBlocksTyped DEF Block
  <2> QED BY <2>0, <2>1, <2>2, ConstantSizes DEF EndOf, PtrOf, Promise!Apart
<1> QED BY <1>7, <1>9, <1>10 DEF Promise!Malloc

LEMMA KfreeRefines ==
  ASSUME HeapInv, NEW p \in DOMAIN live, Kfree(p)
  PROVE  Promise!Free
<1>1. PICK i \in DOMAIN blocks : PtrOf(blocks[i]) = p /\ blocks' = Freed(blocks, i)
  BY DEF Kfree
<1>2. /\ i \in 1..Len(blocks) /\ ~blocks[i].is_free
      /\ blocks[i] \in UsedBlocks(blocks)
      /\ \A b \in UsedBlocks(blocks) : PtrOf(b) = p => b = blocks[i]
  BY <1>1, KfreeBlock
<1>3. UsedBlocks(blocks') = UsedBlocks(blocks) \ {blocks[i]}
  BY <1>1, <1>2, FreedFacts DEF HeapInv
<1>4. live' = [q \in DOMAIN live \ {p} |-> live[q]]
  BY DEF Kfree
<1>5. \A b \in UsedBlocks(blocks) \ {blocks[i]} :
        [ptr |-> PtrOf(b), asked |-> live'[PtrOf(b)], len |-> b.size] = GrantFor(b)
  <2> SUFFICES ASSUME NEW b \in UsedBlocks(blocks), b # blocks[i]
               PROVE  live'[PtrOf(b)] = live[PtrOf(b)]
    BY DEF GrantFor
  <2>1. PtrOf(b) \in DOMAIN live \ {p}
    BY <1>2 DEF HeapInv, HeldExactlyUsed
  <2> QED BY <1>4, <2>1
<1>6. HeldGrants' = {GrantFor(b) : b \in UsedBlocks(blocks) \ {blocks[i]}}
  <2>1. HeldGrants' = {[ptr |-> PtrOf(b), asked |-> live'[PtrOf(b)], len |-> b.size] :
                         b \in UsedBlocks(blocks')}
    BY DEF HeldGrants
  <2> QED BY <1>3, <1>5, <2>1
<1>7. \A b \in UsedBlocks(blocks) \ {blocks[i]} : GrantFor(b) # GrantFor(blocks[i])
  BY <1>2, GrantsApart
<1>8. HeldGrants' = HeldGrants \ {GrantFor(blocks[i])} /\ GrantFor(blocks[i]) \in HeldGrants
  BY <1>2, <1>6, <1>7, HeldGrantsAre
<1> QED BY <1>8 DEF Promise!Free

-----------------------------------------------------------------------------
(* Every behaviour of the block list is one of the abstract allocator      *)
(* (heap.c:28-60 and 91-113), if no request is so large that rounding it   *)
(* up wraps.                                                               *)
THEOREM HeapImplementsAllocator ==
  ASSUME NoWrap
  PROVE  Spec => ImplementsAllocator
<1>1. Init => Promise!Init
  <2> SUFFICES ASSUME Init PROVE HeldGrants = {}
    BY DEF Promise!Init
  <2>1. UsedBlocks(blocks) = {}
    BY InitialFacts DEF Init
  <2> QED BY <2>1 DEF HeldGrants
<1>2. HeapInv /\ HeapInv' /\ [Next]_vars => [Promise!Next]_HeldGrants
  <2> SUFFICES ASSUME HeapInv, HeapInv', [Next]_vars
               PROVE  Promise!Next \/ HeldGrants' = HeldGrants
    OBVIOUS
  <2>1. ASSUME NEW n \in Requests, Kmalloc(n) PROVE Promise!Next
    BY <2>1, KmallocRefines DEF Promise!Next
  <2>2. ASSUME NEW p \in DOMAIN live, Kfree(p) PROVE Promise!Next
    BY <2>2, KfreeRefines DEF Promise!Next
  <2>3. ASSUME NEW n \in Requests, KmallocA(n) PROVE HeldGrants' = HeldGrants
    BY <2>3 DEF KmallocA, HeldGrants
  <2>4. ASSUME UNCHANGED vars PROVE HeldGrants' = HeldGrants
    BY <2>4 DEF vars, HeldGrants
  <2> QED BY <2>1, <2>2, <2>3, <2>4 DEF Next, KmallocNull
<1> QED BY <1>1, <1>2, HeapInvariant, PTL DEF Spec, ImplementsAllocator, Promise!Spec
=============================================================================
