------------------------------ MODULE HeapBlocks ------------------------------
(***************************************************************************)
(* The block list of kernel/heap.c and the two ways it is rewritten.       *)
(*                                                                         *)
(* The list starting at heap_head is a sequence of blocks: following       *)
(* `next' is moving one position to the right.  A block is the header's    *)
(* address with its `size' (payload bytes) and `is_free' fields.  All      *)
(* operators here are pure; Heap.tla and VFS.tla turn them into actions.   *)
(***************************************************************************)
EXTENDS Integers, Sequences, SequencesExt

CONSTANTS
  HEAP_START,   \* address of the first header
  HEAP_SIZE,    \* bytes handed to the allocator
  HDR,          \* sizeof(heap_block_t)
  SPLIT_SLACK,  \* the 16 of the split test
  WORD          \* size_t arithmetic is modulo WORD

ASSUME HeapConstants ==
  /\ HEAP_START \in Nat \ {0}
  /\ HEAP_SIZE \in Nat /\ HDR \in Nat \ {0} /\ HEAP_SIZE > HDR
  /\ SPLIT_SLACK \in Nat
  /\ HEAP_START % 4 = 0 /\ HEAP_SIZE % 4 = 0 /\ HDR % 4 = 0
  /\ WORD \in Nat /\ WORD % 4 = 0 /\ HEAP_START + HEAP_SIZE < WORD

Block == [addr : Nat, size : Nat, is_free : BOOLEAN]

NULL == 0
PtrOf(b) == b.addr + HDR
EndOf(b) == b.addr + HDR + b.size

-----------------------------------------------------------------------------
(* heap_init: one free block spanning the whole region.                    *)
InitialBlocks ==
  << [addr |-> HEAP_START, size |-> HEAP_SIZE - HDR, is_free |-> TRUE] >>

(* Seeded fault: rounding down.                                            *)
AlignDown(n) == n - (n % 4)

(* (size + 3) & ~3 on an unsigned word: the addition wraps.                *)
AlignUp(n) == LET m == (n + 3) % WORD IN m - (m % 4)

(* Seeded fault: is_free is not looked at.                                 *)
FitsAnyBlock(b, need) == b.size >= need

Fits(b, need) == b.is_free /\ b.size >= need

IsFirstFit(bs, i, need) ==
  /\ i \in DOMAIN bs
  /\ Fits(bs[i], need)
  /\ \A j \in 1..(i - 1) : ~Fits(bs[j], need)

(* Seeded fault: the rest need not hold a header.                          *)
SplitsTooSoon(b, need) == b.size > need

Splits(b, need) == b.size > need + HDR + SPLIT_SLACK

Remainder(b, need) ==
  [addr |-> b.addr + HDR + need, size |-> b.size - need - HDR, is_free |-> TRUE]

(* Seeded fault: the block is cut but stays marked free.                   *)
TakenUnmarked(bs, i, need) ==
  IF Splits(bs[i], need)
  THEN InsertAt([bs EXCEPT ![i].size = need], i + 1, Remainder(bs[i], need))
  ELSE bs

(* kmalloc once the first fit i is found: take the block, cut off the rest. *)
Taken(bs, i, need) ==
  IF Splits(bs[i], need)
  THEN InsertAt([bs EXCEPT ![i] = [addr |-> bs[i].addr, size |-> need, is_free |-> FALSE]],
                i + 1, Remainder(bs[i], need))
  ELSE [bs EXCEPT ![i].is_free = FALSE]

(* Seeded fault: the swallowed header's bytes are forgotten.               *)
MergeLosingHeader(bs, i) ==
  RemoveAt([bs EXCEPT ![i].size = @ + bs[i + 1].size], i + 1)

(* Block i swallows its successor, header included.                        *)
Merge(bs, i) ==
  RemoveAt([bs EXCEPT ![i].size = @ + HDR + bs[i + 1].size], i + 1)

MergeIf(cond, bs, i) == IF cond THEN Merge(bs, i) ELSE bs

(* Seeded faults: one of the two merges is missing; the previous block is  *)
(* merged whether free or not.                                             *)
FreedNextOnly(bs, i) ==
  MergeIf(i < Len(bs) /\ bs[i + 1].is_free, [bs EXCEPT ![i].is_free = TRUE], i)
FreedPrevOnly(bs, i) ==
  MergeIf(i > 1 /\ bs[i - 1].is_free, [bs EXCEPT ![i].is_free = TRUE], i - 1)
FreedIntoPrev(bs, i) == MergeIf(i > 1, [bs EXCEPT ![i].is_free = TRUE], i - 1)

(* kfree: mark block i, merge with the next block, then into the previous. *)
Freed(bs, i) ==
  LET marked == [bs EXCEPT ![i].is_free = TRUE]
      joined == MergeIf(i < Len(bs) /\ bs[i + 1].is_free, marked, i)
  IN  MergeIf(i > 1 /\ bs[i - 1].is_free, joined, i - 1)

(* Seeded fault: headers of used blocks are not counted.                   *)
StatsPayloadOnly(bs) ==
  FoldLeft(LAMBDA acc, b :
             [total       |-> acc.total + b.size + HDR,
              used        |-> acc.used + (IF b.is_free THEN 0 ELSE b.size),
              free_blocks |-> acc.free_blocks + (IF b.is_free THEN 1 ELSE 0)],
           [total |-> 0, used |-> 0, free_blocks |-> 0], bs)

(* heap_stats: one walk over the list.                                     *)
Stats(bs) ==
  FoldLeft(LAMBDA acc, b :
             [total       |-> acc.total + b.size + HDR,
              used        |-> acc.used + (IF b.is_free THEN 0 ELSE b.size + HDR),
              free_blocks |-> acc.free_blocks + (IF b.is_free THEN 1 ELSE 0)],
           [total |-> 0, used |-> 0, free_blocks |-> 0], bs)

-----------------------------------------------------------------------------
(* The shape every list keeps.                                             *)

(* The blocks lie end to end from HEAP_START to HEAP_START + HEAP_SIZE.    *)
Tiled(bs) ==
  /\ Len(bs) > 0
  /\ bs[1].addr = HEAP_START
  /\ EndOf(bs[Len(bs)]) = HEAP_START + HEAP_SIZE
  /\ \A i \in 1..(Len(bs) - 1) : bs[i + 1].addr = EndOf(bs[i])

(* Later blocks lie wholly behind earlier ones.                            *)
Ascending(bs) ==
  \A i, j \in DOMAIN bs : i < j => EndOf(bs[i]) <= bs[j].addr

(* Headers and payloads are multiples of four bytes.                       *)
Aligned(bs) ==
  \A i \in DOMAIN bs : bs[i].addr % 4 = 0 /\ bs[i].size % 4 = 0

(* Coalescing is complete: no two neighbours are both free.                *)
Coalesced(bs) ==
  \A i \in 1..(Len(bs) - 1) : ~(bs[i].is_free /\ bs[i + 1].is_free)

UsedBlocks(bs) == {b \in ToSet(bs) : ~b.is_free}
=============================================================================
