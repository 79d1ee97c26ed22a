------------------------------ MODULE ShellProofs ------------------------------
(***************************************************************************)
(* The shell's file commands and its editor, for any heap that is as roomy *)
(* for the file table as the kernel's is (RoomForFiles).                   *)
(*                                                                         *)
(* Everything rests on kmalloc never refusing a file: then a file without  *)
(* data is an empty one, so what the editor loads is a text that was       *)
(* saved.  That in turn is counting: no block in use is much larger than   *)
(* the largest request, there are fewer than MAX_FILES of them once        *)
(* vfs_write has given the old one back, and Coalesced leaves at most one  *)
(* gap more than blocks, so some gap is large enough.                      *)
(***************************************************************************)
EXTENDS Shell, VFSProofs, FiniteSetTheorems

LargestNeed == AlignUp(MAX_FILE_SIZE + 1)
LargestBlock == LargestNeed + HDR + SPLIT_SLACK

SmallBlocks(bs) == \A b \in UsedBlocks(bs) : b.size <= LargestBlock

-----------------------------------------------------------------------------
(* Room.                                                                   *)
LEMMA AlignUpGrows ==
  ASSUME NEW x \in Nat, NEW y \in Nat, x <= y, y + 3 < WORD
  PROVE  AlignUp(x) <= AlignUp(y)
<1>1. WORD \in Nat /\ (x + 3) % WORD = x + 3 /\ (y + 3) % WORD = y + 3
  BY SizesTyped
<1> DEFINE u == x + 3
           v == y + 3
<1>2. u \in Nat /\ v \in Nat /\ u <= v
  OBVIOUS
<1>3. AlignUp(x) = u - (u % 4) /\ AlignUp(y) = v - (v % 4)
  BY <1>1 DEF AlignUp
<1> HIDE DEF u, v
<1>4. u - (u % 4) <= v - (v % 4)
  BY <1>2
<1> QED BY <1>3, <1>4

LEMMA NeedTyped ==
  /\ LargestNeed \in Nat /\ LargestBlock \in Nat
  /\ \A c \in Contents : ~TooLarge(c) => BytesFor(c) <= LargestNeed
<1>1. MAX_FILE_SIZE + 1 \in Nat /\ (MAX_FILE_SIZE + 1) + 3 < WORD
  BY SizesTyped
<1>2. LargestNeed \in Nat
  BY <1>1, AlignUpFacts DEF LargestNeed
<1>3. ASSUME NEW c \in Contents, ~TooLarge(c) PROVE BytesFor(c) <= LargestNeed
  <2>1. ContentSize[c] + 1 \in Nat /\ ContentSize[c] + 1 <= MAX_FILE_SIZE + 1
    BY <1>3, SizesTyped DEF TooLarge
  <2> QED BY <1>1, <2>1, AlignUpGrows DEF BytesFor, LargestNeed
<1> QED BY <1>2, <1>3, ConstantSizes DEF LargestBlock

(* The blocks in use among the first k.                                    *)
UsedUpTo(bs, k) == {bs[j] : j \in {i \in 1..k : ~bs[i].is_free}}

LEMMA UsedUpToStep ==
  ASSUME NEW bs, ListOK(bs), NEW k \in 1..Len(bs), IsFiniteSet(UsedUpTo(bs, k - 1))
  PROVE  /\ IsFiniteSet(UsedUpTo(bs, k))
         /\ Cardinality(UsedUpTo(bs, k)) =
              Cardinality(UsedUpTo(bs, k - 1)) + (IF bs[k].is_free THEN 0 ELSE 1)
<1>0. Len(bs) \in Nat
  BY LenProperties DEF ListOK
<1>1. CASE bs[k].is_free
  <2>1. {i \in 1..k : ~bs[i].is_free} = {i \in 1..(k - 1) : ~bs[i].is_free}
    BY <1>0, <1>1
  <2>2. UsedUpTo(bs, k) = UsedUpTo(bs, k - 1)
    BY <2>1 DEF UsedUpTo
  <2> QED BY <1>1, <2>2, FS_CardinalityType
<1>2. CASE ~bs[k].is_free
  <2>1. {i \in 1..k : ~bs[i].is_free} = {i \in 1..(k - 1) : ~bs[i].is_free} \cup {k}
    BY <1>0, <1>2
  <2>2. UsedUpTo(bs, k) = UsedUpTo(bs, k - 1) \cup {bs[k]}
    BY <2>1 DEF UsedUpTo
  <2>3. bs[k] \notin UsedUpTo(bs, k - 1)
    <3>1. \A j \in 1..(k - 1) : j \in 1..Len(bs) /\ j # k
      BY <1>0
    <3> QED BY <3>1, Distinct DEF UsedUpTo
  <2> DEFINE p == UsedUpTo(bs, k - 1)
  <2>4. IsFiniteSet(p \cup {bs[k]}) /\ Cardinality(p \cup {bs[k]}) = Cardinality(p) + 1
    BY <2>3, FS_AddElement
  <2> QED BY <1>2, <2>2, <2>4
<1> QED BY <1>1, <1>2, BlockEnds

(* A free block at position k is one gap more than the blocks before it.   *)
Gap(bs, k) == IF k = 0 \/ ~bs[k].is_free THEN 0 ELSE 1

LEMMA OneMore ==
  ASSUME NEW u \in Nat, NEW x \in Nat
  PROVE  (u + 1) * x = u * x + x /\ u * x \in Nat /\ 0 * x = 0
OBVIOUS

(* The first k blocks span no more than their used ones and their gaps     *)
(* can, when none is longer than x and y.                                  *)
LEMMA SpanBounded ==
  ASSUME NEW bs, ListOK(bs), Coalesced(bs), NEW x \in Nat, NEW y \in Nat,
         \A i \in 1..Len(bs) :
           HDR + bs[i].size <= (IF bs[i].is_free THEN y ELSE x)
  PROVE  /\ IsFiniteSet(UsedBlocks(bs)) /\ Cardinality(UsedBlocks(bs)) \in Nat
         /\ HEAP_SIZE <= Cardinality(UsedBlocks(bs)) * x + (Cardinality(UsedBlocks(bs)) + 1) * y
<1>0. Len(bs) \in Nat /\ Len(bs) > 0
  BY LenProperties DEF ListOK, Tiled
<1> DEFINE U(k) == Cardinality(UsedUpTo(bs, k))
           Good(k) == /\ IsFiniteSet(UsedUpTo(bs, k))
                      /\ EndAfter(bs, k) - HEAP_START <= U(k) * x + (U(k) + Gap(bs, k)) * y
           S == {k \in Nat : k <= Len(bs) => Good(k)}
<1>1. 0 \in S
  <2>1. UsedUpTo(bs, 0) = {}
    BY DEF UsedUpTo
  <2>2. IsFiniteSet(UsedUpTo(bs, 0)) /\ U(0) = 0
    BY <2>1, FS_EmptySet
  <2>3. EndAfter(bs, 0) - HEAP_START = 0 /\ Gap(bs, 0) = 0
    BY ConstantSizes DEF EndAfter, Gap
  <2> HIDE DEF U
  <2>4. U(0) * x + (U(0) + Gap(bs, 0)) * y = 0
    BY <2>2, <2>3
  <2> QED BY <2>2, <2>3, <2>4
<1>2. ASSUME NEW n \in Nat, n \in S PROVE n + 1 \in S
  <2> SUFFICES ASSUME n + 1 <= Len(bs) PROVE Good(n + 1)
    OBVIOUS
  <2> DEFINE k == n + 1
             u == U(n)
             v == U(k)
             g == Gap(bs, n)
             before == EndAfter(bs, n) - HEAP_START
             after == EndAfter(bs, k) - HEAP_START
  <2>1. k \in 1..Len(bs) /\ k - 1 = n
    BY <1>0
  <2>2. IsFiniteSet(UsedUpTo(bs, n)) /\ before <= u * x + (u + g) * y
    BY <1>0, <1>2
  <2>3. IsFiniteSet(UsedUpTo(bs, k)) /\ v = u + (IF bs[k].is_free THEN 0 ELSE 1)
    BY <2>1, <2>2, UsedUpToStep
  <2>4. u \in Nat
    BY <2>2, FS_CardinalityType
  <2>5. /\ bs[k].addr \in Nat /\ bs[k].size \in Nat /\ bs[k].is_free \in BOOLEAN
        /\ EndAfter(bs, n) = bs[k].addr /\ EndAfter(bs, k) = bs[k].addr + HDR + bs[k].size
    BY <2>1, BlockEnds, EndsAfter
  <2>6. before \in Int /\ after = before + (HDR + bs[k].size) /\ HDR + bs[k].size \in Nat
    <3> DEFINE p == bs[k].addr
               z == bs[k].size
    <3>a. EndAfter(bs, n) = p /\ EndAfter(bs, k) = p + HDR + z
      BY <2>5
    <3>b. p \in Nat /\ z \in Nat
      BY <2>5
    <3>1. before = p - HEAP_START /\ after = (p + HDR + z) - HEAP_START
      <4> HIDE DEF p, z, k
      <4> QED BY <3>a
    <3> HIDE DEF p, z, before, after
    <3>2. before \in Int /\ after = before + (HDR + z) /\ HDR + z \in Nat
      BY <3>b, <3>1, ConstantSizes
    <3> QED BY <3>2 DEF z
  <2>7. HDR + bs[k].size <= (IF bs[k].is_free THEN y ELSE x)
    BY <2>1
  <2>8. g \in {0, 1} /\ (bs[k].is_free => g = 0)
    <3>1. CASE n = 0
      BY <3>1 DEF Gap
    <3>2. CASE n # 0
      <4>1. n \in 1..(Len(bs) - 1) /\ n \in 1..Len(bs)
        BY <1>0, <3>2
      <4>2. ~(bs[n].is_free /\ bs[n + 1].is_free)
        BY <4>1 DEF Coalesced
      <4> QED BY <4>2 DEF Gap
    <3> QED BY <3>1, <3>2
  <2>9. Gap(bs, k) = IF bs[k].is_free THEN 1 ELSE 0
    BY <2>1, <2>5 DEF Gap
  <2> HIDE DEF U, k, u, v, g, before, after
  <2>10. after <= v * x + (v + Gap(bs, k)) * y
    <3>1. CASE bs[k].is_free
      <4>1. v = u /\ g = 0 /\ Gap(bs, k) = 1
        BY <2>3, <2>4, <2>8, <2>9, <3>1
      <4>2. (u + 1) * y = u * y + y /\ u * x \in Nat /\ u * y \in Nat
        BY <2>4, OneMore
      <4>3. before <= u * x + u * y
        BY <2>2, <2>4, <4>1
      <4> QED BY <2>6, <2>7, <3>1, <4>1, <4>2, <4>3
    <3>2. CASE ~bs[k].is_free
      <4>1. v = u + 1 /\ Gap(bs, k) = 0 /\ v + Gap(bs, k) = u + 1
        BY <2>3, <2>4, <2>9, <3>2
      <4>2. /\ (u + 1) * y = u * y + y /\ (u + 1) * x = u * x + x
            /\ u * x \in Nat /\ u * y \in Nat /\ (u + 0) * y = u * y
        BY <2>4, OneMore
      <4>3. (u + g) * y <= u * y + y
        BY <2>8, <4>2
      <4>4. (u + g) * y \in Nat
        BY <2>8, <4>2
      <4> DEFINE ux == u * x
                 uy == u * y
                 ugy == (u + g) * y
      <4>5. before <= ux + ugy /\ ugy <= uy + y /\ ux \in Nat /\ uy \in Nat /\ ugy \in Nat
        BY <2>2, <4>2, <4>3, <4>4
      <4>6. v * x + (v + Gap(bs, k)) * y = (ux + x) + (uy + y)
        BY <4>1, <4>2
      <4> HIDE DEF ux, uy, ugy
      <4> QED BY <2>6, <2>7, <3>2, <4>5, <4>6
    <3> QED BY <2>5, <3>1, <3>2
  <2> QED BY <2>3, <2>10 DEF k, v, after, U
<1>3. Good(Len(bs))
  <2> HIDE DEF S, Good
  <2>1. Len(bs) \in S
    BY <1>0, <1>1, <1>2, NatInductive
  <2> QED BY <2>1 DEF S
<1>4. UsedUpTo(bs, Len(bs)) = UsedBlocks(bs)
  <2>1. bs \in Seq(Block)
    BY DEF ListOK
  <2> QED BY <2>1, UsedByIndex DEF UsedUpTo
<1>5. EndAfter(bs, Len(bs)) - HEAP_START = HEAP_SIZE
  BY <1>0, ConstantSizes DEF EndAfter, ListOK, Tiled
<1> DEFINE w == Cardinality(UsedBlocks(bs))
<1>6. IsFiniteSet(UsedBlocks(bs)) /\ w \in Nat
  BY <1>3, <1>4, FS_CardinalityType
<1>7. Gap(bs, Len(bs)) \in {0, 1}
  BY DEF Gap
<1>8. HEAP_SIZE <= w * x + (w + Gap(bs, Len(bs))) * y
  BY <1>3, <1>4, <1>5
<1> HIDE DEF w
<1>9. (w + 1) * y = w * y + y /\ w * x \in Nat /\ w * y \in Nat /\ (w + 0) * y = w * y
  BY <1>6, OneMore
<1>10. (w + Gap(bs, Len(bs))) * y <= (w + 1) * y /\ (w + Gap(bs, Len(bs))) * y \in Nat
  BY <1>7, <1>9
<1>11. HEAP_SIZE <= w * x + (w + 1) * y
  BY <1>8, <1>9, <1>10, ConstantSizes
<1> QED BY <1>6, <1>11 DEF w

LEMMA TimesGrows ==
  ASSUME NEW u \in Nat, NEW v \in Nat, NEW x \in Nat, u <= v
  PROVE  u * x <= v * x
<1>1. PICK d \in Nat : v = u + d
  <2>1. v - u \in Nat /\ v = u + (v - u)
    OBVIOUS
  <2> QED BY <2>1
<1>2. v * x = u * x + d * x /\ u * x \in Nat /\ d * x \in Nat
  BY <1>1
<1> QED BY <1>2

(* Every block in use but slot i's own belongs to another slot.            *)
LEMMA UsedByOthers ==
  ASSUME NEW s, StateOK(s), NEW i \in Slots
  PROVE  /\ IsFiniteSet(UsedBut(s.blocks, s.files[i].data))
         /\ Cardinality(UsedBut(s.blocks, s.files[i].data)) \in Nat
         /\ Cardinality(UsedBut(s.blocks, s.files[i].data)) <= MAX_FILES - 1
<1> DEFINE B == UsedBut(s.blocks, s.files[i].data)
           T == Slots \ {i}
           f == [b \in B |-> CHOOSE j \in Slots : s.files[j].data = PtrOf(b)]
<1>1. /\ IsFiniteSet(T) /\ Cardinality(T) = MAX_FILES - 1
  <2>1. IsFiniteSet(Slots) /\ Cardinality(Slots) = MAX_FILES
    BY SizesTyped, FS_Interval DEF Slots
  <2> QED BY <2>1, FS_RemoveElement
<1>2. ASSUME NEW b \in B PROVE f[b] \in Slots /\ s.files[f[b]].data = PtrOf(b)
  <2>1. b \in UsedBlocks(s.blocks)
    BY DEF UsedBut
  <2>2. \E j \in Slots : s.files[j].data = PtrOf(b)
    BY <2>1 DEF StateOK, Owners
  <2> QED BY <2>2
<1>3. \A b \in B : f[b] \in T
  BY <1>2 DEF UsedBut
<1>4. \A b, c \in B : f[b] = f[c] => b = c
  <2> SUFFICES ASSUME NEW b \in B, NEW c \in B, f[b] = f[c] PROVE b = c
    OBVIOUS
  <2>1. PtrOf(b) = PtrOf(c)
    BY <1>2
  <2>2. b \in UsedBlocks(s.blocks) /\ c \in UsedBlocks(s.blocks) /\ ListOK(s.blocks)
    BY DEF UsedBut, StateOK
  <2> HIDE DEF B, f
  <2> QED BY <2>1, <2>2, UsedPointers
<1>5. f \in Injection(B, T)
  <2>1. f \in [B -> T]
    BY <1>3
  <2> HIDE DEF B, T, f
  <2> QED BY <1>4, <2>1 DEF Injection, IsInjective
<1>6. IsFiniteSet(B) /\ Cardinality(B) <= Cardinality(T)
  BY <1>1, <1>5, FS_Injection
<1> QED BY <1>1, <1>6, FS_CardinalityType

(* kmalloc grants every write: with its old block back in the heap, the    *)
(* largest gap is long enough.                                             *)
LEMMA WriteHasRoom ==
  ASSUME NEW s, StateOK(s), SmallBlocks(s.blocks), NEW i \in Slots,
         NEW c \in Contents, ~TooLarge(c)
  PROVE  CanGrant(Release(s, s.files[i].data).blocks, BytesFor(c))
<1> DEFINE bs == Release(s, s.files[i].data).blocks
           need == BytesFor(c)
<1>1. /\ ListOK(bs) /\ Coalesced(bs)
      /\ UsedBlocks(bs) = UsedBut(s.blocks, s.files[i].data)
  BY Released
<1>2. need \in Nat /\ need <= LargestNeed /\ LargestNeed \in Nat /\ LargestBlock \in Nat /\ need > 0
  <2>1. need \in Nat /\ ContentSize[c] + 1 <= need /\ ContentSize[c] \in 0..MAX_FILE_SIZE
    BY BytesForFacts
  <2> QED BY <2>1, NeedTyped
<1> HIDE DEF bs, need
<1> SUFFICES ASSUME ~CanGrant(bs, need) PROVE FALSE
  BY DEF bs, need
<1> DEFINE x == HDR + LargestBlock
           y == HDR + need - 1
           w == Cardinality(UsedBlocks(bs))
<1>3. ASSUME NEW k \in 1..Len(bs)
      PROVE  HDR + bs[k].size <= (IF bs[k].is_free THEN y ELSE x)
  <2>1. bs[k].size \in Nat /\ bs[k].is_free \in BOOLEAN /\ bs \in Seq(Block)
    BY <1>1, BlockEnds DEF ListOK
  <2>2. CASE bs[k].is_free
    <3>1. k \in DOMAIN bs
      BY <2>1, LenProperties
    <3>2. ~(bs[k].size >= need)
      BY <2>2, <3>1 DEF CanGrant, Fits
    <3> QED BY <1>2, <2>1, <2>2, <3>2, ConstantSizes
  <2>3. CASE ~bs[k].is_free
    <3>1. bs[k] \in UsedBlocks(s.blocks)
      BY <1>1, <2>1, <2>3, UsedByIndex DEF UsedBut
    <3>2. bs[k].size <= LargestBlock
      BY <3>1 DEF SmallBlocks
    <3> QED BY <1>2, <2>1, <2>3, <3>2, ConstantSizes
  <2> QED BY <2>1, <2>2, <2>3
<1>4. x \in Nat /\ y \in Nat
  BY <1>2, ConstantSizes
<1>5. w \in Nat /\ w <= MAX_FILES - 1
  BY <1>1, UsedByOthers
<1>6. HEAP_SIZE <= w * x + (w + 1) * y
  <2> HIDE DEF x, y
  <2> QED BY <1>1, <1>3, <1>4, SpanBounded
<1> DEFINE z == HDR + LargestNeed
           m == MAX_FILES - 1
<1>7. m \in Nat /\ m + 1 = MAX_FILES /\ z \in Nat /\ y < z
  BY <1>2, SizesTyped, ConstantSizes
<1>8. HEAP_SIZE >= m * x + (m + 1) * z
  <2>1. x = 2 * HDR + LargestNeed + SPLIT_SLACK
    BY <1>2, ConstantSizes DEF LargestBlock
  <2>2. HEAP_SIZE >= m * (2 * HDR + LargestNeed + SPLIT_SLACK) + MAX_FILES * z
    BY RoomForFiles DEF LargestNeed
  <2> QED BY <1>7, <2>1, <2>2
<1> HIDE DEF x, y, z, m, w
<1>9. w * x <= m * x /\ (w + 1) * y <= (m + 1) * y
  <2>1. w <= m /\ w + 1 <= m + 1 /\ w + 1 \in Nat /\ m + 1 \in Nat
    BY <1>5, <1>7 DEF m
  <2> QED BY <1>4, <1>5, <1>7, <2>1, TimesGrows
<1>10. (m + 1) * y + (m + 1) <= (m + 1) * z
  <2>1. (m + 1) * (y + 1) = (m + 1) * y + (m + 1)
    BY <1>4, <1>7
  <2>2. (y + 1) * (m + 1) <= z * (m + 1)
    <3>1. y + 1 \in Nat /\ y + 1 <= z /\ m + 1 \in Nat
      BY <1>4, <1>7
    <3> QED BY <1>7, <3>1, TimesGrows
  <2>3. (y + 1) * (m + 1) = (m + 1) * (y + 1) /\ z * (m + 1) = (m + 1) * z
    BY <1>4, <1>7
  <2> QED BY <2>1, <2>2, <2>3
<1>11. /\ w * x \in Nat /\ (w + 1) * y \in Nat /\ m * x \in Nat /\ (m + 1) * y \in Nat
       /\ (m + 1) * z \in Nat
  BY <1>4, <1>5, <1>7
<1> DEFINE wx == w * x
           wy == (w + 1) * y
           mx == m * x
           my == (m + 1) * y
           mz == (m + 1) * z
<1>12. /\ wx \in Nat /\ wy \in Nat /\ mx \in Nat /\ my \in Nat /\ mz \in Nat
       /\ wx <= mx /\ wy <= my /\ my + (m + 1) <= mz
       /\ HEAP_SIZE <= wx + wy /\ HEAP_SIZE >= mx + mz
  BY <1>6, <1>8, <1>9, <1>10, <1>11
<1> HIDE DEF wx, wy, mx, my, mz
<1> QED BY <1>7, <1>12, ConstantSizes

-----------------------------------------------------------------------------
(* States in which no write was ever refused.                              *)
Roomy(s) ==
  /\ SmallBlocks(s.blocks)
  /\ \A i \in InUse(s.files) :
       /\ s.files[i].size < MAX_FILE_SIZE
       /\ s.files[i].data = NULL => s.files[i].size = 0

Healthy(s) == StateOK(s) /\ Roomy(s)

LEMMA WriteGranted ==
  ASSUME NEW s, StateOK(s), SmallBlocks(s.blocks), NEW i \in Slots, s.files[i].in_use,
         NEW c \in Contents, ~TooLarge(c)
  PROVE  LET t == Written(s, i, c)
         IN  /\ SmallBlocks(t.blocks) /\ t.files[i].data # NULL
             /\ t.files[i].size = ContentSize[c]
<1> DEFINE r == Release(s, s.files[i].data)
           need == BytesFor(c)
           k == CHOOSE j \in DOMAIN r.blocks : IsFirstFit(r.blocks, j, need)
           ptr == PtrOf(r.blocks[k])
           t == Written(s, i, c)
           z == ContentSize[c]
<1>1. /\ ListOK(r.blocks) /\ Coalesced(r.blocks)
      /\ UsedBlocks(r.blocks) = UsedBut(s.blocks, s.files[i].data)
  BY Released
<1>2. need \in Nat /\ need % 4 = 0 /\ need <= LargestNeed /\ LargestNeed \in Nat
  BY BytesForFacts, NeedTyped
<1>3. CanGrant(r.blocks, need)
  BY WriteHasRoom
<1>4. /\ t.files = [s.files EXCEPT ![i].data = ptr, ![i].size = z]
      /\ t.blocks = Taken(r.blocks, k, need)
  <2>1. t = [files  |-> [s.files EXCEPT ![i].data = ptr, ![i].size = z],
             blocks |-> Taken(r.blocks, k, need),
             mem    |-> [q \in DOMAIN r.mem \cup {ptr} |-> IF q = ptr THEN c ELSE r.mem[q]]]
    BY <1>3 DEF Written
  <2> HIDE DEF t, ptr, z, k
  <2> QED BY <2>1
<1>5. k \in DOMAIN r.blocks /\ Fits(r.blocks[k], need)
  <2> DEFINE bs == r.blocks
  <2>1. PICK m \in DOMAIN bs : Fits(bs[m], need)
    BY <1>3 DEF CanGrant
  <2>2. \E j \in DOMAIN bs : IsFirstFit(bs, j, need)
    <3> HIDE DEF need, bs
    <3>1. ListOK(bs)
      BY <1>1 DEF bs
    <3> QED BY <1>2, <2>1, <3>1, FirstFitExists
  <2> QED BY <2>2 DEF IsFirstFit
<1> HIDE DEF k, t, r, need
<1>6. k \in 1..Len(r.blocks) /\ r.blocks[k].size \in Nat
  <2>1. k \in 1..Len(r.blocks)
    BY <1>1, <1>5, LenProperties DEF ListOK
  <2> QED BY <1>1, <2>1, BlockEnds
<1>7. ptr # NULL
  BY <1>1, <1>6, PointersTyped DEF NULL
<1>8. t.files[i].data = ptr /\ t.files[i].size = z
  <2> DEFINE n == s.files[i].name
             old == s.files[i].size
             d == s.files[i].data
             u == TRUE
             h == [name |-> n, size |-> z, data |-> ptr, in_use |-> u]
  <2>1. s.files \in [Slots -> File] /\ s.files[i] \in File
    BY DEF StateOK
  <2>2. s.files[i] = [name |-> n, size |-> old, data |-> d, in_use |-> u]
    BY <2>1 DEF File
  <2>a. h.data = ptr /\ h.size = z
    OBVIOUS
  <2>b. h = [name |-> n, size |-> z, data |-> ptr, in_use |-> u]
    OBVIOUS
  <2> HIDE DEF ptr, z, n, old, d, u, h
  <2>3. DataSizeSet(s.files, i, ptr, z) = [s.files EXCEPT ![i] = h]
    <3> DEFINE fs == s.files
    <3>1. fs \in [Slots -> File] /\ fs[i] = [name |-> n, size |-> old, data |-> d, in_use |-> u]
      BY <2>1, <2>2
    <3> HIDE DEF fs
    <3>2. DataSizeSet(fs, i, ptr, z) =
            [fs EXCEPT ![i] = [name |-> n, size |-> z, data |-> ptr, in_use |-> u]]
      BY <3>1, TableDataSizeSet
    <3>3. DataSizeSet(fs, i, ptr, z) = [fs EXCEPT ![i] = h]
      BY <2>b, <3>2
    <3> QED BY <3>3 DEF fs
  <2>4. t.files = [s.files EXCEPT ![i] = h]
    BY <1>4, <2>3 DEF DataSizeSet
  <2>5. t.files[i] = h
    BY <2>1, <2>4
  <2> QED BY <2>5, <2>a
<1>9. SmallBlocks(t.blocks)
  <2> DEFINE a == GrantOf(r.blocks, k, need)
  <2>1. UsedBlocks(t.blocks) = UsedBlocks(r.blocks) \cup {a}
    BY <1>1, <1>2, <1>4, <1>5, <1>6, TakenFacts
  <2>2. a.size <= LargestBlock
    <3>1. a.size = IF Splits(r.blocks[k], need) THEN need ELSE r.blocks[k].size
      BY DEF GrantOf
    <3>2. Splits(r.blocks[k], need) <=> r.blocks[k].size > need + HDR + SPLIT_SLACK
      BY DEF Splits
    <3>3. need + HDR + SPLIT_SLACK <= LargestBlock /\ need <= LargestBlock
      BY <1>2, ConstantSizes DEF LargestBlock
    <3> HIDE DEF a
    <3>4. CASE Splits(r.blocks[k], need)
      BY <3>1, <3>3, <3>4
    <3>5. CASE ~Splits(r.blocks[k], need)
      <4>1. LargestBlock \in Nat
        BY NeedTyped
      <4> QED BY <1>2, <1>6, <3>1, <3>2, <3>3, <3>5, <4>1, ConstantSizes
    <3> QED BY <3>4, <3>5
  <2>3. \A b \in UsedBlocks(r.blocks) : b.size <= LargestBlock
    BY <1>1 DEF UsedBut, SmallBlocks
  <2> HIDE DEF a
  <2> QED BY <2>1, <2>2, <2>3 DEF SmallBlocks
<1> QED BY <1>7, <1>8, <1>9 DEF t, z

(* vfs_write of a text that fits edit_buffer leaves exactly that text.     *)
LEMMA WrittenWhole ==
  ASSUME NEW s, Healthy(s), NEW i \in Slots, s.files[i].in_use,
         NEW c \in Contents, ContentSize[c] < MAX_FILE_SIZE
  PROVE  LET t == Written(s, i, c)
         IN  /\ Healthy(t) /\ OthersKeep(s, t, i)
             /\ t.files[i].name = s.files[i].name /\ t.files[i].in_use
             /\ t.files[i].data # NULL
             /\ t.files[i].data \in DOMAIN t.mem /\ t.mem[t.files[i].data] = c
<1> DEFINE t == Written(s, i, c)
<1>1. StateOK(s) /\ SmallBlocks(s.blocks) /\ ~TooLarge(c)
  BY SizesTyped DEF Healthy, Roomy, TooLarge
<1>2. /\ SmallBlocks(t.blocks) /\ t.files[i].data # NULL /\ t.files[i].size = ContentSize[c]
  BY <1>1, WriteGranted
<1>3. /\ StateOK(t) /\ OthersKeep(s, t, i)
      /\ t.files[i].name = s.files[i].name /\ t.files[i].in_use
      /\ \/ TooLarge(c) /\ t = s
         \/ t.files[i].data = NULL
         \/ /\ t.files[i].data \in DOMAIN t.mem
            /\ t.mem[t.files[i].data] = c /\ t.files[i].size = ContentSize[c]
  BY <1>1, WrittenOK
<1> HIDE DEF t
<1>4. Roomy(t)
  <2> SUFFICES ASSUME NEW j \in InUse(t.files)
               PROVE  /\ t.files[j].size < MAX_FILE_SIZE
                      /\ t.files[j].data = NULL => t.files[j].size = 0
    BY <1>2 DEF Roomy
  <2>1. CASE j = i
    BY <1>2, <2>1
  <2>2. CASE j # i
    BY <1>3, <2>2 DEF OthersKeep, InUse, Healthy, Roomy
  <2> QED BY <2>1, <2>2
<1> QED BY <1>1, <1>2, <1>3, <1>4 DEF t, Healthy

LEMMA NullNotStored ==
  ASSUME NEW s, StateOK(s)
  PROVE  NULL \notin DOMAIN s.mem
<1>1. \A b \in UsedBlocks(s.blocks) : PtrOf(b) # NULL
  BY UsedPointers DEF StateOK, NULL
<1> QED BY <1>1 DEF StateOK

-----------------------------------------------------------------------------
(* The commands, and what they do to the texts found under names.          *)
Texts(s) == MapOf(s, <<>>)

(* A text that the editor can hold.                                        *)
Editable(c) == c \in Contents /\ ContentSize[c] < MAX_FILE_SIZE

LEMMA CreatedWhole ==
  ASSUME NEW s, Healthy(s), NEW n \in Names, CanCreate(s.files, n)
  PROVE  LET t == Created(s, n)
             i == Min(FreeSlots(s.files))
         IN  /\ Healthy(t) /\ OthersKeep(s, t, i) /\ i \in Slots /\ ~s.files[i].in_use
             /\ t.files[i].in_use /\ t.files[i].name = Stored[n] /\ t.files[i].data = NULL
<1> DEFINE t == Created(s, n)
           i == Min(FreeSlots(s.files))
<1>1. StateOK(s) /\ Roomy(s)
  BY DEF Healthy
<1>2. /\ StateOK(t) /\ i \in Slots /\ ~s.files[i].in_use /\ OthersKeep(s, t, i)
      /\ t.files[i] = [name |-> Stored[n], size |-> 0, data |-> NULL, in_use |-> TRUE]
      /\ t.files[i].in_use
  BY <1>1, CreatedOK
<1>3. t.blocks = s.blocks
  BY <1>1 DEF Created, StateOK
<1> HIDE DEF t, i
<1>4. t.files[i].name = Stored[n] /\ t.files[i].data = NULL /\ t.files[i].size = 0
  BY <1>2
<1>5. Roomy(t)
  <2> SUFFICES ASSUME NEW j \in InUse(t.files)
               PROVE  /\ t.files[j].size < MAX_FILE_SIZE
                      /\ t.files[j].data = NULL => t.files[j].size = 0
    BY <1>1, <1>3 DEF Roomy
  <2>1. CASE j = i
    BY <1>4, <2>1, ShellParameters, SizesTyped
  <2>2. CASE j # i
    BY <1>1, <1>2, <2>2 DEF OthersKeep, InUse, Roomy
  <2> QED BY <2>1, <2>2
<1> QED BY <1>2, <1>4, <1>5 DEF t, i, Healthy

LEMMA CreatedTexts ==
  ASSUME NEW s, Healthy(s), NEW n \in Names, CanCreate(s.files, n), ShortNames, Unique(s.files)
  PROVE  /\ Unique(Created(s, n).files)
         /\ Texts(Created(s, n)) = Put(Texts(s), n, <<>>)
<1> DEFINE t == Created(s, n)
           i == Min(FreeSlots(s.files))
<1>1. /\ StateOK(s) /\ StateOK(t) /\ OthersKeep(s, t, i) /\ i \in Slots /\ ~s.files[i].in_use
      /\ t.files[i].in_use /\ t.files[i].name = Stored[n] /\ t.files[i].data = NULL
  BY CreatedWhole DEF Healthy
<1>2. Stored[n] = n
  BY DEF ShortNames
<1>3. Unique(t.files)
  BY <1>1, <1>2, CreatedUnique
<1> HIDE DEF t, i
<1>4. ContentOf(t, i, <<>>) = <<>>
  BY <1>1, NullNotStored DEF ContentOf
<1>5. MapOf(t, <<>>) = Put(MapOf(s, <<>>), n, <<>>)
  BY <1>1, <1>2, <1>3, <1>4, MapPut
<1> QED BY <1>3, <1>5 DEF t, Texts

LEMMA WrittenTexts ==
  ASSUME NEW s, Healthy(s), Unique(s.files), NEW i \in Slots, s.files[i].in_use,
         NEW c, Editable(c)
  PROVE  /\ Unique(Written(s, i, c).files)
         /\ Texts(Written(s, i, c)) = Put(Texts(s), s.files[i].name, c)
<1> DEFINE t == Written(s, i, c)
<1>1. /\ StateOK(s) /\ OthersKeep(s, t, i)
      /\ t.files[i].name = s.files[i].name /\ t.files[i].in_use
      /\ t.files[i].data \in DOMAIN t.mem /\ t.mem[t.files[i].data] = c
  BY WrittenWhole DEF Healthy, Editable
<1>2. Unique(t.files)
  BY <1>1, WrittenUnique DEF Editable
<1> HIDE DEF t
<1>3. ContentOf(t, i, <<>>) = c
  BY <1>1 DEF ContentOf
<1>4. MapOf(t, <<>>) = Put(MapOf(s, <<>>), t.files[i].name, c)
  BY <1>1, <1>2, <1>3, MapPut
<1> QED BY <1>1, <1>2, <1>4 DEF t, Texts

LEMMA PutTwice ==
  ASSUME NEW m, NEW n, NEW u, NEW v
  PROVE  Put(Put(m, n, u), n, v) = Put(m, n, v)
BY DEF Put

(* touch.                                                                  *)
LEMMA CreatedCommand ==
  ASSUME NEW s, Healthy(s), NEW n \in Names
  PROVE  /\ Healthy(Created(s, n))
         /\ ShortNames /\ Unique(s.files) =>
              /\ Unique(Created(s, n).files)
              /\ Texts(Created(s, n)) =
                   IF CanCreate(s.files, n) THEN Put(Texts(s), n, <<>>) ELSE Texts(s)
<1>1. CASE CanCreate(s.files, n)
  BY <1>1, CreatedWhole, CreatedTexts
<1>2. CASE ~CanCreate(s.files, n)
  <2>1. Created(s, n) = s
    BY <1>2 DEF Created
  <2> QED BY <1>2, <2>1
<1> QED BY <1>1, <1>2

(* vfs_create followed by vfs_write of the new file.                       *)
LEMMA CreatedThenWritten ==
  ASSUME NEW s, Healthy(s), NEW n \in Names, NEW c, Editable(c), CanCreate(s.files, n)
  PROVE  LET t == Written(Created(s, n), Min(FreeSlots(s.files)), c)
         IN  /\ Healthy(t)
             /\ ShortNames /\ Unique(s.files) =>
                  Unique(t.files) /\ Texts(t) = Put(Texts(s), n, c)
<1> DEFINE r == Created(s, n)
           i == Min(FreeSlots(s.files))
           t == Written(r, i, c)
<1>1. /\ Healthy(r) /\ i \in Slots /\ r.files[i].in_use /\ r.files[i].name = Stored[n]
  BY CreatedWhole
<1>2. ShortNames /\ Unique(s.files) =>
        Unique(r.files) /\ Texts(r) = Put(Texts(s), n, <<>>) /\ Stored[n] = n
  BY CreatedTexts DEF ShortNames
<1> HIDE DEF r, i
<1>3. Healthy(t)
  BY <1>1, WrittenWhole DEF Editable
<1>4. Unique(r.files) => Unique(t.files) /\ Texts(t) = Put(Texts(r), r.files[i].name, c)
  BY <1>1, WrittenTexts
<1> HIDE DEF t
<1> QED BY <1>1, <1>2, <1>3, <1>4, PutTwice DEF t, r, i

(* wget.                                                                   *)
LEMMA DownloadedCommand ==
  ASSUME NEW s, Healthy(s), NEW n \in Names, NEW c, Editable(c)
  PROVE  LET t == Downloaded(s, n, c)
         IN  /\ Healthy(t)
             /\ ShortNames /\ Unique(s.files) =>
                  /\ Unique(t.files)
                  /\ Texts(t) = IF CanCreate(s.files, n) THEN Put(Texts(s), n, c) ELSE Texts(s)
<1>1. CASE CanCreate(s.files, n)
  <2>1. Downloaded(s, n, c) = Written(Created(s, n), Min(FreeSlots(s.files)), c)
    BY <1>1 DEF Downloaded
  <2> QED BY <1>1, <2>1, CreatedThenWritten
<1>2. CASE ~CanCreate(s.files, n)
  <2>1. Downloaded(s, n, c) = s
    BY <1>2 DEF Downloaded
  <2> QED BY <1>2, <2>1
<1> QED BY <1>1, <1>2

(* :w and :wq.                                                             *)
LEMMA SavedCommand ==
  ASSUME NEW s, Healthy(s), NEW n \in Names, NEW c, Editable(c)
  PROVE  LET t == Saved(s, n, c)
         IN  /\ Healthy(t)
             /\ ShortNames /\ Unique(s.files) =>
                  /\ Unique(t.files)
                  /\ Texts(t) = IF SlotFor(s.files, n) # 0 THEN Put(Texts(s), n, c) ELSE Texts(s)
<1> DEFINE t == Saved(s, n, c)
<1>1. CASE OpenIn(s.files, n) # 0
  <2> DEFINE i == OpenIn(s.files, n)
  <2>1. i \in Slots /\ s.files[i].in_use /\ s.files[i].name = n /\ Matches(s.files, n) # {}
    BY <1>1, OpenFound DEF Matches
  <2>2. Created(s, n) = s
    BY <2>1 DEF Created, CanCreate
  <2>3. SlotFor(s.files, n) = i
    BY <1>1 DEF SlotFor
  <2>4. t = Written(s, i, c)
    BY <1>1, <2>2, <2>3 DEF Saved
  <2> HIDE DEF i, t
  <2>5. Healthy(t)
    BY <2>1, <2>4, WrittenWhole DEF Editable
  <2>6. Unique(s.files) => Unique(t.files) /\ Texts(t) = Put(Texts(s), n, c)
    BY <2>1, <2>4, WrittenTexts
  <2> QED BY <1>1, <2>3, <2>5, <2>6 DEF t, i
<1>2. CASE OpenIn(s.files, n) = 0 /\ FreeSlots(s.files) # {}
  <2> DEFINE i == Min(FreeSlots(s.files))
  <2>1. CanCreate(s.files, n) /\ i \in Slots
    BY <1>2, OpenFound, FreeFound DEF CanCreate
  <2>2. SlotFor(s.files, n) = i /\ i # 0
    BY <1>2, <2>1 DEF SlotFor, Slots
  <2>3. t = Written(Created(s, n), i, c)
    BY <2>2 DEF Saved
  <2> QED BY <2>1, <2>2, <2>3, CreatedThenWritten
<1>3. CASE OpenIn(s.files, n) = 0 /\ FreeSlots(s.files) = {}
  <2>1. SlotFor(s.files, n) = 0
    BY <1>3 DEF SlotFor
  <2>2. t = s
    BY <2>1 DEF Saved
  <2> HIDE DEF t
  <2> QED BY <2>1, <2>2 DEF t
<1> QED BY <1>1, <1>2, <1>3

(* rm.                                                                     *)
LEMMA RemovedCommand ==
  ASSUME NEW s, Healthy(s), NEW n \in Names
  PROVE  LET t == Removed(s, n)
         IN  /\ Healthy(t)
             /\ Unique(s.files) => Unique(t.files) /\ Texts(t) = Drop(Texts(s), n)
<1> DEFINE t == Removed(s, n)
           i == OpenIn(s.files, n)
<1>0. StateOK(s) /\ Roomy(s)
  BY DEF Healthy
<1>1. CASE i = 0
  <2>1. t = s
    BY <1>1 DEF Removed
  <2>2. n \notin DOMAIN Texts(s)
    BY <1>1, OpenFound DEF Texts, MapOf, NamesIn, InUse, Matches
  <2>3. DOMAIN Texts(s) \ {n} = DOMAIN Texts(s)
    BY <2>2
  <2>4. Texts(s) = [k \in DOMAIN Texts(s) |-> Texts(s)[k]]
    BY DEF Texts, MapOf
  <2>5. Drop(Texts(s), n) = Texts(s)
    BY <2>3, <2>4 DEF Drop
  <2> HIDE DEF t
  <2> QED BY <2>1, <2>5 DEF t
<1>2. CASE i # 0
  <2>1. i \in InUse(s.files) /\ i \in Slots /\ s.files[i].name = n
    BY <1>2, OpenFound DEF Matches, InUse
  <2>2. t = Deleted(s, i)
    BY <1>2 DEF Removed
  <2>3. StateOK(t) /\ OthersKeep(s, t, i) /\ ~t.files[i].in_use
    <3> HIDE DEF i, t
    <3> QED BY <1>0, <2>1, <2>2, DeletedOK
  <2>4. Unique(s.files) => Unique(t.files)
    BY <1>0, <2>1, <2>2, DeletedUnique
  <2>5. Roomy(t)
    <3>1. t.blocks = Release(s, s.files[i].data).blocks
      <4> DEFINE r == Release(s, s.files[i].data)
      <4>1. r = [files |-> s.files, blocks |-> r.blocks, mem |-> r.mem]
        BY <1>0, <2>1, Released
      <4> HIDE DEF r
      <4>2. \A u, p, q : StateThreeSet(r, i, u, p, q).blocks = r.blocks
        BY <4>1, StateThreeSetAs
      <4>3. t = StateThreeSet(r, i, FALSE, NULL, 0)
        BY <2>2 DEF Deleted, StateThreeSet, r
      <4> QED BY <4>2, <4>3 DEF r
    <3>2. SmallBlocks(t.blocks)
      BY <1>0, <2>1, <3>1, Released DEF UsedBut, SmallBlocks, Roomy
    <3>3. \A j \in InUse(t.files) : j # i /\ j \in InUse(s.files) /\ t.files[j] = s.files[j]
      BY <2>3 DEF OthersKeep, InUse
    <3> HIDE DEF t, i
    <3> QED BY <1>0, <3>2, <3>3 DEF Roomy
  <2> HIDE DEF t, i
  <2>6. Unique(s.files) => Texts(t) = Drop(Texts(s), n)
    BY <2>1, <2>3, <2>4, MapDrop DEF Texts
  <2> QED BY <2>3, <2>4, <2>5, <2>6 DEF t, Healthy
<1> QED BY <1>1, <1>2

-----------------------------------------------------------------------------
(* vfs_init: the default files take the first slots, in their order.       *)
NameOf(j) == DefaultFiles[j][1]

Made(k) ==
  [n \in {NameOf(j) : j \in 1..k} |-> DefaultFiles[CHOOSE j \in 1..k : NameOf(j) = n][2]]

Installed(s, k) ==
  /\ Healthy(s)
  /\ InUse(s.files) = 1..k
  /\ \A j \in 1..k : s.files[j].name = Stored[NameOf(j)]
  /\ ShortNames => Unique(s.files) /\ Texts(s) = Made(k)

LEMMA DefaultsTyped ==
  /\ Len(DefaultFiles) \in Nat /\ Len(DefaultFiles) <= MAX_FILES
  /\ DOMAIN DefaultFiles = 1..Len(DefaultFiles)
  /\ \A k \in 1..Len(DefaultFiles) :
       /\ NameOf(k) \in Names /\ Stored[NameOf(k)] \in Names
       /\ Stored[Stored[NameOf(k)]] = Stored[NameOf(k)]
       /\ Editable(DefaultFiles[k][2])
  /\ \A j, k \in 1..Len(DefaultFiles) : Stored[NameOf(j)] = Stored[NameOf(k)] => j = k
<1>1. DefaultFiles \in Seq(Names \X Contents)
  BY VFSParameters
<1>2. Len(DefaultFiles) \in Nat /\ DOMAIN DefaultFiles = 1..Len(DefaultFiles)
  BY <1>1, LenProperties
<1>3. ASSUME NEW k \in 1..Len(DefaultFiles)
      PROVE  /\ NameOf(k) \in Names /\ Stored[NameOf(k)] \in Names
             /\ Stored[Stored[NameOf(k)]] = Stored[NameOf(k)]
             /\ Editable(DefaultFiles[k][2])
  <2>1. DefaultFiles[k] \in Names \X Contents
    BY <1>1, ElementOfSeq
  <2>2. NameOf(k) \in Names /\ DefaultFiles[k][2] \in Contents
    BY <2>1 DEF NameOf
  <2>3. ContentSize[DefaultFiles[k][2]] < MAX_FILE_SIZE
    BY <1>2, <2>2, ShellDefaults, ShellParameters
  <2> QED BY <2>2, <2>3, VFSParameters DEF Editable
<1> QED BY <1>2, <1>3, ShellDefaults DEF NameOf

LEMMA MadeStep ==
  ASSUME NEW k \in Nat, k + 1 <= Len(DefaultFiles), ShortNames
  PROVE  Made(k + 1) = Put(Made(k), NameOf(k + 1), DefaultFiles[k + 1][2])
<1> DEFINE m == Made(k + 1)
           p == Put(Made(k), NameOf(k + 1), DefaultFiles[k + 1][2])
<1>1. \A i, j \in 1..(k + 1) : NameOf(i) = NameOf(j) => i = j
  BY DefaultsTyped
<1>2. DOMAIN m = {NameOf(j) : j \in 1..k} \cup {NameOf(k + 1)}
  <2>1. 1..(k + 1) = (1..k) \cup {k + 1}
    OBVIOUS
  <2> QED BY <2>1 DEF Made
<1>3. ASSUME NEW j \in 1..(k + 1) PROVE m[NameOf(j)] = p[NameOf(j)]
  <2>1. (CHOOSE i \in 1..(k + 1) : NameOf(i) = NameOf(j)) = j
    BY <1>1
  <2>2. m[NameOf(j)] = DefaultFiles[j][2]
    BY <2>1 DEF Made
  <2>3. CASE j = k + 1
    <3>1. p[NameOf(j)] = DefaultFiles[j][2]
      BY <2>3 DEF Put
    <3> QED BY <2>2, <3>1
  <2>4. CASE j # k + 1
    <3>1. j \in 1..k /\ NameOf(j) # NameOf(k + 1)
      BY <1>1, <2>4
    <3>2. (CHOOSE i \in 1..k : NameOf(i) = NameOf(j)) = j
      BY <1>1, <3>1
    <3>3. NameOf(j) \in DOMAIN Made(k) /\ Made(k)[NameOf(j)] = DefaultFiles[j][2]
      BY <3>1, <3>2 DEF Made
    <3>4. p[NameOf(j)] = Made(k)[NameOf(j)]
      BY <3>1, <3>3 DEF Put
    <3> QED BY <2>2, <3>3, <3>4
  <2> QED BY <2>3, <2>4
<1>4. DOMAIN p = DOMAIN m /\ p = [n \in DOMAIN p |-> p[n]]
  BY <1>2 DEF Put, Made
<1>5. m = [n \in DOMAIN m |-> m[n]]
  BY DEF Made
<1>6. \A n \in DOMAIN m : m[n] = p[n]
  <2>1. \A n \in DOMAIN m : \E j \in 1..(k + 1) : n = NameOf(j)
    BY DEF Made
  <2> HIDE DEF m, p
  <2> QED BY <1>3, <2>1
<1> HIDE DEF m, p
<1>7. m = p
  BY <1>4, <1>5, <1>6
<1> QED BY <1>7 DEF m, p

LEMMA InstalledNone == Installed(BootBase, 0)
<1> DEFINE s == BootBase
<1>1. StateOK(s) /\ s.blocks = InitialBlocks /\ s.files = [i \in Slots |-> FreeSlot]
  BY BootBaseOK DEF BootBase
<1>2. InUse(s.files) = {}
  BY <1>1 DEF InUse, FreeSlot
<1> HIDE DEF s
<1>3. Roomy(s)
  BY <1>1, <1>2, InitialFacts DEF Roomy, SmallBlocks
<1>4. Unique(s.files)
  BY <1>2 DEF Unique
<1>5. Texts(s) = Made(0)
  <2>1. NamesIn(s.files) = {} /\ {NameOf(j) : j \in 1..0} = {}
    BY <1>2 DEF NamesIn
  <2> QED BY <2>1 DEF Texts, MapOf, Made
<1> QED BY <1>1, <1>2, <1>3, <1>4, <1>5 DEF Installed, Healthy, s

LEMMA InstalledNext ==
  ASSUME NEW k \in Nat, k + 1 <= Len(DefaultFiles), NEW s, Installed(s, k)
  PROVE  Installed(BootStep(s, DefaultFiles[k + 1]), k + 1)
<1> DEFINE n == NameOf(k + 1)
           c == DefaultFiles[k + 1][2]
           i == Min(FreeSlots(s.files))
           r == Created(s, n)
           t == Written(r, i, c)
<1>1. k + 1 \in 1..Len(DefaultFiles) /\ n \in Names /\ Editable(c) /\ k + 1 \in Slots
  BY DefaultsTyped, SizesTyped DEF Slots
<1>2. Matches(s.files, n) = {}
  <2> SUFFICES ASSUME NEW j \in 1..k, s.files[j].name = n PROVE FALSE
    BY DEF Matches, Installed, InUse
  <2>1. j \in 1..Len(DefaultFiles) /\ Stored[NameOf(j)] = n
    BY <1>1 DEF Installed
  <2>2. Stored[NameOf(j)] = Stored[NameOf(k + 1)]
    BY <2>1, DefaultsTyped
  <2> QED BY <1>1, <2>1, <2>2, DefaultsTyped
<1>3. FreeSlots(s.files) # {} /\ i = k + 1
  <2>1. \A j \in Slots : j \in FreeSlots(s.files) <=> j \notin 1..k
    BY DEF FreeSlots, InUse, Installed
  <2>2. k + 1 \in FreeSlots(s.files)
    BY <1>1, <2>1
  <2>3. FreeSlots(s.files) \subseteq Slots
    BY DEF FreeSlots
  <2>4. i \in FreeSlots(s.files) /\ i <= k + 1
    BY <2>2, <2>3, FirstSlot
  <2> HIDE DEF i
  <2> QED BY <2>1, <2>2, <2>3, <2>4 DEF Slots
<1>4. CanCreate(s.files, n) /\ Healthy(s)
  BY <1>2, <1>3 DEF CanCreate, Installed
<1>5. BootStep(s, DefaultFiles[k + 1]) = t
  BY <1>4 DEF BootStep, NameOf
<1>6. /\ Healthy(t)
      /\ ShortNames /\ Unique(s.files) => Unique(t.files) /\ Texts(t) = Put(Texts(s), n, c)
  <2> HIDE DEF n, c
  <2> QED BY <1>1, <1>4, CreatedThenWritten
<1>7. /\ Healthy(r) /\ OthersKeep(s, r, i) /\ i \in Slots
      /\ r.files[i].in_use /\ r.files[i].name = Stored[n]
  <2> HIDE DEF n, c
  <2> QED BY <1>1, <1>4, CreatedWhole
<1>8. /\ OthersKeep(r, t, i) /\ t.files[i].name = r.files[i].name /\ t.files[i].in_use
  <2> HIDE DEF n, c, r, i
  <2> QED BY <1>1, <1>7, WrittenWhole DEF Editable
<1> HIDE DEF r, t, i
<1>9. OthersKeep(s, t, i)
  BY <1>7, <1>8, OthersKeepTwice
<1>10. \A j \in Slots : j # k + 1 => t.files[j] = s.files[j]
  BY <1>3, <1>9 DEF OthersKeep
<1>11. InUse(t.files) = 1..(k + 1)
  <2>1. \A j \in Slots : j \in InUse(t.files) <=> j \in 1..k \/ j = k + 1
    BY <1>3, <1>8, <1>10 DEF InUse, Installed
  <2>2. \A j \in 1..(k + 1) : j \in Slots
    BY <1>1, SizesTyped DEF Slots
  <2>3. InUse(t.files) \subseteq Slots
    BY DEF InUse
  <2>4. \A j : j \in 1..(k + 1) <=> j \in 1..k \/ j = k + 1
    OBVIOUS
  <2> QED BY <2>1, <2>2, <2>3, <2>4
<1>12. ASSUME NEW j \in 1..(k + 1) PROVE t.files[j].name = Stored[NameOf(j)]
  <2>1. CASE j = k + 1
    BY <1>3, <1>7, <1>8, <2>1
  <2>2. CASE j # k + 1
    <3>1. j \in 1..k /\ j \in Slots
      BY <1>1, <2>2, SizesTyped DEF Slots
    <3> QED BY <1>10, <2>2, <3>1 DEF Installed
  <2> QED BY <2>1, <2>2
<1>13. ASSUME ShortNames PROVE Unique(t.files) /\ Texts(t) = Made(k + 1)
  <2>1. Unique(s.files) /\ Texts(s) = Made(k)
    BY <1>13 DEF Installed
  <2> QED BY <1>6, <1>13, <2>1, MadeStep
<1> QED BY <1>5, <1>6, <1>11, <1>12, <1>13 DEF Installed

LEMMA BootedInstalled == Installed(Booted, Len(DefaultFiles))
<1> DEFINE L == Len(DefaultFiles)
<1>1. L \in Nat
  BY DefaultsTyped
<1>2. PICK b : /\ b[0] = BootBase /\ b[L] = Booted
               /\ \A k \in 1..L : b[k] = BootStep(b[k - 1], DefaultFiles[k])
  BY BootedInSteps
<1> DEFINE S == {k \in Nat : k <= L => Installed(b[k], k)}
<1>3. 0 \in S
  BY <1>2, InstalledNone
<1>4. ASSUME NEW k \in Nat, k \in S PROVE k + 1 \in S
  <2> SUFFICES ASSUME k + 1 <= L PROVE Installed(b[k + 1], k + 1)
    OBVIOUS
  <2>1. Installed(b[k], k)
    BY <1>1, <1>4
  <2>2. k + 1 \in 1..L /\ (k + 1) - 1 = k
    BY <1>1
  <2>3. b[k + 1] = BootStep(b[k], DefaultFiles[k + 1])
    BY <1>2, <2>2
  <2> QED BY <2>1, <2>3, InstalledNext
<1> HIDE DEF S
<1>5. L \in S
  BY <1>1, <1>3, <1>4, NatInductive
<1> QED BY <1>2, <1>5 DEF S

-----------------------------------------------------------------------------
(* The editor.  Newlines are counted by their positions.                   *)
LEMMA NewlineAdded ==
  ASSUME NEW t \in Seq(Chars), NEW u \in Seq(Chars), Len(u) = Len(t) + 1,
         \A k \in 1..Len(t) : u[k] = t[k]
  PROVE  /\ Newlines(t) \in Nat
         /\ Newlines(u) = Newlines(t) + (IF u[Len(u)] = "nl" THEN 1 ELSE 0)
<1> DEFINE A == {k \in DOMAIN t : t[k] = "nl"}
           B == {k \in DOMAIN u : u[k] = "nl"}
<1>1. Len(t) \in Nat /\ DOMAIN t = 1..Len(t) /\ DOMAIN u = 1..Len(u)
  BY LenProperties
<1>2. IsFiniteSet(A) /\ Len(u) \notin A
  <2>1. IsFiniteSet(1..Len(t))
    BY <1>1, FS_Interval
  <2>2. A \in SUBSET (1..Len(t))
    BY <1>1
  <2> HIDE DEF A
  <2>3. IsFiniteSet(A)
    BY <2>1, <2>2, FS_Subset
  <2> QED BY <1>1, <2>2, <2>3
<1>3. CASE u[Len(u)] = "nl"
  <2>1. B = A \cup {Len(u)}
    BY <1>1, <1>3
  <2> HIDE DEF A, B
  <2>2. Cardinality(B) = Cardinality(A) + 1
    BY <1>2, <2>1, FS_AddElement
  <2> QED BY <1>2, <1>3, <2>2, FS_CardinalityType DEF A, B, Newlines
<1>4. CASE u[Len(u)] # "nl"
  <2>1. B = A
    BY <1>1, <1>4
  <2> HIDE DEF A, B
  <2>2. Cardinality(A) \in Nat
    BY <1>2, FS_CardinalityType
  <2>3. Newlines(t) = Cardinality(A) /\ Newlines(u) = Cardinality(B)
    BY DEF A, B, Newlines
  <2>4. (IF u[Len(u)] = "nl" THEN 1 ELSE 0) = 0
    BY <1>4
  <2> QED BY <2>1, <2>2, <2>3, <2>4
<1> QED BY <1>3, <1>4

LEMMA ContentsTyped ==
  /\ Contents \subseteq Seq(Chars) /\ Editable(<<>>) /\ Newlines(<<>>) = 0
  /\ \A c \in Contents : ContentSize[c] = Len(c) /\ Newlines(c) \in Nat
<1>1. Contents \subseteq Seq(Chars) /\ <<>> \in Contents /\ \A c \in Contents : ContentSize[c] = Len(c)
  BY ShellParameters
<1>2. Editable(<<>>)
  BY <1>1, EmptySeq, ShellParameters, SizesTyped DEF Editable
<1>3. Newlines(<<>>) = 0
  <2>1. {k \in DOMAIN <<>> : <<>>[k] = "nl"} = {}
    OBVIOUS
  <2> QED BY <2>1, FS_EmptySet DEF Newlines
<1>4. ASSUME NEW c \in Contents PROVE Newlines(c) \in Nat
  <2> DEFINE u == Append(c, "c")
  <2>1. u \in Seq(Chars) /\ Len(u) = Len(c) + 1 /\ \A k \in 1..Len(c) : u[k] = c[k]
    BY <1>1, AppendProperties DEF Chars
  <2> QED BY <1>1, <2>1, NewlineAdded
<1> QED BY <1>1, <1>2, <1>3, <1>4

LEMMA FrontShape ==
  ASSUME NEW S, NEW s \in Seq(S), s # <<>>
  PROVE  /\ Front(s) \in Seq(S) /\ Len(s) = Len(Front(s)) + 1
         /\ \A k \in 1..Len(Front(s)) : s[k] = Front(s)[k]
         /\ Last(s) = s[Len(s)]
<1>1. Len(s) \in Nat \ {0} /\ \A k \in 1..(Len(s) - 1) : s[k] \in S
  BY EmptySeq, LenProperties, ElementOfSeq
<1>2. /\ SubSeq(s, 1, Len(s) - 1) \in Seq(S)
      /\ Len(SubSeq(s, 1, Len(s) - 1)) = Len(s) - 1
      /\ \A k \in 1..(Len(s) - 1) : SubSeq(s, 1, Len(s) - 1)[k] = s[k]
  <2> DEFINE n == Len(s) - 1
             f == SubSeq(s, 1, n)
  <2>1. 1 \in Int /\ n \in Nat /\ n \in Int /\ \A k \in 1..n : s[k] \in S
    BY <1>1
  <2> HIDE DEF n
  <2>2. /\ f \in Seq(S)
        /\ Len(f) = IF 1 <= n THEN n - 1 + 1 ELSE 0
        /\ \A k \in 1..(n - 1 + 1) : f[k] = s[1 + k - 1]
    BY <2>1, SubSeqProperties
  <2> HIDE DEF f
  <2>3. Len(f) = n
    BY <2>1, <2>2
  <2>4. (n - 1) + 1 = n /\ \A k \in 1..n : (1 + k) - 1 = k
    BY <2>1
  <2>5. \A k \in 1..n : f[k] = s[k]
    BY <2>1, <2>2, <2>4
  <2> QED BY <2>2, <2>3, <2>5 DEF f, n
<1> QED BY <1>1, <1>2 DEF Front, Last

EditOK ==
  /\ mode \in {"shell", "edit", "command"} /\ filename \in Names \cup {NoName}
  /\ mode # "shell" => filename \in Names
  /\ Editable(edit_buffer)
  /\ current_line = 1 + Newlines(edit_buffer)
  /\ cmd_buf \in Seq(CmdChars) /\ Len(cmd_buf) <= CMD_MAX

SavedTyped == DOMAIN saved \subseteq Names /\ \A n \in DOMAIN saved : saved[n] \in Contents

(* What every step of the shell keeps, and what it keeps besides while all *)
(* names are stored whole.                                                 *)
ShellInv == Healthy(State) /\ EditOK /\ SavedTyped
NamesInv == Unique(files) /\ saved = Texts(State)

-----------------------------------------------------------------------------
(* Steps that change files.                                                *)
LEMMA StateBecomes ==
  ASSUME NEW t, Become(t), Healthy(t)
  PROVE  State' = t /\ files' = t.files
BY DEF Become, State, Healthy, StateOK

LEMMA NotedIsPut ==
  ASSUME NEW n, NEW c
  PROVE  Noted(n, c) = Put(saved, n, c)
BY DEF Noted, Put

LEMMA SavedStays ==
  ASSUME SavedTyped, NEW n \in Names, NEW c \in Contents,
         saved' = Put(saved, n, c) \/ saved' = Drop(saved, n) \/ saved' = saved
  PROVE  SavedTyped'
<1>1. CASE saved' = Put(saved, n, c)
  BY <1>1 DEF SavedTyped, Put
<1>2. CASE saved' = Drop(saved, n)
  BY <1>2 DEF SavedTyped, Drop
<1>3. CASE saved' = saved
  BY <1>3 DEF SavedTyped
<1> QED BY <1>1, <1>2, <1>3

LEMMA TouchStep ==
  ASSUME ShellInv, NEW n \in Names, Touch(n)
  PROVE  ShellInv' /\ (ShortNames /\ NamesInv => NamesInv')
<1> DEFINE t == Created(State, n)
<1>1. Become(t) /\ Healthy(State) /\ SavedTyped /\ EditOK
      /\ saved' = (IF CanCreate(State.files, n) THEN Put(saved, n, <<>>) ELSE saved)
  BY StateFields, NotedIsPut DEF Touch, ShellInv
<1>2. /\ Healthy(t)
      /\ ShortNames /\ Unique(State.files) =>
           /\ Unique(t.files)
           /\ Texts(t) = IF CanCreate(State.files, n) THEN Put(Texts(State), n, <<>>) ELSE Texts(State)
  BY <1>1, CreatedCommand
<1> HIDE DEF t
<1>3. State' = t /\ files' = t.files
  BY <1>1, <1>2, StateBecomes
<1>4. SavedTyped'
  BY <1>1, SavedStays, ContentsTyped DEF Editable
<1>5. EditOK'
  BY <1>1 DEF Touch, editor, EditOK
<1>6. Healthy(State')
  BY <1>2, <1>3
<1>7. ShortNames /\ NamesInv => NamesInv'
  BY <1>1, <1>2, <1>3, StateFields DEF NamesInv
<1> QED BY <1>4, <1>5, <1>6, <1>7 DEF ShellInv

LEMMA RmStep ==
  ASSUME ShellInv, NEW n \in Names, Rm(n)
  PROVE  ShellInv' /\ (ShortNames /\ NamesInv => NamesInv')
<1> DEFINE t == Removed(State, n)
<1>1. Become(t) /\ Healthy(State) /\ SavedTyped /\ EditOK /\ saved' = Drop(saved, n)
  BY DEF Rm, ShellInv, Drop
<1>2. /\ Healthy(t)
      /\ Unique(State.files) => Unique(t.files) /\ Texts(t) = Drop(Texts(State), n)
  BY <1>1, RemovedCommand
<1> HIDE DEF t
<1>3. State' = t /\ files' = t.files
  BY <1>1, <1>2, StateBecomes
<1>4. SavedTyped'
  BY <1>1, SavedStays, ContentsTyped DEF Editable
<1>5. EditOK'
  BY <1>1 DEF Rm, editor, EditOK
<1>6. Healthy(State')
  BY <1>2, <1>3
<1>7. NamesInv => NamesInv'
  BY <1>1, <1>2, <1>3, StateFields DEF NamesInv
<1> QED BY <1>4, <1>5, <1>6, <1>7 DEF ShellInv

LEMMA WgetStep ==
  ASSUME ShellInv, NEW n \in Names, NEW c \in Downloads, Wget(n, c)
  PROVE  ShellInv' /\ (ShortNames /\ NamesInv => NamesInv')
<1> DEFINE t == Downloaded(State, n, c)
<1>0. Editable(c) /\ c \in Contents
  BY ShellParameters DEF Editable
<1>1. Become(t) /\ Healthy(State) /\ SavedTyped /\ EditOK
      /\ saved' = (IF CanCreate(State.files, n) THEN Put(saved, n, c) ELSE saved)
  BY StateFields, NotedIsPut DEF Wget, ShellInv
<1>2. /\ Healthy(t)
      /\ ShortNames /\ Unique(State.files) =>
           /\ Unique(t.files)
           /\ Texts(t) = IF CanCreate(State.files, n) THEN Put(Texts(State), n, c) ELSE Texts(State)
  BY <1>0, <1>1, DownloadedCommand
<1> HIDE DEF t
<1>3. State' = t /\ files' = t.files
  BY <1>1, <1>2, StateBecomes
<1>4. SavedTyped'
  BY <1>0, <1>1, SavedStays
<1>5. EditOK'
  BY <1>1 DEF Wget, editor, EditOK
<1>6. Healthy(State')
  BY <1>2, <1>3
<1>7. ShortNames /\ NamesInv => NamesInv'
  BY <1>1, <1>2, <1>3, StateFields DEF NamesInv
<1> QED BY <1>4, <1>5, <1>6, <1>7 DEF ShellInv

LEMMA CmdEnterStep ==
  ASSUME ShellInv, CmdEnter
  PROVE  ShellInv' /\ (ShortNames /\ NamesInv => NamesInv')
<1>0. /\ mode = "command" /\ filename \in Names /\ Editable(edit_buffer) /\ edit_buffer \in Contents
      /\ Healthy(State) /\ SavedTyped /\ EditOK
  BY DEF CmdEnter, ShellInv, EditOK, Editable
<1>1. EditOK'
  <2>1. cmd_buf' \in Seq(CmdChars) /\ Len(cmd_buf') <= CMD_MAX
    BY EmptySeq, ShellParameters DEF CmdEnter
  <2>2. mode' = "shell" \/ mode' = "edit"
    BY DEF CmdEnter
  <2>3. CASE mode' = "shell"
    <3>1. filename' = NoName /\ edit_buffer' = <<>> /\ current_line' = 1
      BY <2>3 DEF CmdEnter
    <3>2. Editable(<<>>) /\ 1 = 1 + Newlines(<<>>)
      BY ContentsTyped
    <3> QED BY <2>1, <2>3, <3>1, <3>2 DEF EditOK
  <2>4. CASE mode' = "edit"
    <3>1. UNCHANGED <<filename, edit_buffer, current_line>>
      BY <2>4 DEF CmdEnter
    <3> QED BY <1>0, <2>1, <2>4, <3>1 DEF EditOK
  <2> QED BY <2>2, <2>3, <2>4
<1>2. CASE cmd_buf \in {<<"w">>, <<"w", "q">>}
  <2> DEFINE t == Saved(State, filename, edit_buffer)
  <2>1. /\ Become(t)
        /\ saved' = (IF SlotFor(State.files, filename) # 0
                     THEN Put(saved, filename, edit_buffer) ELSE saved)
    BY <1>2, StateFields, NotedIsPut DEF CmdEnter
  <2>2. /\ Healthy(t)
        /\ ShortNames /\ Unique(State.files) =>
             /\ Unique(t.files)
             /\ Texts(t) = IF SlotFor(State.files, filename) # 0
                           THEN Put(Texts(State), filename, edit_buffer) ELSE Texts(State)
    BY <1>0, SavedCommand
  <2> HIDE DEF t
  <2>3. State' = t /\ files' = t.files
    BY <2>1, <2>2, StateBecomes
  <2>4. SavedTyped'
    BY <1>0, <2>1, SavedStays
  <2>5. ShortNames /\ NamesInv => NamesInv'
    BY <2>1, <2>2, <2>3, StateFields DEF NamesInv
  <2> QED BY <1>1, <2>2, <2>3, <2>4, <2>5 DEF ShellInv
<1>3. CASE cmd_buf \notin {<<"w">>, <<"w", "q">>}
  <2>1. UNCHANGED <<vars, saved>>
    BY <1>3 DEF CmdEnter
  <2>2. State' = State /\ files' = files /\ saved' = saved
    BY <2>1 DEF vars, State
  <2> QED BY <1>0, <1>1, <2>2 DEF ShellInv, SavedTyped, NamesInv
<1> QED BY <1>2, <1>3

-----------------------------------------------------------------------------
(* Steps that change the editor only.                                      *)
LEMMA TextRead ==
  ASSUME NEW s, Healthy(s), NEW n
  PROVE  /\ \A t \in TextsOf(s, n) : Editable(t)
         /\ OpenIn(s.files, n) # 0 =>
              TextsOf(s, n) = {ContentOf(s, OpenIn(s.files, n), <<>>)}
<1> DEFINE i == OpenIn(s.files, n)
<1>1. CASE i = 0
  <2>1. TextsOf(s, n) = {<<>>}
    BY <1>1 DEF TextsOf
  <2> QED BY <1>1, <2>1, ContentsTyped
<1>2. CASE i # 0
  <2>1. i \in InUse(s.files) /\ i \in Slots
    BY <1>2, OpenFound DEF Matches, InUse
  <2>2. TextsOf(s, n) = IF s.files[i].data = NULL THEN [1..s.files[i].size -> Chars]
                        ELSE {s.mem[s.files[i].data]}
    BY <1>2 DEF TextsOf
  <2>3. /\ StateOK(s) /\ s.files[i].size < MAX_FILE_SIZE
        /\ s.files[i].data = NULL => s.files[i].size = 0
    BY <2>1 DEF Healthy, Roomy
  <2> HIDE DEF i
  <2>4. CASE s.files[i].data = NULL
    <3>1. [1..0 -> Chars] = {<<>>}
      <4>1. 1..0 = {}
        OBVIOUS
      <4>2. \A f \in [{} -> Chars] : f = <<>>
        OBVIOUS
      <4>3. <<>> \in [{} -> Chars]
        OBVIOUS
      <4> QED BY <4>1, <4>2, <4>3
    <3>2. TextsOf(s, n) = {<<>>}
      BY <2>2, <2>3, <2>4, <3>1
    <3>3. ContentOf(s, i, <<>>) = <<>>
      BY <2>3, <2>4, NullNotStored DEF ContentOf
    <3> QED BY <3>2, <3>3, ContentsTyped DEF i
  <2>5. CASE s.files[i].data # NULL
    <3>1. i \in Owners(s.files)
      BY <2>1, <2>5 DEF Owners
    <3> DEFINE p == s.files[i].data
    <3>2. p \in DOMAIN s.mem /\ s.files[i].size = ContentSize[s.mem[p]] /\ s.mem[p] \in Contents
      BY <2>3, <3>1 DEF StateOK
    <3>3. Editable(s.mem[p])
      BY <2>3, <3>2 DEF Editable
    <3>4. ContentOf(s, i, <<>>) = s.mem[p]
      BY <3>2 DEF ContentOf
    <3> QED BY <2>2, <2>5, <3>3, <3>4 DEF i
  <2> QED BY <2>4, <2>5
<1> QED BY <1>1, <1>2

LEMMA EditStep ==
  ASSUME ShellInv, NEW n \in Names, Edit(n)
  PROVE  EditOK'
<1>1. edit_buffer' \in TextsOf(State, n) /\ current_line' = 1 + Newlines(edit_buffer')
      /\ mode' = "edit" /\ filename' = n /\ cmd_buf' = <<>>
  BY DEF Edit
<1>2. Editable(edit_buffer')
  BY <1>1, TextRead DEF ShellInv
<1>3. cmd_buf' \in Seq(CmdChars) /\ Len(cmd_buf') <= CMD_MAX
  BY <1>1, EmptySeq, ShellParameters
<1> QED BY <1>1, <1>2, <1>3 DEF EditOK

LEMMA InsertStep ==
  ASSUME EditOK, NEW ch \in Chars, Insert(ch)
  PROVE  EditOK'
<1> DEFINE u == Append(edit_buffer, ch)
<1>1. /\ edit_buffer \in Contents /\ edit_buffer \in Seq(Chars)
      /\ Len(edit_buffer) < MAX_FILE_SIZE - 1 /\ u \in Contents
      /\ edit_buffer' = u /\ current_line' = current_line + (IF ch = "nl" THEN 1 ELSE 0)
      /\ current_line = 1 + Newlines(edit_buffer)
      /\ UNCHANGED <<mode, filename, cmd_buf>>
  BY ContentsTyped DEF EditOK, Editable, Insert
<1>2. /\ u \in Seq(Chars) /\ Len(u) = Len(edit_buffer) + 1
      /\ \A k \in 1..Len(edit_buffer) : u[k] = edit_buffer[k]
      /\ u[Len(u)] = ch
  BY <1>1, AppendProperties
<1> HIDE DEF u
<1>3. Newlines(edit_buffer) \in Nat
      /\ Newlines(u) = Newlines(edit_buffer) + (IF u[Len(u)] = "nl" THEN 1 ELSE 0)
  BY <1>1, <1>2, NewlineAdded
<1>4. current_line' = 1 + Newlines(edit_buffer')
  BY <1>1, <1>2, <1>3
<1>5. Editable(edit_buffer')
  <2>1. Len(edit_buffer) \in Nat /\ ContentSize[u] = Len(u)
    BY <1>1, LenProperties, ContentsTyped
  <2> QED BY <1>1, <1>2, <2>1, SizesTyped DEF Editable
<1> QED BY <1>1, <1>4, <1>5 DEF EditOK

LEMMA BackspaceStep ==
  ASSUME EditOK, Backspace
  PROVE  EditOK'
<1> DEFINE t == Front(edit_buffer)
<1>1. /\ edit_buffer \in Contents /\ edit_buffer \in Seq(Chars) /\ edit_buffer # <<>>
      /\ ContentSize[edit_buffer] < MAX_FILE_SIZE
      /\ edit_buffer' = t
      /\ current_line' = current_line - (IF Last(edit_buffer) = "nl" THEN 1 ELSE 0)
      /\ current_line = 1 + Newlines(edit_buffer)
      /\ UNCHANGED <<mode, filename, cmd_buf>>
  BY ContentsTyped DEF EditOK, Editable, Backspace
<1>2. /\ t \in Seq(Chars) /\ Len(edit_buffer) = Len(t) + 1
      /\ \A k \in 1..Len(t) : edit_buffer[k] = t[k]
      /\ Last(edit_buffer) = edit_buffer[Len(edit_buffer)]
  BY <1>1, FrontShape
<1>3. t \in Contents
  BY <1>1, ShellParameters
<1> HIDE DEF t
<1>4. /\ Newlines(t) \in Nat
      /\ Newlines(edit_buffer) =
           Newlines(t) + (IF edit_buffer[Len(edit_buffer)] = "nl" THEN 1 ELSE 0)
  BY <1>1, <1>2, NewlineAdded
<1>5. current_line' = 1 + Newlines(edit_buffer')
  BY <1>1, <1>2, <1>4
<1>6. Editable(edit_buffer')
  <2>1. Len(t) \in Nat /\ ContentSize[t] = Len(t) /\ ContentSize[edit_buffer] = Len(edit_buffer)
    BY <1>1, <1>2, <1>3, LenProperties, ContentsTyped
  <2> QED BY <1>1, <1>2, <1>3, <2>1, SizesTyped DEF Editable
<1> QED BY <1>1, <1>5, <1>6 DEF EditOK

LEMMA CommandKeyStep ==
  ASSUME EditOK, Colon \/ (\E ch \in CmdChars : CmdInsert(ch)) \/ CmdBackspace
  PROVE  EditOK'
<1>1. UNCHANGED <<filename, edit_buffer, current_line>>
      /\ mode # "shell" /\ mode' \in {"edit", "command"}
  BY DEF Colon, CmdInsert, CmdBackspace
<1>2. cmd_buf' \in Seq(CmdChars) /\ Len(cmd_buf') <= CMD_MAX
  <2>0. cmd_buf \in Seq(CmdChars) /\ Len(cmd_buf) \in Nat /\ Len(cmd_buf) <= CMD_MAX /\ CMD_MAX \in Nat
    BY LenProperties, ShellParameters DEF EditOK
  <2>1. CASE Colon
    BY <2>0, <2>1, EmptySeq DEF Colon
  <2>2. ASSUME NEW ch \in CmdChars, CmdInsert(ch)
        PROVE  cmd_buf' \in Seq(CmdChars) /\ Len(cmd_buf') <= CMD_MAX
    <3>1. cmd_buf' = Append(cmd_buf, ch) /\ Len(cmd_buf) < CMD_MAX
      BY <2>2 DEF CmdInsert
    <3>2. Append(cmd_buf, ch) \in Seq(CmdChars) /\ Len(Append(cmd_buf, ch)) = Len(cmd_buf) + 1
      BY <2>0, AppendProperties
    <3> QED BY <2>0, <3>1, <3>2
  <2>3. CASE CmdBackspace
    <3>1. cmd_buf' = Front(cmd_buf) /\ cmd_buf # <<>>
      BY <2>3 DEF CmdBackspace
    <3>2. Front(cmd_buf) \in Seq(CmdChars) /\ Len(cmd_buf) = Len(Front(cmd_buf)) + 1
      BY <2>0, <3>1, FrontShape
    <3>3. Len(Front(cmd_buf)) \in Nat
      BY <3>2, LenProperties
    <3> QED BY <2>0, <3>1, <3>2, <3>3
  <2> QED BY <2>1, <2>2, <2>3
<1> QED BY <1>1, <1>2 DEF EditOK

LEMMA KeyStep ==
  ASSUME ShellInv, EditOK', UNCHANGED <<vars, saved>>
  PROVE  ShellInv' /\ (NamesInv => NamesInv')
<1>1. State' = State /\ files' = files /\ saved' = saved
  BY DEF vars, State
<1> QED BY <1>1 DEF ShellInv, SavedTyped, NamesInv

LEMMA ShellStep ==
  ASSUME ShellInv, [ShellNext]_shellVars
  PROVE  ShellInv' /\ (ShortNames /\ NamesInv => NamesInv')
<1>0. EditOK
  BY DEF ShellInv
<1>1. CASE UNCHANGED shellVars
  <2>1. UNCHANGED <<vars, saved>> /\ EditOK'
    BY <1>0, <1>1 DEF shellVars, editor, EditOK
  <2> QED BY <2>1, KeyStep
<1>2. ASSUME NEW n \in Names, Touch(n) \/ Rm(n) \/ Edit(n)
      PROVE  ShellInv' /\ (ShortNames /\ NamesInv => NamesInv')
  <2>1. CASE Edit(n)
    <3>1. EditOK' /\ UNCHANGED <<vars, saved>>
      BY <2>1, EditStep DEF Edit
    <3> QED BY <3>1, KeyStep
  <2> QED BY <1>2, <2>1, TouchStep, RmStep
<1>3. ASSUME NEW n \in Names, NEW d \in Downloads, Wget(n, d)
      PROVE  ShellInv' /\ (ShortNames /\ NamesInv => NamesInv')
  BY <1>3, WgetStep
<1>4. ASSUME NEW ch \in Chars, Insert(ch)
      PROVE  ShellInv' /\ (ShortNames /\ NamesInv => NamesInv')
  <2>1. EditOK' /\ UNCHANGED <<vars, saved>>
    BY <1>0, <1>4, InsertStep DEF Insert
  <2> QED BY <2>1, KeyStep
<1>5. CASE Backspace
  <2>1. EditOK' /\ UNCHANGED <<vars, saved>>
    BY <1>0, <1>5, BackspaceStep DEF Backspace
  <2> QED BY <2>1, KeyStep
<1>6. CASE Colon \/ (\E ch \in CmdChars : CmdInsert(ch)) \/ CmdBackspace
  <2>1. EditOK' /\ UNCHANGED <<vars, saved>>
    BY <1>0, <1>6, CommandKeyStep DEF Colon, CmdInsert, CmdBackspace
  <2> QED BY <2>1, KeyStep
<1>7. CASE CmdEnter
  BY <1>7, CmdEnterStep
<1> QED BY <1>1, <1>2, <1>3, <1>4, <1>5, <1>6, <1>7 DEF ShellNext

LEMMA ShellStart == ShellInit => ShellInv /\ (ShortNames => NamesInv)
<1> SUFFICES ASSUME ShellInit PROVE ShellInv /\ (ShortNames => NamesInv)
  OBVIOUS
<1> DEFINE L == Len(DefaultFiles)
<1>1. State = Booted
  <2>1. State = [files |-> Booted.files, blocks |-> Booted.blocks, mem |-> Booted.mem]
    BY DEF ShellInit, Init, State
  <2> QED BY <2>1, BootedOK DEF StateOK
<1>2. Healthy(State) /\ (ShortNames => Unique(State.files) /\ Texts(State) = Made(L))
  BY <1>1, BootedInstalled DEF Installed
<1>3. saved = Made(L)
  BY DefaultsTyped DEF ShellInit, Made, NameOf
<1>4. SavedTyped
  <2>1. DOMAIN Made(L) = {NameOf(j) : j \in 1..L}
    BY DEF Made
  <2>2. ASSUME NEW j \in 1..L PROVE NameOf(j) \in Names /\ Made(L)[NameOf(j)] \in Contents
    <3> DEFINE k == CHOOSE i \in 1..L : NameOf(i) = NameOf(j)
    <3>1. k \in 1..L
      OBVIOUS
    <3>2. Made(L)[NameOf(j)] = DefaultFiles[k][2]
      BY DEF Made
    <3> HIDE DEF k
    <3> QED BY <3>1, <3>2, DefaultsTyped DEF Editable
  <2> QED BY <1>3, <2>1, <2>2 DEF SavedTyped
<1>5. EditOK
  <2>1. mode = "shell" /\ filename = NoName /\ edit_buffer = <<>> /\ current_line = 1 /\ cmd_buf = <<>>
    BY DEF ShellInit
  <2>2. <<>> \in Seq(CmdChars) /\ Len(<<>>) <= CMD_MAX /\ Newlines(<<>>) = 0 /\ Editable(<<>>)
    BY ContentsTyped, EmptySeq, ShellParameters
  <2> QED BY <2>1, <2>2 DEF EditOK
<1> QED BY <1>2, <1>3, <1>4, <1>5, StateFields DEF ShellInv, NamesInv

-----------------------------------------------------------------------------
(* The theorems.                                                           *)

(* The inductive invariant: no write was ever refused, every text in the   *)
(* file system fits edit_buffer, and the editor's line number counts the   *)
(* newlines of what it holds (kernel.c:640-780).                           *)
THEOREM ShellInvariant == ShellSpec => []ShellInv
<1>1. ShellInit => ShellInv
  BY ShellStart
<1>2. ShellInv /\ [ShellNext]_shellVars => ShellInv'
  BY ShellStep
<1> QED BY <1>1, <1>2, PTL DEF ShellSpec

LEMMA ShellInvTyped == ShellInv => ShellTypeOK
<1> SUFFICES ASSUME ShellInv PROVE ShellTypeOK
  OBVIOUS
<1>1. VFSInv /\ EditOK /\ SavedTyped
  BY DEF ShellInv, Healthy, VFSInv
<1>2. edit_buffer \in Contents /\ edit_buffer \in Seq(Chars) /\ Newlines(edit_buffer) \in Nat
  BY <1>1, ContentsTyped DEF EditOK, Editable
<1>3. current_line \in Nat
  BY <1>1, <1>2 DEF EditOK
<1> QED BY <1>1, <1>2, <1>3, VFSInvTyped DEF ShellTypeOK, EditOK, SavedTyped

(* The table, the editor's buffers and its line number keep their types.   *)
THEOREM ShellTyped == ShellSpec => []ShellTypeOK
<1> QED BY ShellInvariant, ShellInvTyped, PTL

(* The editor never fills the last byte of edit_buffer or of cmd_buf, also *)
(* with files that wget or an earlier session wrote (kernel.c:647, 725).   *)
THEOREM ShellEditFits == ShellSpec => []EditFits
<1>1. ShellInv => EditFits
  BY ContentsTyped DEF ShellInv, EditOK, Editable, EditFits
<1> QED BY <1>1, ShellInvariant, PTL

(* The line number the editor shows is one more than the newlines before   *)
(* the end of its text (kernel.c:663, 773).                                *)
THEOREM ShellLineNumber == ShellSpec => []LineNumberExact
<1>1. ShellInv => LineNumberExact
  BY DEF ShellInv, EditOK, LineNumberExact
<1> QED BY <1>1, ShellInvariant, PTL

(* kmalloc grants every write of a text the editor can hold, however       *)
(* touch, rm, wget and :w have cut the heap up (vfs.c:93-99).              *)
THEOREM ShellWritesNeverFail == ShellSpec => []WritesNeverFail
<1>1. ASSUME ShellInv, NEW i \in Slots, NEW t \in Contents, files[i].in_use, Len(t) < MAX_FILE_SIZE
      PROVE  Written(State, i, t).files[i].data # NULL
  <2>1. StateOK(State) /\ SmallBlocks(State.blocks) /\ State.files[i].in_use
    BY <1>1, StateFields DEF ShellInv, Healthy, Roomy
  <2>2. ~TooLarge(t)
    BY <1>1, ContentsTyped, SizesTyped DEF TooLarge
  <2> QED BY <2>1, <2>2, WriteGranted
<1>2. ShellInv => WritesNeverFail
  BY <1>1 DEF WritesNeverFail
<1> QED BY <1>2, ShellInvariant, PTL

LEMMA ShellInvReadable ==
  ASSUME ShellInv, NamesInv
  PROVE  SavedIsReadable
<1>1. Healthy(State) /\ saved = Texts(State) /\ State.files = files
  BY StateFields DEF ShellInv, NamesInv
<1>2. DOMAIN saved = NamesIn(files)
  BY <1>1 DEF Texts, MapOf
<1>3. NamesIn(files) = {files[i].name : i \in {j \in Slots : files[j].in_use}}
  BY DEF NamesIn, InUse
<1>4. ASSUME NEW n \in DOMAIN saved PROVE TextsOf(State, n) = {saved[n]}
  <2>1. PICK i \in InUse(files) : n = files[i].name
    BY <1>2 DEF NamesIn
  <2>2. Matches(files, n) # {}
    BY <2>1 DEF Matches, InUse
  <2>3. OpenIn(files, n) # 0
    BY <2>2, OpenFound
  <2>4. TextsOf(State, n) = {ContentOf(State, OpenIn(files, n), <<>>)}
    BY <1>1, <2>3, TextRead
  <2>5. saved[n] = ContentOf(State, OpenIn(files, n), <<>>)
    BY <1>1, <1>2 DEF Texts, MapOf
  <2> QED BY <2>4, <2>5
<1> QED BY <1>2, <1>3, <1>4 DEF SavedIsReadable

(* When no name is cut by str_copy, every file reads as the text that was  *)
(* last saved, downloaded or touched under its name, through any history   *)
(* of commands, reused slots and reused blocks.                            *)
THEOREM ShellSavedReadable ==
  ASSUME ShortNames
  PROVE  ShellSpec => []SavedIsReadable
<1>1. ShellInit => ShellInv /\ NamesInv
  BY ShellStart
<1>2. (ShellInv /\ NamesInv) /\ [ShellNext]_shellVars => (ShellInv /\ NamesInv)'
  BY ShellStep
<1>3. ShellInv /\ NamesInv => SavedIsReadable
  BY ShellInvReadable
<1> QED BY <1>1, <1>2, <1>3, PTL DEF ShellSpec
=============================================================================
