---------------------------- MODULE HeapBlocksProofs ----------------------------
(***************************************************************************)
(* What the operators of HeapBlocks.tla do to a well-formed list, for any  *)
(* heap size, header size and split slack.                                 *)
(***************************************************************************)
EXTENDS HeapBlocks, SequenceTheorems, WellFoundedInduction, TLAPS

(* A list as kmalloc and kfree keep it.                                    *)
ListOK(bs) == bs \in Seq(Block) /\ Tiled(bs) /\ Ascending(bs) /\ Aligned(bs)

(* The fields of a block in a list.                                        *)
LEMMA ElementsTyped ==
  ASSUME NEW bs \in Seq(Block), NEW j \in 1..Len(bs)
  PROVE  bs[j].addr \in Nat /\ bs[j].size \in Nat /\ bs[j].is_free \in BOOLEAN
<1>1. bs[j] \in Block
  BY ElementOfSeq
<1> QED BY <1>1 DEF Block

(* The sizes among the constants, without the facts about multiples of 4.  *)
LEMMA ConstantSizes ==
  /\ HEAP_START \in Nat /\ HEAP_SIZE \in Nat /\ SPLIT_SLACK \in Nat
  /\ HDR \in Nat /\ HDR > 0 /\ HEAP_START > 0 /\ HEAP_SIZE > HDR
BY HeapConstants

(* Sums of multiples of four.                                              *)
LEMMA FoursAdd ==
  ASSUME NEW x \in Nat, NEW y \in Nat, x % 4 = 0, y % 4 = 0
  PROVE  (x + y) % 4 = 0
OBVIOUS

LEMMA FoursSubtract ==
  ASSUME NEW x \in Nat, NEW y \in Nat, x >= y, x % 4 = 0, y % 4 = 0
  PROVE  (x - y) % 4 = 0
OBVIOUS

LEMMA HeaderAligned == HDR % 4 = 0 /\ HEAP_START % 4 = 0
BY HeapConstants

-----------------------------------------------------------------------------
(* Inserting shifts the later elements one place to the right.             *)
LEMMA InsertAtShape ==
  ASSUME NEW S, NEW s \in Seq(S), NEW i \in 1..(Len(s) + 1), NEW e \in S
  PROVE  /\ InsertAt(s, i, e) \in Seq(S)
         /\ Len(InsertAt(s, i, e)) = Len(s) + 1
         /\ \A j \in 1..(i - 1) : InsertAt(s, i, e)[j] = s[j]
         /\ InsertAt(s, i, e)[i] = e
         /\ \A j \in (i + 1)..(Len(s) + 1) : InsertAt(s, i, e)[j] = s[j - 1]
<1> DEFINE l == SubSeq(s, 1, i - 1)
           r == SubSeq(s, i, Len(s))
<1>0. Len(s) \in Nat /\ \A k \in 1..Len(s) : s[k] \in S
  BY LenProperties, ElementOfSeq
<1>1. /\ l \in Seq(S) /\ Len(l) = i - 1
      /\ \A k \in 1..(i - 1) : l[k] = s[k]
  <2>1. \A k \in 1..(i - 1) : s[k] \in S
    BY <1>0
  <2> QED BY <1>0, <2>1, SubSeqProperties
<1>2. /\ r \in Seq(S) /\ Len(r) = Len(s) - i + 1
      /\ \A k \in 1..(Len(s) - i + 1) : r[k] = s[i + k - 1]
  <2>1. \A k \in i..Len(s) : s[k] \in S
    BY <1>0
  <2>2. i \in Int /\ Len(s) \in Int
    BY <1>0
  <2>3. /\ r \in Seq(S) /\ Len(r) = IF i <= Len(s) THEN Len(s) - i + 1 ELSE 0
        /\ \A k \in 1..(Len(s) - i + 1) : r[k] = s[i + k - 1]
    BY <2>1, <2>2, SubSeqProperties
  <2> QED BY <1>0, <2>3
<1>3. <<e>> \in Seq(S) /\ Len(<<e>>) = 1 /\ <<e>>[1] = e
  OBVIOUS
<1>4. /\ l \o <<e>> \in Seq(S) /\ Len(l \o <<e>>) = i
      /\ \A k \in 1..i : (l \o <<e>>)[k] = IF k < i THEN s[k] ELSE e
  <2>1. /\ l \o <<e>> \in Seq(S) /\ Len(l \o <<e>>) = Len(l) + Len(<<e>>)
        /\ \A k \in 1..(Len(l) + Len(<<e>>)) :
             (l \o <<e>>)[k] = IF k <= Len(l) THEN l[k] ELSE <<e>>[k - Len(l)]
    BY <1>1, <1>3, ConcatProperties
  <2> HIDE DEF l
  <2> QED BY <1>0, <1>1, <1>3, <2>1
<1>5. /\ (l \o <<e>>) \o r \in Seq(S)
      /\ Len((l \o <<e>>) \o r) = Len(l \o <<e>>) + Len(r)
      /\ \A k \in 1..(Len(l \o <<e>>) + Len(r)) :
           ((l \o <<e>>) \o r)[k] =
             IF k <= Len(l \o <<e>>) THEN (l \o <<e>>)[k] ELSE r[k - Len(l \o <<e>>)]
  BY ZenonT(30), <1>2, <1>4, ConcatProperties
<1>6. InsertAt(s, i, e) = (l \o <<e>>) \o r
  BY DEF InsertAt
<1> HIDE DEF l, r
<1> DEFINE m == l \o <<e>>
<1> HIDE DEF m
<1>7. /\ m \o r \in Seq(S) /\ Len(m \o r) = i + Len(r)
      /\ \A k \in 1..(i + Len(r)) : (m \o r)[k] = IF k <= i THEN m[k] ELSE r[k - i]
  BY <1>4, <1>5 DEF m
<1>8. \A k \in 1..i : m[k] = IF k < i THEN s[k] ELSE e
  BY <1>4 DEF m
<1>9. InsertAt(s, i, e) = m \o r
  BY <1>6 DEF m
<1> DEFINE t == m \o r
<1>10. /\ t \in Seq(S) /\ Len(t) = i + Len(r)
       /\ \A k \in 1..(i + Len(r)) : t[k] = IF k <= i THEN m[k] ELSE r[k - i]
  BY <1>7
<1>11. InsertAt(s, i, e) = t
  BY <1>9
<1> HIDE DEF t
<1> QED
  <2>1. Len(t) = Len(s) + 1
    BY <1>0, <1>2, <1>10
  <2>2. ASSUME NEW j \in 1..(Len(s) + 1)
        PROVE  t[j] = IF j < i THEN s[j] ELSE IF j = i THEN e ELSE s[j - 1]
    <3>0. j \in Int /\ i \in Int /\ Len(r) \in Nat /\ i + Len(r) = Len(s) + 1
      BY <1>0, <1>2
    <3>1. CASE j <= i
      <4>1. j \in 1..(i + Len(r)) /\ j \in 1..i
        BY <3>0, <3>1
      <4>2. t[j] = m[j]
        BY <1>10, <4>1, <3>1
      <4> QED BY <1>8, <4>1, <4>2, <3>0, <3>1
    <3>2. CASE j > i
      <4>1. t[j] = r[j - i]
        BY <1>10, <3>0, <3>2
      <4>2. r[j - i] = s[i + (j - i) - 1]
        BY <1>2, <3>0, <3>2
      <4>3. i + (j - i) - 1 = j - 1
        BY <3>0
      <4> QED BY <3>0, <4>1, <4>2, <4>3, <3>2
    <3> QED BY <3>0, <3>1, <3>2
  <2>3. /\ \A j \in 1..(i - 1) : t[j] = s[j]
        /\ t[i] = e
        /\ \A j \in (i + 1)..(Len(s) + 1) : t[j] = s[j - 1]
    BY <1>0, <2>2
  <2> QED BY <1>10, <1>11, <2>1, <2>3

(* Removing shifts the later elements one place to the left.               *)
LEMMA RemoveAtShape ==
  ASSUME NEW S, NEW s \in Seq(S), NEW i \in 1..Len(s)
  PROVE  /\ RemoveAt(s, i) \in Seq(S)
         /\ Len(RemoveAt(s, i)) = Len(s) - 1
         /\ \A j \in 1..(Len(s) - 1) :
              RemoveAt(s, i)[j] = IF j < i THEN s[j] ELSE s[j + 1]
<1> DEFINE l == SubSeq(s, 1, i - 1)
           r == SubSeq(s, i + 1, Len(s))
<1>0. Len(s) \in Nat /\ \A k \in 1..Len(s) : s[k] \in S
  BY LenProperties, ElementOfSeq
<1>1. /\ l \in Seq(S) /\ Len(l) = i - 1
      /\ \A k \in 1..(i - 1) : l[k] = s[k]
  <2>1. \A k \in 1..(i - 1) : s[k] \in S
    BY <1>0
  <2> QED BY <1>0, <2>1, SubSeqProperties
<1>2. /\ r \in Seq(S) /\ Len(r) = Len(s) - i
      /\ \A k \in 1..(Len(s) - i) : r[k] = s[i + k]
  <2>1. \A k \in (i + 1)..Len(s) : s[k] \in S
    BY <1>0
  <2>2. i + 1 \in Int /\ Len(s) \in Int
    BY <1>0
  <2>3. /\ r \in Seq(S) /\ Len(r) = IF i + 1 <= Len(s) THEN Len(s) - (i + 1) + 1 ELSE 0
        /\ \A k \in 1..(Len(s) - (i + 1) + 1) : r[k] = s[(i + 1) + k - 1]
    BY <2>1, <2>2, SubSeqProperties
  <2> QED BY <1>0, <2>3
<1>3. /\ l \o r \in Seq(S) /\ Len(l \o r) = Len(l) + Len(r)
      /\ \A k \in 1..(Len(l) + Len(r)) :
           (l \o r)[k] = IF k <= Len(l) THEN l[k] ELSE r[k - Len(l)]
  BY <1>1, <1>2, ConcatProperties
<1>4. RemoveAt(s, i) = l \o r
  BY DEF RemoveAt
<1> HIDE DEF l, r
<1> DEFINE t == l \o r
<1>5. /\ t \in Seq(S) /\ Len(t) = Len(l) + Len(r)
      /\ \A k \in 1..(Len(l) + Len(r)) : t[k] = IF k <= Len(l) THEN l[k] ELSE r[k - Len(l)]
  BY <1>3
<1>6. RemoveAt(s, i) = t
  BY <1>4
<1> HIDE DEF t
<1> QED
  <2>1. Len(t) = Len(s) - 1
    BY <1>0, <1>1, <1>2, <1>5
  <2>2. ASSUME NEW j \in 1..(Len(s) - 1)
        PROVE  t[j] = IF j < i THEN s[j] ELSE s[j + 1]
    <3>0. j \in Int /\ i \in Int /\ Len(l) = i - 1 /\ Len(l) + Len(r) = Len(s) - 1
      BY <1>0, <1>1, <1>2
    <3>1. CASE j < i
      BY <1>1, <1>5, <3>0, <3>1
    <3>2. CASE j >= i
      <4>1. t[j] = r[j - (i - 1)]
        BY SMTT(30), <1>5, <3>0, <3>2
      <4>2. r[j - (i - 1)] = s[i + (j - (i - 1))]
        BY <1>0, <1>2, <3>0, <3>2
      <4>3. i + (j - (i - 1)) = j + 1
        BY <3>0
      <4> QED BY <3>0, <4>1, <4>2, <4>3, <3>2
    <3> QED BY <3>0, <3>1, <3>2
  <2> QED BY <1>5, <1>6, <2>1, <2>2

-----------------------------------------------------------------------------
(* Setting the is_free field of one block.                                 *)
LEMMA MarkShape ==
  ASSUME NEW bs \in Seq(Block), NEW i \in 1..Len(bs), NEW f \in BOOLEAN
  PROVE  LET r == [bs EXCEPT ![i].is_free = f]
         IN  /\ r \in Seq(Block) /\ Len(r) = Len(bs)
             /\ \A j \in 1..Len(bs) :
                  r[j] = IF j = i THEN [addr |-> bs[i].addr, size |-> bs[i].size, is_free |-> f]
                                  ELSE bs[j]
<1> DEFINE e == [addr |-> bs[i].addr, size |-> bs[i].size, is_free |-> f]
<1>1. bs[i] \in Block
  BY ElementOfSeq
<1>2. e \in Block
  BY <1>1 DEF Block
<1>3. [bs[i] EXCEPT !.is_free = f] = e
  BY <1>1 DEF Block
<1>4. [bs EXCEPT ![i].is_free = f] = [bs EXCEPT ![i] = e]
  BY <1>3
<1> HIDE DEF e
<1>5. /\ [bs EXCEPT ![i] = e] \in Seq(Block)
      /\ Len([bs EXCEPT ![i] = e]) = Len(bs)
      /\ \A j \in 1..Len(bs) : [bs EXCEPT ![i] = e][j] = IF j = i THEN e ELSE bs[j]
  BY <1>2, ExceptSeq
<1> QED BY <1>4, <1>5 DEF e

(* Merging block i with its successor.                                     *)
LEMMA MergeShape ==
  ASSUME NEW bs \in Seq(Block), NEW i \in 1..(Len(bs) - 1)
  PROVE  /\ Merge(bs, i) \in Seq(Block) /\ Len(Merge(bs, i)) = Len(bs) - 1
         /\ \A j \in 1..(i - 1) : Merge(bs, i)[j] = bs[j]
         /\ Merge(bs, i)[i] = [addr |-> bs[i].addr,
                               size |-> bs[i].size + HDR + bs[i + 1].size,
                               is_free |-> bs[i].is_free]
         /\ \A j \in (i + 1)..(Len(bs) - 1) : Merge(bs, i)[j] = bs[j + 1]
<1> DEFINE e == [addr |-> bs[i].addr, size |-> bs[i].size + HDR + bs[i + 1].size,
                 is_free |-> bs[i].is_free]
           t == [bs EXCEPT ![i] = e]
<1>0. Len(bs) \in Nat /\ i \in 1..Len(bs) /\ i + 1 \in 1..Len(bs)
  BY LenProperties
<1>1. bs[i] \in Block /\ bs[i + 1] \in Block
  BY <1>0, ElementOfSeq
<1>2. e \in Block
  BY SMTT(30), <1>1, ConstantSizes DEF Block
<1>3. [bs[i] EXCEPT !.size = @ + HDR + bs[i + 1].size] = e
  BY SMTT(30), <1>1 DEF Block
<1>4. Merge(bs, i) = RemoveAt(t, i + 1)
  BY <1>3 DEF Merge
<1> HIDE DEF e
<1>5. /\ t \in Seq(Block) /\ Len(t) = Len(bs)
      /\ \A j \in 1..Len(bs) : t[j] = IF j = i THEN e ELSE bs[j]
  BY <1>0, <1>2, ExceptSeq
<1> HIDE DEF t
<1>6. /\ RemoveAt(t, i + 1) \in Seq(Block)
      /\ Len(RemoveAt(t, i + 1)) = Len(bs) - 1
      /\ \A j \in 1..(Len(bs) - 1) :
           RemoveAt(t, i + 1)[j] = IF j < i + 1 THEN t[j] ELSE t[j + 1]
  BY <1>0, <1>5, RemoveAtShape
<1>7. ASSUME NEW j \in 1..(Len(bs) - 1)
      PROVE  RemoveAt(t, i + 1)[j] = IF j < i THEN bs[j] ELSE IF j = i THEN e ELSE bs[j + 1]
  <2>1. j \in 1..Len(bs) /\ j + 1 \in 1..Len(bs) /\ j \in Int /\ i \in Int
    BY <1>0
  <2>2. RemoveAt(t, i + 1)[j] = IF j < i + 1 THEN t[j] ELSE t[j + 1]
    BY <1>6
  <2>3. t[j] = (IF j = i THEN e ELSE bs[j]) /\ t[j + 1] = (IF j + 1 = i THEN e ELSE bs[j + 1])
    BY <1>5, <2>1
  <2> QED BY <2>1, <2>2, <2>3
<1>8. /\ \A j \in 1..(i - 1) : RemoveAt(t, i + 1)[j] = bs[j]
      /\ RemoveAt(t, i + 1)[i] = e
      /\ \A j \in (i + 1)..(Len(bs) - 1) : RemoveAt(t, i + 1)[j] = bs[j + 1]
  BY <1>0, <1>7
<1> QED BY <1>4, <1>6, <1>8 DEF e

(* Taking block i without and with a split.                                *)
LEMMA SplitShape ==
  ASSUME NEW bs \in Seq(Block), NEW i \in 1..Len(bs), NEW need \in Nat,
         Splits(bs[i], need)
  PROVE  /\ Taken(bs, i, need) \in Seq(Block) /\ Len(Taken(bs, i, need)) = Len(bs) + 1
         /\ \A j \in 1..(i - 1) : Taken(bs, i, need)[j] = bs[j]
         /\ Taken(bs, i, need)[i] = [addr |-> bs[i].addr, size |-> need, is_free |-> FALSE]
         /\ Taken(bs, i, need)[i + 1] = Remainder(bs[i], need)
         /\ \A j \in (i + 2)..(Len(bs) + 1) : Taken(bs, i, need)[j] = bs[j - 1]
<1> DEFINE e == [addr |-> bs[i].addr, size |-> need, is_free |-> FALSE]
           n == Remainder(bs[i], need)
           t == [bs EXCEPT ![i] = e]
<1>0. Len(bs) \in Nat /\ i + 1 \in 1..(Len(bs) + 1)
  BY LenProperties
<1>1. bs[i] \in Block
  BY ElementOfSeq
<1>2. e \in Block /\ n \in Block
  <2>1. bs[i].addr \in Nat /\ bs[i].size \in Nat /\ bs[i].size > need + HDR
    BY SMTT(30), <1>1, ConstantSizes DEF Block, Splits
  <2>2. \A a, z \in Nat : z > need + HDR => a + HDR + need \in Nat /\ z - need - HDR \in Nat
    BY ConstantSizes
  <2>3. bs[i].addr + HDR + need \in Nat /\ bs[i].size - need - HDR \in Nat
    BY <2>1, <2>2
  <2>4. e \in Block
    BY <2>1 DEF Block
  <2>5. n \in Block
    BY <2>3 DEF Block, Remainder
  <2> QED BY <2>4, <2>5
<1>5. Taken(bs, i, need) = InsertAt(t, i + 1, n)
  BY DEF Taken
<1> HIDE DEF e, n
<1>6. /\ t \in Seq(Block) /\ Len(t) = Len(bs)
      /\ \A j \in 1..Len(bs) : t[j] = IF j = i THEN e ELSE bs[j]
  BY <1>0, <1>2, ExceptSeq
<1> HIDE DEF t
<1> DEFINE k == i + 1
<1>7. n \in Block /\ k \in 1..(Len(t) + 1) /\ t \in Seq(Block)
  BY <1>0, <1>2, <1>6
<1>k. k = i + 1
  OBVIOUS
<1> HIDE DEF k
<1>8. /\ InsertAt(t, k, n) \in Seq(Block)
      /\ Len(InsertAt(t, k, n)) = Len(t) + 1
      /\ \A j \in 1..(k - 1) : InsertAt(t, k, n)[j] = t[j]
      /\ InsertAt(t, k, n)[k] = n
      /\ \A j \in (k + 1)..(Len(t) + 1) : InsertAt(t, k, n)[j] = t[j - 1]
  <2>1. InsertAt(t, k, n) \in Seq(Block) /\ Len(InsertAt(t, k, n)) = Len(t) + 1
    BY <1>7, InsertAtShape
  <2>2. \A j \in 1..(k - 1) : InsertAt(t, k, n)[j] = t[j]
    BY <1>7, InsertAtShape
  <2>3. InsertAt(t, k, n)[k] = n
    BY <1>7, InsertAtShape
  <2>4. \A j \in (k + 1)..(Len(t) + 1) : InsertAt(t, k, n)[j] = t[j - 1]
    BY <1>7, InsertAtShape
  <2> QED BY <2>1, <2>2, <2>3, <2>4
<1>9. ASSUME NEW j \in 1..(Len(bs) + 1)
      PROVE  InsertAt(t, k, n)[j] =
               IF j < i THEN bs[j] ELSE IF j = i THEN e
               ELSE IF j = i + 1 THEN n ELSE bs[j - 1]
  <2>0. j \in Int /\ i \in Int /\ Len(t) = Len(bs) /\ k = i + 1
    BY <1>0, <1>6, <1>k
  <2>1. CASE j < i
    BY <1>6, <1>8, <2>0, <2>1
  <2>2. CASE j = i
    BY <1>6, <1>8, <2>0, <2>2
  <2>3. CASE j = i + 1
    BY <1>8, <2>0, <2>3
  <2>4. CASE j > i + 1
    <3>1. InsertAt(t, k, n)[j] = t[j - 1]
      BY <1>8, <2>0, <2>4
    <3>2. t[j - 1] = bs[j - 1]
      BY <1>6, <2>0, <2>4
    <3> QED BY <2>0, <2>4, <3>1, <3>2
  <2> QED BY <2>0, <2>1, <2>2, <2>3, <2>4
<1>10. /\ InsertAt(t, k, n) = Taken(bs, i, need)
       /\ Len(InsertAt(t, k, n)) = Len(bs) + 1
  BY <1>5, <1>6, <1>8, <1>k
<1>11. \A j \in 1..(Len(bs) + 1) :
         Taken(bs, i, need)[j] =
           IF j < i THEN bs[j] ELSE IF j = i THEN e ELSE IF j = i + 1 THEN n ELSE bs[j - 1]
  BY <1>9, <1>10
<1>12. Taken(bs, i, need) \in Seq(Block) /\ Len(Taken(bs, i, need)) = Len(bs) + 1
  BY <1>8, <1>10
<1>13. /\ \A j \in 1..(i - 1) : Taken(bs, i, need)[j] = bs[j]
       /\ Taken(bs, i, need)[i] = e
       /\ Taken(bs, i, need)[i + 1] = n
       /\ \A j \in (i + 2)..(Len(bs) + 1) : Taken(bs, i, need)[j] = bs[j - 1]
  BY <1>0, <1>11
<1> QED BY <1>12, <1>13 DEF e, n

-----------------------------------------------------------------------------
(* The three rewrites keep the list well formed.                           *)
LEMMA MarkOK ==
  ASSUME NEW bs, ListOK(bs), NEW i \in 1..Len(bs), NEW f \in BOOLEAN
  PROVE  ListOK([bs EXCEPT ![i].is_free = f])
<1> DEFINE r == [bs EXCEPT ![i].is_free = f]
<1>1. bs \in Seq(Block) /\ Len(bs) \in Nat /\ DOMAIN bs = 1..Len(bs)
  BY LenProperties DEF ListOK
<1>2. /\ r \in Seq(Block) /\ Len(r) = Len(bs)
      /\ \A j \in 1..Len(bs) :
           r[j] = IF j = i THEN [addr |-> bs[i].addr, size |-> bs[i].size, is_free |-> f]
                           ELSE bs[j]
  BY <1>1, MarkShape
<1> HIDE DEF r
<1>3. \A j \in 1..Len(bs) : r[j].addr = bs[j].addr /\ r[j].size = bs[j].size
  BY <1>2
<1>4. DOMAIN r = 1..Len(bs)
  BY <1>2, LenProperties
<1>5. Tiled(r)
  BY <1>1, <1>2, <1>3 DEF ListOK, Tiled, EndOf
<1>6. Ascending(r) /\ Aligned(r)
  BY <1>1, <1>3, <1>4 DEF ListOK, Ascending, Aligned, EndOf
<1> QED BY <1>2, <1>5, <1>6 DEF ListOK, r

LEMMA MergeOK ==
  ASSUME NEW bs, ListOK(bs), NEW i \in 1..(Len(bs) - 1)
  PROVE  ListOK(Merge(bs, i))
<1> DEFINE r == Merge(bs, i)
<1>1. bs \in Seq(Block) /\ Len(bs) \in Nat /\ DOMAIN bs = 1..Len(bs)
  BY LenProperties DEF ListOK
<1>2. \A j \in 1..Len(bs) : bs[j].addr \in Nat /\ bs[j].size \in Nat
  BY <1>1, ElementsTyped
<1>3. /\ r \in Seq(Block) /\ Len(r) = Len(bs) - 1
      /\ \A j \in 1..(i - 1) : r[j] = bs[j]
      /\ r[i] = [addr |-> bs[i].addr, size |-> bs[i].size + HDR + bs[i + 1].size,
                 is_free |-> bs[i].is_free]
      /\ \A j \in (i + 1)..(Len(bs) - 1) : r[j] = bs[j + 1]
  BY <1>1, MergeShape
<1>4. bs[i + 1].addr = EndOf(bs[i])
  BY DEF ListOK, Tiled
<1> HIDE DEF r
<1>5. \A j \in 1..(Len(bs) - 1) :
        /\ r[j].addr = IF j <= i THEN bs[j].addr ELSE bs[j + 1].addr
        /\ EndOf(r[j]) = IF j < i THEN EndOf(bs[j]) ELSE EndOf(bs[j + 1])
        /\ r[j].size = IF j < i THEN bs[j].size
                       ELSE IF j = i THEN bs[i].size + HDR + bs[i + 1].size
                       ELSE bs[j + 1].size
  <2> TAKE j \in 1..(Len(bs) - 1)
  <2>0. j \in Int /\ i \in Int /\ i \in 1..Len(bs) /\ i + 1 \in 1..Len(bs)
    BY <1>1
  <2>1. CASE j < i
    <3>1. j \in 1..(i - 1)
      BY <2>0, <2>1
    <3>2. r[j] = bs[j]
      BY <1>3, <3>1
    <3>3. j <= i /\ j # i
      BY <2>0, <2>1
    <3> QED BY <2>1, <3>2, <3>3
  <2>2. CASE j = i
    <3>1. r[j] = [addr |-> bs[i].addr, size |-> bs[i].size + HDR + bs[i + 1].size,
                  is_free |-> bs[i].is_free]
      BY <1>3, <2>0, <2>2
    <3>2. EndOf(r[j]) = EndOf(bs[i + 1])
      <4>1. /\ bs[i].addr \in Nat /\ bs[i].size \in Nat /\ bs[i + 1].size \in Nat
            /\ bs[i + 1].addr = bs[i].addr + HDR + bs[i].size
        BY <1>2, <1>4, <2>0 DEF EndOf
      <4>2. r[j].addr = bs[i].addr /\ r[j].size = bs[i].size + HDR + bs[i + 1].size
        BY <3>1
      <4>3. \A a, y, z \in Nat : a + HDR + (y + HDR + z) = (a + HDR + y) + HDR + z
        BY ConstantSizes
      <4>4. bs[i].addr + HDR + (bs[i].size + HDR + bs[i + 1].size)
              = bs[i + 1].addr + HDR + bs[i + 1].size
        BY <4>1, <4>3
      <4> QED BY <4>2, <4>4 DEF EndOf
    <3> QED BY <2>0, <2>2, <3>1, <3>2
  <2>3. CASE j > i
    <3>1. j \in (i + 1)..(Len(bs) - 1)
      BY <1>1, <2>0, <2>3
    <3>2. r[j] = bs[j + 1]
      BY <1>3, <3>1
    <3>3. ~(j <= i) /\ ~(j < i) /\ j # i
      BY <2>0, <2>3
    <3> QED BY <3>2, <3>3
  <2> QED BY <2>0, <2>1, <2>2, <2>3
<1>6. DOMAIN r = 1..(Len(bs) - 1)
  BY <1>3, LenProperties
<1>7. Tiled(r)
  <2>1. Len(r) > 0 /\ r[1].addr = HEAP_START
    BY <1>1, <1>3, <1>5 DEF ListOK, Tiled
  <2>2. EndOf(r[Len(r)]) = HEAP_START + HEAP_SIZE
    BY <1>1, <1>3, <1>5 DEF ListOK, Tiled
  <2>3. ASSUME NEW j \in 1..(Len(r) - 1)
        PROVE  r[j + 1].addr = EndOf(r[j])
    <3>1. j \in Int /\ i \in Int /\ j \in 1..(Len(bs) - 1) /\ j + 1 \in 1..(Len(bs) - 1)
      BY <1>1, <1>3
    <3>2. /\ j < i => bs[j + 1].addr = EndOf(bs[j])
          /\ j >= i => bs[(j + 1) + 1].addr = EndOf(bs[j + 1])
      BY <1>1, <1>3, <3>1 DEF ListOK, Tiled
    <3> QED BY SMTT(30), <1>5, <3>1, <3>2
  <2> QED BY <2>1, <2>2, <2>3 DEF Tiled
<1>8. Ascending(r)
  <2> SUFFICES ASSUME NEW j \in 1..(Len(bs) - 1), NEW k \in 1..(Len(bs) - 1), j < k
               PROVE  EndOf(r[j]) <= r[k].addr
    BY <1>6 DEF Ascending
  <2>1. /\ j \in 1..Len(bs) /\ j + 1 \in 1..Len(bs) /\ k \in 1..Len(bs) /\ k + 1 \in 1..Len(bs)
        /\ j \in Int /\ k \in Int /\ i \in Int
    BY <1>1
  <2>2. \A x, y \in 1..Len(bs) : x < y => EndOf(bs[x]) <= bs[y].addr
    BY <1>1 DEF ListOK, Ascending
  <2>3. CASE k <= i
    <3>1. j < i
      BY <2>1, <2>3
    <3>2. EndOf(r[j]) = EndOf(bs[j]) /\ r[k].addr = bs[k].addr
      BY <1>5, <2>3, <3>1
    <3> QED BY <2>1, <2>2, <3>2
  <2>4. CASE k > i /\ j < i
    <3>1. ~(k <= i) /\ j < k + 1
      BY <2>1, <2>4
    <3>2. EndOf(r[j]) = EndOf(bs[j]) /\ r[k].addr = bs[k + 1].addr
      BY <1>5, <2>4, <3>1
    <3> QED BY <2>1, <2>2, <3>1, <3>2
  <2>5. CASE k > i /\ j >= i
    <3>1. ~(k <= i) /\ ~(j < i) /\ j + 1 < k + 1
      BY <2>1, <2>5
    <3>2. EndOf(r[j]) = EndOf(bs[j + 1]) /\ r[k].addr = bs[k + 1].addr
      BY <1>5, <3>1
    <3> QED BY <2>1, <2>2, <3>1, <3>2
  <2> QED BY <2>1, <2>3, <2>4, <2>5
<1>9. Aligned(r)
  <2> SUFFICES ASSUME NEW j \in 1..(Len(bs) - 1)
               PROVE  r[j].addr % 4 = 0 /\ r[j].size % 4 = 0
    BY <1>6 DEF Aligned
  <2>1. \A x \in 1..Len(bs) : bs[x].addr % 4 = 0 /\ bs[x].size % 4 = 0
    BY <1>1 DEF ListOK, Aligned
  <2>2. j \in 1..Len(bs) /\ j + 1 \in 1..Len(bs) /\ i \in 1..Len(bs) /\ i + 1 \in 1..Len(bs)
    BY <1>1
  <2>3. /\ bs[i].size \in Nat /\ bs[i + 1].size \in Nat
        /\ bs[i].size % 4 = 0 /\ bs[i + 1].size % 4 = 0
    BY <1>2, <2>1, <2>2
  <2>4. (bs[i].size + HDR + bs[i + 1].size) % 4 = 0
    <3>1. (bs[i].size + HDR) % 4 = 0 /\ bs[i].size + HDR \in Nat
      <4>1. HDR \in Nat /\ HDR % 4 = 0
        BY HeaderAligned, ConstantSizes
      <4>2. (bs[i].size + HDR) % 4 = 0
        BY <2>3, <4>1, FoursAdd
      <4> QED BY SMTT(30), <2>3, <4>1, <4>2
    <3> QED BY <2>3, <3>1, FoursAdd
  <2> QED BY <1>5, <2>1, <2>2, <2>4
<1> QED BY <1>3, <1>7, <1>8, <1>9 DEF ListOK, r

LEMMA SplitOK ==
  ASSUME NEW bs, ListOK(bs), NEW i \in 1..Len(bs), NEW need \in Nat, need % 4 = 0,
         Splits(bs[i], need)
  PROVE  ListOK(Taken(bs, i, need))
<1> DEFINE r == Taken(bs, i, need)
<1>1. bs \in Seq(Block) /\ Len(bs) \in Nat /\ DOMAIN bs = 1..Len(bs)
  BY LenProperties DEF ListOK
<1>2. \A j \in 1..Len(bs) : bs[j].addr \in Nat /\ bs[j].size \in Nat
  BY <1>1, ElementsTyped
<1>3. /\ r \in Seq(Block) /\ Len(r) = Len(bs) + 1
      /\ \A j \in 1..(i - 1) : r[j] = bs[j]
      /\ r[i] = [addr |-> bs[i].addr, size |-> need, is_free |-> FALSE]
      /\ r[i + 1] = Remainder(bs[i], need)
      /\ \A j \in (i + 2)..(Len(bs) + 1) : r[j] = bs[j - 1]
  BY <1>1, SplitShape
<1> HIDE DEF r
<1> DEFINE cut == bs[i].addr + HDR + need
<1>4. /\ cut \in Nat /\ bs[i].addr <= cut /\ cut <= EndOf(bs[i])
      /\ r[i].addr = bs[i].addr /\ EndOf(r[i]) = cut
      /\ r[i + 1].addr = cut /\ EndOf(r[i + 1]) = EndOf(bs[i])
  <2>1. bs[i].addr \in Nat /\ bs[i].size \in Nat /\ bs[i].size > need + HDR
    BY <1>2, ConstantSizes DEF Splits
  <2>2. r[i].addr = bs[i].addr /\ r[i].size = need
    BY <1>3
  <2>3. r[i + 1].addr = cut /\ r[i + 1].size = bs[i].size - need - HDR
    BY <1>3 DEF Remainder
  <2>4. cut \in Nat /\ bs[i].addr <= cut /\ cut <= EndOf(bs[i])
    <3>1. \A a, z \in Nat :
            z > need + HDR => /\ a + HDR + need \in Nat /\ a <= a + HDR + need
                              /\ a + HDR + need <= a + HDR + z
      BY ConstantSizes
    <3> QED BY <2>1, <3>1 DEF EndOf
  <2>5. EndOf(r[i]) = cut
    <3>1. EndOf(r[i]) = r[i].addr + HDR + r[i].size
      BY DEF EndOf
    <3> QED BY <2>2, <3>1 DEF cut
  <2>6. cut + HDR + (bs[i].size - need - HDR) = bs[i].addr + HDR + bs[i].size
    <3>1. \A a, z \in Nat : (a + HDR + need) + HDR + (z - need - HDR) = a + HDR + z
      BY ConstantSizes
    <3> QED BY <2>1, <3>1
  <2>7. EndOf(r[i + 1]) = EndOf(bs[i])
    BY <2>3, <2>6 DEF EndOf
  <2> QED BY <2>2, <2>3, <2>4, <2>5, <2>7
<1> HIDE DEF cut
<1>5. DOMAIN r = 1..(Len(bs) + 1)
  BY <1>3, LenProperties
<1>6. ASSUME NEW j \in 1..(Len(bs) + 1)
      PROVE  /\ j < i => r[j] = bs[j] /\ j \in 1..Len(bs)
             /\ j > i + 1 => r[j] = bs[j - 1] /\ j - 1 \in 1..Len(bs)
  BY <1>1, <1>3
<1>7. Tiled(r)
  <2>1. Len(r) > 0 /\ r[1].addr = HEAP_START
    BY <1>1, <1>3, <1>4 DEF ListOK, Tiled
  <2>2. EndOf(r[Len(r)]) = HEAP_START + HEAP_SIZE
    BY <1>1, <1>3, <1>4 DEF ListOK, Tiled
  <2>3. ASSUME NEW j \in 1..(Len(r) - 1)
        PROVE  r[j + 1].addr = EndOf(r[j])
    <3>1. /\ j \in Int /\ i \in Int /\ j \in 1..(Len(bs) + 1) /\ j + 1 \in 1..(Len(bs) + 1)
      BY <1>1, <1>3
    <3>2. \A x \in 1..(Len(bs) - 1) : bs[x + 1].addr = EndOf(bs[x])
      BY DEF ListOK, Tiled
    <3>3. CASE j < i - 1
      <4>1. r[j] = bs[j] /\ r[j + 1] = bs[j + 1] /\ j \in 1..(Len(bs) - 1)
        BY <1>1, <1>6, <3>1, <3>3
      <4> QED BY <3>2, <4>1
    <3>4. CASE j = i - 1
      BY <1>4, <1>6, <3>1, <3>2, <3>4
    <3>5. CASE j = i
      BY <1>4, <3>5
    <3>6. CASE j = i + 1
      <4>1. r[j + 1] = bs[i + 1]
        BY <1>6, <3>1, <3>6
      <4> QED BY <1>1, <1>3, <1>4, <3>1, <3>2, <3>6, <4>1
    <3>7. CASE j > i + 1
      <4>1. r[j] = bs[j - 1] /\ r[j + 1] = bs[(j - 1) + 1] /\ j - 1 \in 1..(Len(bs) - 1)
        BY <1>1, <1>3, <1>6, <3>1, <3>7
      <4> QED BY <3>2, <4>1
    <3> QED BY <3>1, <3>3, <3>4, <3>5, <3>6, <3>7
  <2> QED BY <2>1, <2>2, <2>3 DEF Tiled
<1>8. Ascending(r)
  <2> SUFFICES ASSUME NEW j \in 1..(Len(bs) + 1), NEW k \in 1..(Len(bs) + 1), j < k
               PROVE  EndOf(r[j]) <= r[k].addr
    BY <1>5 DEF Ascending
  <2>1. j \in Int /\ k \in Int /\ i \in Int /\ Len(bs) \in Int
    BY <1>1
  <2>2. \A x, y \in 1..Len(bs) : x < y => EndOf(bs[x]) <= bs[y].addr
    BY <1>1 DEF ListOK, Ascending
  <2>3. \A x \in 1..Len(bs) : bs[x].addr \in Nat /\ EndOf(bs[x]) \in Nat
    BY SMTT(30), <1>2, ConstantSizes DEF EndOf
  <2>4. CASE k < i
    <3>1. r[j] = bs[j] /\ j \in 1..Len(bs) /\ r[k] = bs[k] /\ k \in 1..Len(bs)
      BY <1>6, <2>1, <2>4
    <3> QED BY <2>2, <3>1
  <2>5. CASE k = i
    <3>1. r[j] = bs[j] /\ j \in 1..Len(bs) /\ j < i
      BY <1>6, <2>1, <2>5
    <3>2. EndOf(bs[j]) <= bs[i].addr
      BY <2>2, <3>1
    <3> QED BY <1>4, <2>5, <3>1, <3>2
  <2>6. CASE k = i + 1 /\ j = i
    BY <1>4, <2>1, <2>6
  <2>7. CASE k = i + 1 /\ j < i
    <3>0. r[j] = bs[j] /\ j \in 1..Len(bs)
      BY <1>6, <2>7
    <3>1. EndOf(r[j]) <= bs[i].addr
      BY <2>2, <2>7, <3>0
    <3>2. EndOf(r[j]) \in Nat
      BY <2>3, <3>0
    <3> QED BY <1>4, <2>3, <2>7, <3>1, <3>2
  <2>8. CASE k > i + 1 /\ j > i + 1
    <3>1. /\ r[j] = bs[j - 1] /\ j - 1 \in 1..Len(bs)
          /\ r[k] = bs[k - 1] /\ k - 1 \in 1..Len(bs) /\ j - 1 < k - 1
      BY <1>6, <2>1, <2>8
    <3> QED BY <2>2, <3>1
  <2>9. CASE k > i + 1 /\ j < i
    <3>1. /\ r[j] = bs[j] /\ j \in 1..Len(bs)
          /\ r[k] = bs[k - 1] /\ k - 1 \in 1..Len(bs)
      BY <1>6, <2>1, <2>9
    <3>2. j < k - 1
      BY <2>1, <2>9
    <3> QED BY <2>2, <3>1, <3>2
  <2>10. CASE k > i + 1 /\ (j = i \/ j = i + 1)
    <3>1. r[k] = bs[k - 1] /\ k - 1 \in 1..Len(bs) /\ i < k - 1
      BY <1>6, <2>1, <2>10
    <3>2. EndOf(bs[i]) <= r[k].addr /\ r[k].addr \in Nat
      BY <2>2, <2>3, <3>1
    <3>3. EndOf(r[j]) \in Nat /\ EndOf(r[j]) <= EndOf(bs[i])
      BY <1>4, <2>3, <2>10
    <3> QED BY <2>3, <3>2, <3>3
  <2> QED BY <2>1, <2>4, <2>5, <2>6, <2>7, <2>8, <2>9, <2>10
<1>9. Aligned(r)
  <2> SUFFICES ASSUME NEW j \in 1..(Len(bs) + 1)
               PROVE  r[j].addr % 4 = 0 /\ r[j].size % 4 = 0
    BY <1>5 DEF Aligned
  <2>1. \A x \in 1..Len(bs) : bs[x].addr % 4 = 0 /\ bs[x].size % 4 = 0
    BY <1>1 DEF ListOK, Aligned
  <2>2. /\ bs[i].addr \in Nat /\ bs[i].size \in Nat /\ HDR \in Nat
        /\ bs[i].size > need + HDR
        /\ bs[i].addr % 4 = 0 /\ bs[i].size % 4 = 0 /\ HDR % 4 = 0
    BY <1>2, <2>1, ConstantSizes, HeaderAligned DEF Splits
  <2>3. (bs[i].addr + HDR + need) % 4 = 0
    <3>1. (bs[i].addr + HDR) % 4 = 0
      BY <2>2, FoursAdd
    <3>2. bs[i].addr + HDR \in Nat
      BY <2>2
    <3> QED BY <3>1, <3>2, FoursAdd
  <2>4. (bs[i].size - need - HDR) % 4 = 0
    <3>1. (bs[i].size - need) % 4 = 0
      <4>1. bs[i].size \in Nat /\ need \in Nat /\ bs[i].size >= need
        BY <2>2
      <4> QED BY <2>2, <4>1, FoursSubtract
    <3>2. bs[i].size - need \in Nat /\ bs[i].size - need >= HDR
      BY SMTT(30), <2>2
    <3> QED BY <2>2, <3>1, <3>2, FoursSubtract
  <2>5. r[i + 1].addr % 4 = 0 /\ r[i + 1].size % 4 = 0
    BY <1>3, <2>3, <2>4 DEF Remainder
  <2>6. r[i].addr % 4 = 0 /\ r[i].size % 4 = 0
    BY <1>3, <2>2
  <2>7. CASE j < i \/ j > i + 1
    BY <1>6, <2>1, <2>7
  <2>8. CASE j = i \/ j = i + 1
    BY <2>5, <2>6, <2>8
  <2> QED BY <1>1, <2>7, <2>8
<1> QED BY <1>3, <1>7, <1>8, <1>9 DEF ListOK, r

-----------------------------------------------------------------------------
(* Which blocks are in use after a rewrite, and where free blocks may meet. *)

LEMMA UsedByIndex ==
  ASSUME NEW bs \in Seq(Block)
  PROVE  \A b : b \in UsedBlocks(bs) <=> \E j \in 1..Len(bs) : b = bs[j] /\ ~bs[j].is_free
<1>1. DOMAIN bs = 1..Len(bs)
  BY LenProperties
<1> QED BY <1>1 DEF UsedBlocks, ToSet

(* Two positions of a well-formed list never hold the same block.          *)
LEMMA Distinct ==
  ASSUME NEW bs, ListOK(bs), NEW i \in 1..Len(bs), NEW j \in 1..Len(bs), i # j
  PROVE  bs[i].addr # bs[j].addr
<1>1. bs \in Seq(Block) /\ Len(bs) \in Nat /\ DOMAIN bs = 1..Len(bs)
  BY LenProperties DEF ListOK
<1>2. \A k \in 1..Len(bs) : bs[k].addr \in Nat /\ bs[k].size \in Nat /\ EndOf(bs[k]) > bs[k].addr
  <2>1. \A a, z \in Nat : a + HDR + z > a
    BY ConstantSizes
  <2> QED BY <1>1, <2>1, ElementsTyped DEF EndOf
<1>3. \A x, y \in 1..Len(bs) : x < y => EndOf(bs[x]) <= bs[y].addr
  BY <1>1 DEF ListOK, Ascending
<1>4. \A x, y \in 1..Len(bs) : x < y => bs[x].addr # bs[y].addr
  <2> TAKE x, y \in 1..Len(bs)
  <2> HAVE x < y
  <2>1. EndOf(bs[x]) \in Nat
    BY <1>2, ConstantSizes DEF EndOf
  <2> QED BY <1>2, <1>3, <2>1
<1>5. i < j \/ j < i
  BY <1>1
<1> QED BY <1>4, <1>5

(* Merging two free neighbours changes no block in use.                    *)
LEMMA MergeUsed ==
  ASSUME NEW bs \in Seq(Block), NEW i \in 1..(Len(bs) - 1),
         bs[i].is_free, bs[i + 1].is_free
  PROVE  UsedBlocks(Merge(bs, i)) = UsedBlocks(bs)
<1> DEFINE r == Merge(bs, i)
<1>1. Len(bs) \in Nat
  BY LenProperties
<1>2. /\ r \in Seq(Block) /\ Len(r) = Len(bs) - 1
      /\ \A j \in 1..(i - 1) : r[j] = bs[j]
      /\ r[i] = [addr |-> bs[i].addr, size |-> bs[i].size + HDR + bs[i + 1].size,
                 is_free |-> bs[i].is_free]
      /\ \A j \in (i + 1)..(Len(bs) - 1) : r[j] = bs[j + 1]
  BY MergeShape
<1> HIDE DEF r
<1>3. ASSUME NEW b, b \in UsedBlocks(r) PROVE b \in UsedBlocks(bs)
  <2>1. PICK j \in 1..(Len(bs) - 1) : b = r[j] /\ ~r[j].is_free
    BY <1>2, <1>3, UsedByIndex
  <2>2. j # i
    BY <1>2, <2>1
  <2>3. CASE j < i
    BY SMTT(30), <1>1, <1>2, <2>1, <2>3, UsedByIndex
  <2>4. CASE j > i
    <3>1. j + 1 \in 1..Len(bs) /\ r[j] = bs[j + 1]
      BY <1>1, <1>2, <2>4
    <3> QED BY <2>1, <3>1, UsedByIndex
  <2> QED BY <1>1, <2>2, <2>3, <2>4
<1>4. ASSUME NEW b, b \in UsedBlocks(bs) PROVE b \in UsedBlocks(r)
  <2>1. PICK j \in 1..Len(bs) : b = bs[j] /\ ~bs[j].is_free
    BY <1>4, UsedByIndex
  <2>2. j # i /\ j # i + 1
    BY <2>1
  <2>3. CASE j < i
    <3>1. j \in 1..Len(r) /\ r[j] = bs[j]
      BY <1>1, <1>2, <2>3
    <3> QED BY <1>2, <2>1, <3>1, UsedByIndex
  <2>4. CASE j > i + 1
    <3>1. j - 1 \in 1..Len(r) /\ r[j - 1] = bs[(j - 1) + 1] /\ (j - 1) + 1 = j
      BY <1>1, <1>2, <2>4
    <3> QED BY <1>2, <2>1, <3>1, UsedByIndex
  <2> QED BY <1>1, <2>2, <2>3, <2>4
<1> QED BY <1>3, <1>4 DEF r

(* The block kmalloc hands out.                                            *)
GrantOf(bs, i, need) ==
  [addr |-> bs[i].addr,
   size |-> IF Splits(bs[i], need) THEN need ELSE bs[i].size,
   is_free |-> FALSE]

(* What a call of kmalloc does to the list.                                *)
LEMMA TakenFacts ==
  ASSUME NEW bs, ListOK(bs), NEW i \in 1..Len(bs), NEW need \in Nat, need % 4 = 0,
         Fits(bs[i], need)
  PROVE  /\ ListOK(Taken(bs, i, need))
         /\ UsedBlocks(Taken(bs, i, need)) = UsedBlocks(bs) \cup {GrantOf(bs, i, need)}
         /\ Coalesced(bs) => Coalesced(Taken(bs, i, need))
<1> DEFINE r == Taken(bs, i, need)
           g == GrantOf(bs, i, need)
<1>1. bs \in Seq(Block) /\ Len(bs) \in Nat /\ bs[i].is_free
  BY LenProperties DEF ListOK, Fits
<1>2. CASE ~Splits(bs[i], need)
  <2>1. r = [bs EXCEPT ![i].is_free = FALSE]
    BY <1>2 DEF Taken
  <2>2. ListOK(r)
    BY ZenonT(30), <2>1, MarkOK
  <2>3. /\ r \in Seq(Block) /\ Len(r) = Len(bs)
        /\ \A j \in 1..Len(bs) : r[j] = IF j = i THEN g ELSE bs[j]
    <3>1. g = [addr |-> bs[i].addr, size |-> bs[i].size, is_free |-> FALSE]
      BY <1>2 DEF GrantOf
    <3>2. /\ [bs EXCEPT ![i].is_free = FALSE] \in Seq(Block)
          /\ Len([bs EXCEPT ![i].is_free = FALSE]) = Len(bs)
          /\ \A j \in 1..Len(bs) :
               [bs EXCEPT ![i].is_free = FALSE][j] =
                 IF j = i THEN [addr |-> bs[i].addr, size |-> bs[i].size, is_free |-> FALSE]
                          ELSE bs[j]
      BY <1>1, MarkShape
    <3> QED BY <2>1, <3>1, <3>2
  <2> HIDE DEF r
  <2>4. g.is_free = FALSE
    BY DEF GrantOf
  <2> HIDE DEF g
  <2>5. ASSUME NEW b PROVE b \in UsedBlocks(r) <=> b \in UsedBlocks(bs) \cup {g}
    <3>1. b \in UsedBlocks(r) <=> \E j \in 1..Len(bs) : b = r[j] /\ ~r[j].is_free
      BY <2>3, UsedByIndex
    <3>2. b \in UsedBlocks(bs) <=> \E j \in 1..Len(bs) : b = bs[j] /\ ~bs[j].is_free
      BY <1>1, UsedByIndex
    <3> QED BY <1>1, <2>3, <2>4, <3>1, <3>2
  <2>6. Coalesced(bs) => Coalesced(r)
    <3> SUFFICES ASSUME Coalesced(bs), NEW j \in 1..(Len(bs) - 1)
                 PROVE  ~(r[j].is_free /\ r[j + 1].is_free)
      BY <2>3 DEF Coalesced
    <3>1. j \in 1..Len(bs) /\ j + 1 \in 1..Len(bs) /\ ~(bs[j].is_free /\ bs[j + 1].is_free)
      BY <1>1 DEF Coalesced
    <3> QED BY <2>3, <2>4, <3>1
  <2> QED BY <2>2, <2>5, <2>6 DEF r, g
<1>3. CASE Splits(bs[i], need)
  <2>1. ListOK(r)
    BY <1>3, SplitOK
  <2>2. /\ r \in Seq(Block) /\ Len(r) = Len(bs) + 1
        /\ \A j \in 1..(i - 1) : r[j] = bs[j]
        /\ r[i] = [addr |-> bs[i].addr, size |-> need, is_free |-> FALSE]
        /\ r[i + 1] = Remainder(bs[i], need)
        /\ \A j \in (i + 2)..(Len(bs) + 1) : r[j] = bs[j - 1]
    BY ZenonT(30), <1>1, <1>3, SplitShape
  <2>3. r[i] = g /\ g.is_free = FALSE /\ r[i + 1].is_free = TRUE
    BY <1>3, <2>2 DEF GrantOf, Remainder
  <2> HIDE DEF r, g
  <2>4. ASSUME NEW b, b \in UsedBlocks(r) PROVE b \in UsedBlocks(bs) \cup {g}
    <3>1. PICK j \in 1..(Len(bs) + 1) : b = r[j] /\ ~r[j].is_free
      BY <2>2, <2>4, UsedByIndex
    <3>2. j # i + 1
      BY <2>3, <3>1
    <3>3. CASE j < i
      BY <1>1, <2>2, <3>1, <3>3, UsedByIndex
    <3>4. CASE j > i + 1
      <4>1. r[j] = bs[j - 1] /\ j - 1 \in 1..Len(bs)
        BY <1>1, <2>2, <3>4
      <4> QED BY <1>1, <3>1, <4>1, UsedByIndex
    <3> QED BY <1>1, <2>3, <3>1, <3>2, <3>3, <3>4
  <2>5. ASSUME NEW b, b \in UsedBlocks(bs) \cup {g} PROVE b \in UsedBlocks(r)
    <3>1. i \in 1..Len(r)
      BY <1>1, <2>2
    <3>2. CASE b = g
      BY <2>2, <2>3, <3>1, <3>2, UsedByIndex
    <3>3. CASE b \in UsedBlocks(bs)
      <4>1. PICK j \in 1..Len(bs) : b = bs[j] /\ ~bs[j].is_free
        BY <1>1, <3>3, UsedByIndex
      <4>2. j # i
        BY <1>1, <4>1
      <4>3. CASE j < i
        <5>1. j \in 1..Len(r) /\ r[j] = bs[j]
          BY <1>1, <2>2, <4>3
        <5> QED BY <2>2, <4>1, <5>1, UsedByIndex
      <4>4. CASE j > i
        <5>0. j + 1 \in (i + 2)..(Len(bs) + 1) /\ j + 1 \in 1..Len(r) /\ (j + 1) - 1 = j
          BY <1>1, <2>2, <4>4
        <5>1. r[j + 1] = bs[(j + 1) - 1]
          BY <2>2, <5>0
        <5> QED BY ZenonT(30), <2>2, <4>1, <5>0, <5>1, UsedByIndex
      <4> QED BY <1>1, <4>2, <4>3, <4>4
    <3> QED BY <2>5, <3>2, <3>3
  <2>6. Coalesced(bs) => Coalesced(r)
    <3> SUFFICES ASSUME Coalesced(bs), NEW j \in 1..Len(bs)
                 PROVE  ~(r[j].is_free /\ r[j + 1].is_free)
      BY <1>1, <2>2 DEF Coalesced
    <3>1. \A x \in 1..(Len(bs) - 1) : ~(bs[x].is_free /\ bs[x + 1].is_free)
      BY DEF Coalesced
    <3>2. CASE j < i - 1
      <4>1. r[j] = bs[j] /\ r[j + 1] = bs[j + 1] /\ j \in 1..(Len(bs) - 1)
        BY <1>1, <2>2, <3>2
      <4> QED BY <3>1, <4>1
    <3>3. CASE j = i - 1 \/ j = i
      BY <1>1, <2>3, <3>3
    <3>4. CASE j = i + 1
      <4>1. r[j + 1] = bs[i + 1] /\ i \in 1..(Len(bs) - 1)
        BY <1>1, <2>2, <3>4
      <4> QED BY <1>1, <3>1, <4>1
    <3>5. CASE j > i + 1
      <4>1. r[j] = bs[j - 1] /\ r[j + 1] = bs[(j - 1) + 1] /\ j - 1 \in 1..(Len(bs) - 1)
        BY <1>1, <2>2, <3>5
      <4> QED BY <3>1, <4>1
    <3> QED BY <1>1, <3>2, <3>3, <3>4, <3>5
  <2> QED BY <2>1, <2>4, <2>5, <2>6 DEF r, g
<1> QED BY <1>2, <1>3

-----------------------------------------------------------------------------
(* kfree.  The only place where two free blocks may lie next to each other *)
(* is named by its left position: after marking block i these are i - 1    *)
(* and i, and each merge removes one of them.                              *)

CoalescedBut(bs, S) ==
  \A j \in 1..(Len(bs) - 1) : j \notin S => ~(bs[j].is_free /\ bs[j + 1].is_free)

LEMMA MarkFreeFacts ==
  ASSUME NEW bs, ListOK(bs), NEW i \in 1..Len(bs), ~bs[i].is_free
  PROVE  LET m == [bs EXCEPT ![i].is_free = TRUE]
         IN  /\ ListOK(m) /\ Len(m) = Len(bs) /\ m[i].is_free
             /\ \A j \in 1..Len(bs) : j # i => m[j] = bs[j]
             /\ UsedBlocks(m) = UsedBlocks(bs) \ {bs[i]}
             /\ Coalesced(bs) => CoalescedBut(m, {i - 1, i})
<1> DEFINE m == [bs EXCEPT ![i].is_free = TRUE]
<1>1. bs \in Seq(Block) /\ Len(bs) \in Nat
  BY LenProperties DEF ListOK
<1>2. ListOK(m)
  BY MarkOK
<1>3. /\ m \in Seq(Block) /\ Len(m) = Len(bs)
      /\ \A j \in 1..Len(bs) :
           m[j] = IF j = i THEN [addr |-> bs[i].addr, size |-> bs[i].size, is_free |-> TRUE]
                           ELSE bs[j]
  BY <1>1, MarkShape
<1> HIDE DEF m
<1>4. m[i].is_free /\ \A j \in 1..Len(bs) : j # i => m[j] = bs[j]
  BY <1>3
<1>5. ASSUME NEW b PROVE b \in UsedBlocks(m) <=> b \in UsedBlocks(bs) \ {bs[i]}
  <2>1. b \in UsedBlocks(m) <=> \E j \in 1..Len(bs) : b = m[j] /\ ~m[j].is_free
    BY <1>3, UsedByIndex
  <2>2. b \in UsedBlocks(bs) <=> \E j \in 1..Len(bs) : b = bs[j] /\ ~bs[j].is_free
    BY <1>1, UsedByIndex
  <2>3. \A j \in 1..Len(bs) : j # i => bs[j] # bs[i]
    BY Distinct
  <2> QED BY <1>4, <2>1, <2>2, <2>3
<1>6. Coalesced(bs) => CoalescedBut(m, {i - 1, i})
  <2> SUFFICES ASSUME Coalesced(bs), NEW j \in 1..(Len(bs) - 1), j # i - 1, j # i
               PROVE  ~(m[j].is_free /\ m[j + 1].is_free)
    BY <1>3 DEF CoalescedBut
  <2>1. j \in 1..Len(bs) /\ j + 1 \in 1..Len(bs) /\ j + 1 # i
    BY <1>1
  <2> QED BY <1>4, <2>1 DEF Coalesced
<1> QED BY <1>2, <1>3, <1>4, <1>5, <1>6 DEF m

(* A merge of two free neighbours, or none.                                *)
LEMMA MergeIfFacts ==
  ASSUME NEW bs, ListOK(bs), NEW cond \in BOOLEAN, NEW i \in Int,
         cond => i \in 1..(Len(bs) - 1) /\ bs[i].is_free /\ bs[i + 1].is_free
  PROVE  LET r == MergeIf(cond, bs, i)
         IN  /\ ListOK(r) /\ UsedBlocks(r) = UsedBlocks(bs)
             /\ Len(r) = IF cond THEN Len(bs) - 1 ELSE Len(bs)
             /\ \A j \in 1..(i - 1) : j <= Len(bs) => r[j] = bs[j]
             /\ i \in 1..Len(bs) => r[i].is_free = bs[i].is_free
<1>1. bs \in Seq(Block) /\ Len(bs) \in Nat
  BY LenProperties DEF ListOK
<1>2. CASE ~cond
  BY <1>2 DEF MergeIf
<1>3. CASE cond
  <2>1. MergeIf(cond, bs, i) = Merge(bs, i) /\ i \in 1..(Len(bs) - 1)
    BY <1>3 DEF MergeIf
  <2>2. ListOK(Merge(bs, i)) /\ UsedBlocks(Merge(bs, i)) = UsedBlocks(bs)
    BY <1>1, <1>3, <2>1, MergeOK, MergeUsed
  <2>3. /\ Len(Merge(bs, i)) = Len(bs) - 1
        /\ \A j \in 1..(i - 1) : Merge(bs, i)[j] = bs[j]
        /\ Merge(bs, i)[i] = [addr |-> bs[i].addr, size |-> bs[i].size + HDR + bs[i + 1].size,
                              is_free |-> bs[i].is_free]
    BY <1>1, <2>1, MergeShape
  <2>4. Merge(bs, i)[i].is_free = bs[i].is_free
    BY <2>3
  <2> QED BY <1>1, <1>3, <2>1, <2>2, <2>3, <2>4
<1> QED BY <1>2, <1>3

(* Merging at i heals the pair i, and the pair i + 1 that slides into its  *)
(* place was sound because block i + 1 was free.                           *)
LEMMA MergeHeals ==
  ASSUME NEW bs \in Seq(Block), NEW i \in 1..(Len(bs) - 1), NEW S,
         bs[i].is_free, bs[i + 1].is_free, CoalescedBut(bs, S),
         \A k \in S : k \in Int /\ k <= i
  PROVE  CoalescedBut(Merge(bs, i), S \ {i})
<1> DEFINE r == Merge(bs, i)
<1>1. Len(bs) \in Nat
  BY LenProperties
<1>2. /\ Len(r) = Len(bs) - 1
      /\ \A j \in 1..(i - 1) : r[j] = bs[j]
      /\ r[i] = [addr |-> bs[i].addr, size |-> bs[i].size + HDR + bs[i + 1].size,
                 is_free |-> bs[i].is_free]
      /\ \A j \in (i + 1)..(Len(bs) - 1) : r[j] = bs[j + 1]
  BY MergeShape
<1> HIDE DEF r
<1> SUFFICES ASSUME NEW j \in 1..(Len(r) - 1), j \notin S \ {i}
             PROVE  ~(r[j].is_free /\ r[j + 1].is_free)
  BY DEF CoalescedBut, r
<1>3. \A x \in 1..(Len(bs) - 1) : x \notin S => ~(bs[x].is_free /\ bs[x + 1].is_free)
  BY DEF CoalescedBut
<1>0. j \in Int /\ i \in Int /\ j \in 1..(Len(bs) - 2)
  BY <1>1, <1>2
<1>4. CASE j < i - 1
  <2>1. r[j] = bs[j] /\ r[j + 1] = bs[j + 1]
    BY <1>0, <1>2, <1>4
  <2>2. j \in 1..(Len(bs) - 1) /\ j \notin S
    BY <1>0, <1>1, <1>4
  <2> QED BY <1>3, <2>1, <2>2
<1>5. CASE j = i - 1
  <2>1. r[j] = bs[j] /\ (r[j + 1].is_free => bs[j + 1].is_free)
    <3>1. j \in 1..(i - 1) /\ j + 1 = i
      BY <1>0, <1>5
    <3> QED BY <1>2, <3>1
  <2>2. j \in 1..(Len(bs) - 1) /\ j \notin S
    BY <1>0, <1>1, <1>5
  <2> QED BY <1>3, <2>1, <2>2
<1>6. CASE j >= i
  <2>0. j + 1 \in (i + 1)..(Len(bs) - 1) /\ j + 1 \in 1..(Len(bs) - 1)
    BY <1>0, <1>1, <1>6
  <2>1. r[j + 1] = bs[(j + 1) + 1] /\ j + 1 \notin S
    BY <1>0, <1>2, <1>6, <2>0
  <2>2. ~(bs[j + 1].is_free /\ bs[(j + 1) + 1].is_free)
    BY <1>3, <2>0, <2>1
  <2>3. r[j].is_free => bs[j + 1].is_free
    <3>1. CASE j = i
      BY <1>2, <3>1
    <3>2. CASE j > i
      <4>1. j \in (i + 1)..(Len(bs) - 1)
        BY <1>0, <1>1, <3>2
      <4> QED BY <1>2, <4>1
    <3> QED BY <1>0, <1>6, <3>1, <3>2
  <2> QED BY <2>1, <2>2, <2>3
<1> QED BY <1>0, <1>4, <1>5, <1>6

(* kfree as a whole: the list stays well formed, exactly the freed block   *)
(* leaves the blocks in use, and no two free neighbours remain.            *)
LEMMA FreedFacts ==
  ASSUME NEW bs, ListOK(bs), NEW i \in 1..Len(bs), ~bs[i].is_free
  PROVE  /\ ListOK(Freed(bs, i))
         /\ UsedBlocks(Freed(bs, i)) = UsedBlocks(bs) \ {bs[i]}
         /\ Coalesced(bs) => Coalesced(Freed(bs, i))
<1> DEFINE m == [bs EXCEPT ![i].is_free = TRUE]
           next == i < Len(bs) /\ bs[i + 1].is_free
           joined == MergeIf(next, m, i)
           prev == i > 1 /\ bs[i - 1].is_free
<1>0. bs \in Seq(Block) /\ Len(bs) \in Nat
  BY LenProperties DEF ListOK
<1>1. Freed(bs, i) = MergeIf(prev, joined, i - 1)
  BY DEF Freed
<1>2. /\ ListOK(m) /\ Len(m) = Len(bs) /\ m[i].is_free
      /\ \A j \in 1..Len(bs) : j # i => m[j] = bs[j]
      /\ UsedBlocks(m) = UsedBlocks(bs) \ {bs[i]}
      /\ Coalesced(bs) => CoalescedBut(m, {i - 1, i})
  BY MarkFreeFacts
<1> HIDE DEF m
<1>3. next \in BOOLEAN /\ prev \in BOOLEAN
  <2>1. CASE i < Len(bs)
    <3>1. i + 1 \in 1..Len(bs)
      BY <1>0, <2>1
    <3> QED BY <1>0, <3>1, ElementsTyped
  <2>2. CASE ~(i < Len(bs))
    BY <2>2
  <2> QED BY <2>1, <2>2
<1>4. next => i \in 1..(Len(m) - 1) /\ m[i].is_free /\ m[i + 1].is_free
  <2> SUFFICES ASSUME next
               PROVE  i \in 1..(Len(m) - 1) /\ m[i + 1].is_free
    BY <1>2
  <2>1. i + 1 \in 1..Len(bs) /\ i + 1 # i /\ i \in 1..(Len(bs) - 1)
    BY <1>0
  <2> QED BY <1>2, <2>1
<1>5. /\ ListOK(joined) /\ UsedBlocks(joined) = UsedBlocks(m)
      /\ Len(joined) = IF next THEN Len(m) - 1 ELSE Len(m)
      /\ \A j \in 1..(i - 1) : j <= Len(m) => joined[j] = m[j]
      /\ i \in 1..Len(m) => joined[i].is_free = m[i].is_free
  <2>1. i \in Int
    OBVIOUS
  <2> HIDE DEF next
  <2> QED BY ZenonT(30), <1>2, <1>3, <1>4, <2>1, MergeIfFacts
<1>6. Coalesced(bs) => CoalescedBut(joined, {i - 1})
  <2> SUFFICES ASSUME Coalesced(bs) PROVE CoalescedBut(joined, {i - 1})
    OBVIOUS
  <2>0. CoalescedBut(m, {i - 1, i}) /\ {i - 1, i} \ {i} = {i - 1}
    BY <1>2
  <2>1. CASE next
    <3>1. joined = Merge(m, i)
      BY <2>1 DEF MergeIf
    <3>2. CoalescedBut(Merge(m, i), {i - 1, i} \ {i})
      <4>1. \A k \in {i - 1, i} : k \in Int /\ k <= i
        OBVIOUS
      <4>2. m \in Seq(Block)
        BY <1>2 DEF ListOK
      <4> HIDE DEF next
      <4> QED BY <1>4, <2>0, <2>1, <4>1, <4>2, MergeHeals
    <3> QED BY <2>0, <3>1, <3>2
  <2>2. CASE ~next
    <3>1. joined = m
      BY <2>2 DEF MergeIf
    <3>2. i \in 1..(Len(m) - 1) => ~m[i + 1].is_free
      <4> SUFFICES ASSUME i \in 1..(Len(bs) - 1) PROVE ~m[i + 1].is_free
        BY <1>2
      <4>1. i + 1 \in 1..Len(bs) /\ i + 1 # i /\ i < Len(bs)
        BY <1>0
      <4> QED BY <1>2, <2>2, <4>1
    <3> QED BY <2>0, <3>1, <3>2 DEF CoalescedBut
  <2> QED BY <2>1, <2>2
<1> HIDE DEF joined, next
<1>7. Len(m) = Len(bs) /\ Len(joined) \in Nat /\ i <= Len(joined)
  BY <1>0, <1>2, <1>4, <1>5
<1>8. i > 1 => joined[i - 1] = bs[i - 1]
  <2> SUFFICES ASSUME i > 1 PROVE joined[i - 1] = bs[i - 1]
    OBVIOUS
  <2>1. i - 1 \in 1..(i - 1) /\ i - 1 \in 1..Len(bs) /\ i - 1 # i /\ i - 1 <= Len(m)
    BY <1>0, <1>7
  <2> QED BY <1>2, <1>5, <2>1
<1>9. joined[i].is_free
  BY <1>2, <1>5
<1>10. prev => i - 1 \in 1..(Len(joined) - 1) /\ joined[i - 1].is_free /\ joined[(i - 1) + 1].is_free
  <2> SUFFICES ASSUME prev
               PROVE  /\ i - 1 \in 1..(Len(joined) - 1) /\ joined[i - 1].is_free
                      /\ joined[(i - 1) + 1].is_free
    OBVIOUS
  <2>1. i - 1 \in 1..(Len(joined) - 1) /\ (i - 1) + 1 = i
    BY <1>0, <1>7
  <2> QED BY <1>8, <1>9, <2>1
<1>11. /\ ListOK(Freed(bs, i)) /\ UsedBlocks(Freed(bs, i)) = UsedBlocks(joined)
  <2>1. i - 1 \in Int
    OBVIOUS
  <2> HIDE DEF prev
  <2> QED BY <1>1, <1>3, <1>5, <1>10, <2>1, MergeIfFacts
<1>12. Coalesced(bs) => Coalesced(Freed(bs, i))
  <2> SUFFICES ASSUME Coalesced(bs) PROVE CoalescedBut(Freed(bs, i), {})
    BY DEF CoalescedBut, Coalesced
  <2>1. CASE prev
    <3>1. Freed(bs, i) = Merge(joined, i - 1)
      BY <1>1, <2>1 DEF MergeIf
    <3>2. joined \in Seq(Block) /\ \A k \in {i - 1} : k \in Int /\ k <= i - 1
      BY <1>5 DEF ListOK
    <3>3. CoalescedBut(Merge(joined, i - 1), {i - 1} \ {i - 1})
      BY <1>6, <1>10, <2>1, <3>2, MergeHeals
    <3>4. {i - 1} \ {i - 1} = {}
      OBVIOUS
    <3> QED BY <3>1, <3>3, <3>4
  <2>2. CASE ~prev
    <3>1. Freed(bs, i) = joined
      BY <1>1, <2>2 DEF MergeIf
    <3>2. i - 1 \in 1..(Len(joined) - 1) => ~joined[i - 1].is_free
      BY <1>8, <2>2
    <3> QED BY <1>6, <3>1, <3>2 DEF CoalescedBut
  <2> QED BY <2>1, <2>2
<1> QED BY <1>2, <1>5, <1>11, <1>12

-----------------------------------------------------------------------------
(* heap_init.                                                              *)
LEMMA InitialFacts ==
  /\ ListOK(InitialBlocks) /\ Coalesced(InitialBlocks)
  /\ UsedBlocks(InitialBlocks) = {}
<1> DEFINE b == [addr |-> HEAP_START, size |-> HEAP_SIZE - HDR, is_free |-> TRUE]
<1>1. b \in Block /\ EndOf(b) = HEAP_START + HEAP_SIZE
  BY ConstantSizes DEF Block, EndOf
<1>2. b.addr % 4 = 0 /\ b.size % 4 = 0
  <2>1. HEAP_SIZE % 4 = 0 /\ HDR % 4 = 0 /\ HEAP_START % 4 = 0
    BY HeapConstants
  <2>2. (HEAP_SIZE - HDR) % 4 = 0
    <3>1. HEAP_SIZE \in Nat /\ HDR \in Nat /\ HEAP_SIZE >= HDR
      BY ConstantSizes
    <3> QED BY <2>1, <3>1, FoursSubtract
  <2> QED BY <2>1, <2>2
<1> DEFINE s == InitialBlocks
<1>3. s \in Seq(Block) /\ Len(s) = 1 /\ s[1] = b
  BY <1>1 DEF InitialBlocks
<1>6. b.is_free /\ b.addr = HEAP_START
  OBVIOUS
<1> HIDE DEF s, b
<1>4. Tiled(s) /\ Ascending(s) /\ Aligned(s) /\ Coalesced(s)
  BY <1>1, <1>2, <1>3, <1>6 DEF Tiled, Ascending, Aligned, Coalesced
<1>5. UsedBlocks(s) = {}
  <2>1. \A x : x \notin UsedBlocks(s)
    BY <1>3, <1>6, UsedByIndex
  <2> QED BY <2>1
<1> QED BY <1>3, <1>4, <1>5 DEF ListOK, s

(* The rounding of kmalloc.                                                *)
LEMMA AlignUpFacts ==
  ASSUME NEW n \in Nat
  PROVE  /\ AlignUp(n) \in Nat /\ AlignUp(n) % 4 = 0
         /\ n + 3 < WORD => AlignUp(n) >= n
<1> DEFINE m == (n + 3) % WORD
<1>1. WORD \in Nat /\ WORD > 0
  <2>1. WORD \in Nat /\ HEAP_START + HEAP_SIZE < WORD
    BY HeapConstants
  <2> QED BY <2>1, ConstantSizes
<1>2. m \in Nat /\ (n + 3 < WORD => m = n + 3)
  BY <1>1
<1>3. AlignUp(n) = m - (m % 4)
  BY DEF AlignUp
<1> HIDE DEF m
<1>4. m - (m % 4) \in Nat /\ (m - (m % 4)) % 4 = 0 /\ m - (m % 4) >= m - 3
  BY <1>2
<1> QED BY <1>2, <1>3, <1>4

(* A block in use is a block of the list, aligned like every other.        *)
LEMMA UsedBlocksTyped ==
  ASSUME NEW bs, ListOK(bs), NEW b \in UsedBlocks(bs)
  PROVE  /\ b \in Block /\ ~b.is_free /\ b.addr % 4 = 0 /\ b.size % 4 = 0
         /\ \E j \in 1..Len(bs) : b = bs[j]
<1>1. bs \in Seq(Block) /\ DOMAIN bs = 1..Len(bs)
  BY LenProperties DEF ListOK
<1>2. PICK j \in 1..Len(bs) : b = bs[j] /\ ~bs[j].is_free
  BY <1>1, UsedByIndex
<1>3. bs[j] \in Block /\ bs[j].addr % 4 = 0 /\ bs[j].size % 4 = 0
  BY <1>1, ElementOfSeq DEF ListOK, Aligned
<1> QED BY <1>2, <1>3

-----------------------------------------------------------------------------
(* A pointer names at most one block of the list.                          *)
LEMMA OneBlockPerPointer ==
  ASSUME NEW bs, ListOK(bs), NEW i \in 1..Len(bs), NEW j \in 1..Len(bs),
         PtrOf(bs[i]) = PtrOf(bs[j])
  PROVE  i = j
<1>1. bs[i].addr \in Nat /\ bs[j].addr \in Nat
  BY ElementsTyped DEF ListOK
<1>2. bs[i].addr = bs[j].addr
  BY <1>1, ConstantSizes DEF PtrOf
<1> QED BY <1>2, Distinct

(* Every block lies inside the heap.                                       *)
LEMMA WithinHeap ==
  ASSUME NEW bs, ListOK(bs), NEW i \in 1..Len(bs)
  PROVE  HEAP_START <= bs[i].addr /\ EndOf(bs[i]) <= HEAP_START + HEAP_SIZE
<1>1. /\ bs \in Seq(Block) /\ Len(bs) \in Nat /\ DOMAIN bs = 1..Len(bs)
      /\ Tiled(bs) /\ Ascending(bs)
  BY LenProperties DEF ListOK
<1>2. \A j \in 1..Len(bs) : bs[j].addr \in Nat /\ bs[j].size \in Nat /\ EndOf(bs[j]) \in Nat
                            /\ bs[j].addr <= EndOf(bs[j])
  BY <1>1, ElementsTyped, ConstantSizes DEF EndOf
<1>3. 1 \in 1..Len(bs) /\ Len(bs) \in 1..Len(bs) /\ i \in Nat
  BY <1>1
<1>4. HEAP_START <= bs[i].addr
  <2>1. CASE i = 1
    BY <1>1, <1>2, <2>1 DEF Tiled
  <2>2. CASE i > 1
    <3>1. EndOf(bs[1]) <= bs[i].addr
      BY <1>1, <1>3, <2>2 DEF Ascending
    <3> QED BY <1>1, <1>2, <1>3, <3>1, ConstantSizes DEF Tiled
  <2> QED BY <1>3, <2>1, <2>2
<1>5. EndOf(bs[i]) <= HEAP_START + HEAP_SIZE
  <2>0. EndOf(bs[Len(bs)]) = HEAP_START + HEAP_SIZE
    BY <1>1 DEF Tiled
  <2>1. CASE i = Len(bs)
    BY <2>0, <2>1, ConstantSizes
  <2>2. CASE i < Len(bs)
    <3>1. EndOf(bs[i]) <= bs[Len(bs)].addr
      BY <1>1, <1>3, <2>2 DEF Ascending
    <3> QED BY <1>2, <1>3, <2>0, <3>1
  <2>3. \A k \in Nat : i \in 1..k => i = k \/ i < k
    OBVIOUS
  <2>4. i = Len(bs) \/ i < Len(bs)
    BY <1>1, <2>3
  <2> QED BY <2>1, <2>2, <2>4
<1> QED BY <1>4, <1>5

(* Two different blocks in use share no byte.                              *)
LEMMA BlocksApart ==
  ASSUME NEW bs, ListOK(bs), NEW b \in UsedBlocks(bs), NEW c \in UsedBlocks(bs), b # c
  PROVE  EndOf(b) <= c.addr \/ EndOf(c) <= b.addr
<1>1. PICK i \in 1..Len(bs) : b = bs[i]
  BY UsedBlocksTyped
<1>2. PICK j \in 1..Len(bs) : c = bs[j]
  BY UsedBlocksTyped
<1>3. DOMAIN bs = 1..Len(bs) /\ Len(bs) \in Nat
  BY LenProperties DEF ListOK
<1>4. i < j \/ j < i
  BY <1>1, <1>2, <1>3
<1> QED BY <1>1, <1>2, <1>3, <1>4 DEF ListOK, Ascending

-----------------------------------------------------------------------------
(* Induction over the naturals, in the form of sets.                       *)
LEMMA LeastNumber ==
  ASSUME NEW T, T \subseteq Nat, T # {}
  PROVE  \E m \in T : \A k \in T : m <= k
<1>1. PICK m \in T : \A k \in T : <<k, m>> \notin OpToRel(<, Nat)
  BY WFMin, NatLessThanWellFounded, Zenon
<1>2. \A k \in T : ~(k < m)
  BY <1>1 DEF OpToRel
<1> QED BY <1>2

LEMMA NatInductive ==
  ASSUME NEW S, 0 \in S, \A n \in Nat : n \in S => n + 1 \in S
  PROVE  \A n \in Nat : n \in S
<1> SUFFICES ASSUME Nat \ S # {} PROVE FALSE
  OBVIOUS
<1>1. PICK m \in Nat \ S : \A k \in Nat \ S : m <= k
  BY LeastNumber
<1>2. m # 0 /\ m - 1 \in Nat /\ m - 1 \in S
  BY <1>1
<1> QED BY <1>2

(* kmalloc's walk stops at a first fit whenever some block fits.           *)
LEMMA FirstFitExists ==
  ASSUME NEW bs, ListOK(bs), NEW need \in Nat, NEW k \in DOMAIN bs, Fits(bs[k], need)
  PROVE  \E i \in DOMAIN bs : IsFirstFit(bs, i, need)
<1>1. DOMAIN bs = 1..Len(bs) /\ Len(bs) \in Nat
  BY LenProperties DEF ListOK
<1> DEFINE T == {j \in DOMAIN bs : Fits(bs[j], need)}
<1>a. T \subseteq Nat /\ T # {}
  BY <1>1
<1>2. PICK i \in T : \A j \in T : i <= j
  BY <1>a, LeastNumber
<1>3. \A j \in 1..(i - 1) : j \in DOMAIN bs /\ j < i
  BY <1>1, <1>2
<1>4. \A j \in 1..(i - 1) : ~Fits(bs[j], need)
  BY <1>1, <1>2, <1>3
<1> QED BY <1>2, <1>4 DEF IsFirstFit

-----------------------------------------------------------------------------
(* Bytes.  Every byte of the heap lies in one block, header included.      *)
LEMMA BlockEnds ==
  ASSUME NEW bs, ListOK(bs), NEW i \in 1..Len(bs)
  PROVE  /\ bs[i].addr \in Nat /\ bs[i].size \in Nat /\ bs[i].is_free \in BOOLEAN
         /\ EndOf(bs[i]) = bs[i].addr + HDR + bs[i].size
         /\ EndOf(bs[i]) \in Nat /\ bs[i].addr < EndOf(bs[i])
         /\ i < Len(bs) => bs[i + 1].addr = EndOf(bs[i])
         /\ i = Len(bs) => EndOf(bs[i]) = HEAP_START + HEAP_SIZE
         /\ i = 1 => bs[i].addr = HEAP_START
<1>1. bs \in Seq(Block) /\ Len(bs) \in Nat
  BY LenProperties DEF ListOK
<1>2. bs[i].addr \in Nat /\ bs[i].size \in Nat /\ bs[i].is_free \in BOOLEAN
  BY <1>1, ElementsTyped
<1>3. i < Len(bs) => bs[i + 1].addr = EndOf(bs[i])
  <2>1. i < Len(bs) => i \in 1..(Len(bs) - 1)
    BY <1>1
  <2> QED BY <2>1 DEF ListOK, Tiled
<1>4. /\ i = Len(bs) => EndOf(bs[i]) = HEAP_START + HEAP_SIZE
      /\ i = 1 => bs[i].addr = HEAP_START
  BY DEF ListOK, Tiled
<1> QED BY <1>2, <1>3, <1>4, ConstantSizes DEF EndOf

(* Where the first k blocks end.                                           *)
EndAfter(bs, k) == IF k = 0 THEN HEAP_START ELSE EndOf(bs[k])

LEMMA EndsAfter ==
  ASSUME NEW bs, ListOK(bs), NEW k \in 1..Len(bs)
  PROVE  /\ EndAfter(bs, k - 1) = bs[k].addr /\ EndAfter(bs, k) = EndOf(bs[k])
         /\ HEAP_START <= bs[k].addr /\ EndOf(bs[k]) <= HEAP_START + HEAP_SIZE
<1>1. Len(bs) \in Nat
  BY LenProperties DEF ListOK
<1>2. CASE k = 1
  BY <1>2, BlockEnds, WithinHeap DEF EndAfter
<1>3. CASE k # 1
  <2>1. k - 1 \in 1..Len(bs) /\ k - 1 < Len(bs) /\ (k - 1) + 1 = k
    BY <1>1, <1>3
  <2>2. bs[k].addr = EndOf(bs[k - 1])
    BY <2>1, BlockEnds
  <2> QED BY <1>1, <1>3, <2>1, <2>2, WithinHeap DEF EndAfter
<1> QED BY <1>2, <1>3

LEMMA ByteInBlock ==
  ASSUME NEW bs, ListOK(bs), NEW a \in Nat,
         HEAP_START <= a, a < HEAP_START + HEAP_SIZE
  PROVE  \E i \in 1..Len(bs) : bs[i].addr <= a /\ a < EndOf(bs[i])
<1>1. Len(bs) \in Nat /\ Len(bs) > 0
  BY LenProperties DEF ListOK, Tiled
<1> DEFINE T == {i \in 1..Len(bs) : a < EndOf(bs[i])}
<1>2. T \subseteq Nat /\ T # {}
  <2>1. Len(bs) \in 1..Len(bs)
    BY <1>1
  <2>2. Len(bs) \in T
    BY <2>1, BlockEnds
  <2> QED BY <1>1, <2>2
<1>3. PICK i \in T : \A j \in T : i <= j
  BY <1>2, LeastNumber
<1>4. i \in 1..Len(bs) /\ a < EndOf(bs[i])
  BY <1>3
<1>5. bs[i].addr <= a
  <2>1. CASE i = 1
    BY <1>4, <2>1, BlockEnds
  <2>2. CASE i # 1
    <3>1. i - 1 \in 1..Len(bs) /\ i - 1 < Len(bs) /\ (i - 1) + 1 = i
      BY <1>1, <1>4, <2>2
    <3>2. i - 1 \notin T
      BY <1>3, <1>4
    <3>3. ~(a < EndOf(bs[i - 1]))
      BY <3>1, <3>2
    <3>4. bs[i].addr = EndOf(bs[i - 1]) /\ EndOf(bs[i - 1]) \in Nat
      BY <3>1, BlockEnds
    <3> QED BY <3>3, <3>4
  <2> QED BY <2>1, <2>2
<1> QED BY <1>4, <1>5

(* Bytes claimed by the used blocks of a list.                             *)
BytesOf(b) == b.addr..(EndOf(b) - 1)
UsedBytes(bs) == UNION {BytesOf(b) : b \in UsedBlocks(bs)}

LEMMA UsedByte ==
  ASSUME NEW bs, ListOK(bs), NEW i \in 1..Len(bs), NEW a \in Nat,
         bs[i].addr <= a, a < EndOf(bs[i])
  PROVE  a \in UsedBytes(bs) <=> ~bs[i].is_free
<1>0. bs \in Seq(Block)
  BY DEF ListOK
<1>1. a \in BytesOf(bs[i])
  BY BlockEnds DEF BytesOf
<1>2. ASSUME ~bs[i].is_free PROVE a \in UsedBytes(bs)
  <2>1. bs[i] \in UsedBlocks(bs)
    BY <1>0, <1>2, UsedByIndex
  <2> QED BY <1>1, <2>1 DEF UsedBytes
<1>3. ASSUME a \in UsedBytes(bs) PROVE ~bs[i].is_free
  <2>1. PICK b \in UsedBlocks(bs) : a \in BytesOf(b)
    BY <1>3 DEF UsedBytes
  <2>2. PICK j \in 1..Len(bs) : b = bs[j] /\ ~bs[j].is_free
    BY <1>0, <2>1, UsedByIndex
  <2>3. bs[j].addr <= a /\ a < EndOf(bs[j]) /\ EndOf(bs[j]) \in Nat /\ bs[j].addr \in Nat
    BY <2>1, <2>2, BlockEnds DEF BytesOf
  <2>4. EndOf(bs[i]) \in Nat /\ bs[i].addr \in Nat
    BY BlockEnds
  <2>5. ~(i < j) /\ ~(j < i)
    <3>1. DOMAIN bs = 1..Len(bs)
      BY <1>0, LenProperties
    <3>2. /\ i < j => EndOf(bs[i]) <= bs[j].addr
          /\ j < i => EndOf(bs[j]) <= bs[i].addr
      BY <3>1 DEF ListOK, Ascending
    <3> QED BY <2>3, <2>4, <3>2
  <2>6. i = j
    BY <2>5
  <2> QED BY <2>2, <2>6
<1> QED BY <1>2, <1>3

(* A run of unused bytes as long as a header and need bytes lies in one    *)
(* free block, because there is none next to it.                           *)
LEMMA RunFitsBlock ==
  ASSUME NEW bs, ListOK(bs), Coalesced(bs), NEW need \in Nat, NEW a \in Nat,
         HEAP_START <= a, a + HDR + need <= HEAP_START + HEAP_SIZE,
         (a..(a + HDR + need - 1)) \cap UsedBytes(bs) = {}
  PROVE  \E i \in 1..Len(bs) : Fits(bs[i], need)
<1>0. Len(bs) \in Nat
  BY LenProperties DEF ListOK
<1>1. PICK i \in 1..Len(bs) : bs[i].addr <= a /\ a < EndOf(bs[i])
  BY ByteInBlock, ConstantSizes
<1>2. /\ bs[i].addr \in Nat /\ bs[i].size \in Nat /\ bs[i].is_free \in BOOLEAN
      /\ EndOf(bs[i]) = bs[i].addr + HDR + bs[i].size /\ EndOf(bs[i]) \in Nat
  BY BlockEnds
<1>3. bs[i].is_free
  <2>1. a \in a..(a + HDR + need - 1)
    BY ConstantSizes
  <2> QED BY <1>1, <2>1, UsedByte
<1>4. CASE bs[i].size >= need
  BY <1>3, <1>4 DEF Fits
<1>5. CASE bs[i].size < need
  <2> DEFINE e == EndOf(bs[i])
  <2>1. e \in a..(a + HDR + need - 1) /\ e < HEAP_START + HEAP_SIZE
    BY <1>1, <1>2, <1>5, ConstantSizes
  <2>2. i # Len(bs)
    BY <2>1, BlockEnds
  <2>3. i \in 1..(Len(bs) - 1) /\ i + 1 \in 1..Len(bs) /\ i < Len(bs)
    BY <1>0, <2>2
  <2>4. bs[i + 1].addr = e /\ e < EndOf(bs[i + 1])
    BY <2>3, BlockEnds
  <2>5. ~bs[i + 1].is_free
    BY <1>3, <2>3 DEF Coalesced
  <2>6. e \in Nat /\ bs[i + 1].addr <= e
    BY <1>2, <2>4
  <2> HIDE DEF e
  <2>7. e \in UsedBytes(bs)
    BY <2>3, <2>4, <2>5, <2>6, UsedByte
  <2> QED BY <2>1, <2>7
<1> QED BY <1>2, <1>4, <1>5

-----------------------------------------------------------------------------
(* heap_stats as a row of partial results, one per block.                  *)
LEMMA MaxOfInterval ==
  ASSUME NEW m \in Nat, NEW T, T \subseteq 1..m, m \in T
  PROVE  Max(T) = m
<1>1. \A y \in T : m >= y
  OBVIOUS
<1>2. \A x \in T : (\A y \in T : x >= y) => x = m
  OBVIOUS
<1> QED BY <1>1, <1>2 DEF Max

StatsBase == [total |-> 0, used |-> 0, free_blocks |-> 0]

StatsStep(acc, b) ==
  [total       |-> acc.total + b.size + HDR,
   used        |-> acc.used + (IF b.is_free THEN 0 ELSE b.size + HDR),
   free_blocks |-> acc.free_blocks + (IF b.is_free THEN 1 ELSE 0)]

(* g maps each set of positions to the counts over its blocks.             *)
IsStats(bs, g, n) ==
  g = [T \in SUBSET (1..n) |->
         IF T = {} THEN StatsBase ELSE StatsStep(g[T \ {Max(T)}], bs[Max(T)])]

LEMMA StatsFold ==
  ASSUME NEW bs \in Seq(Block)
  PROVE  Stats(bs) = (CHOOSE g : IsStats(bs, g, Len(bs)))[1..Len(bs)]
<1>1. DOMAIN bs = 1..Len(bs)
  OBVIOUS
<1> QED BY <1>1, Zenon DEF Stats, FoldLeft, MapThenFoldSet, StatsStep, StatsBase, IsStats

LEMMA StatsExists ==
  ASSUME NEW bs
  PROVE  \A n \in Nat : \E g : IsStats(bs, g, n)
<1> DEFINE S == {n \in Nat : \E g : IsStats(bs, g, n)}
<1>1. 0 \in S
  <2> DEFINE g == [T \in SUBSET (1..0) |-> StatsBase]
  <2>1. \A T \in SUBSET (1..0) : T = {}
    OBVIOUS
  <2>2. g = [T \in SUBSET (1..0) |->
               IF T = {} THEN StatsBase ELSE StatsStep(g[T \ {Max(T)}], bs[Max(T)])]
    BY <2>1
  <2> QED BY <2>2 DEF IsStats
<1>2. ASSUME NEW n \in Nat, n \in S PROVE n + 1 \in S
  <2>1. PICK g : IsStats(bs, g, n)
    BY <1>2
  <2> DEFINE h == [T \in SUBSET (1..(n + 1)) |->
                     IF n + 1 \in T THEN StatsStep(g[T \ {n + 1}], bs[n + 1]) ELSE g[T]]
             hh == [T \in SUBSET (1..(n + 1)) |->
                      IF T = {} THEN StatsBase
                      ELSE StatsStep(h[T \ {Max(T)}], bs[Max(T)])]
  <2>2. \A T \in SUBSET (1..n) :
          /\ h[T] = g[T]
          /\ g[T] = IF T = {} THEN StatsBase ELSE StatsStep(g[T \ {Max(T)}], bs[Max(T)])
    <3> SUFFICES ASSUME NEW T \in SUBSET (1..n)
                 PROVE  /\ h[T] = g[T]
                        /\ g[T] = IF T = {} THEN StatsBase
                                  ELSE StatsStep(g[T \ {Max(T)}], bs[Max(T)])
      OBVIOUS
    <3>1. n + 1 \notin T /\ T \in SUBSET (1..(n + 1))
      OBVIOUS
    <3> QED BY <2>1, <3>1 DEF IsStats
  <2>3. \A T \in SUBSET (1..(n + 1)) : h[T] = hh[T]
    <3> SUFFICES ASSUME NEW T \in SUBSET (1..(n + 1)) PROVE h[T] = hh[T]
      OBVIOUS
    <3>1. CASE n + 1 \in T
      <4>1. Max(T) = n + 1
        <5>1. n + 1 \in Nat /\ T \subseteq 1..(n + 1)
          OBVIOUS
        <5> QED BY <3>1, <5>1, MaxOfInterval
      <4>2. T # {} /\ T \ {n + 1} \in SUBSET (1..n)
        <5>1. \A x \in T \ {n + 1} : x \in 1..n
          OBVIOUS
        <5> QED BY <3>1, <5>1
      <4>3. h[T \ {n + 1}] = g[T \ {n + 1}]
        BY <2>2, <4>2
      <4>4. h[T] = StatsStep(g[T \ {n + 1}], bs[n + 1])
        BY <3>1
      <4>5. hh[T] = StatsStep(h[T \ {n + 1}], bs[n + 1])
        BY <4>1, <4>2
      <4> HIDE DEF h, hh
      <4> QED BY <4>3, <4>4, <4>5
    <3>2. CASE n + 1 \notin T
      <4>1. T \in SUBSET (1..n) /\ T \ {Max(T)} \in SUBSET (1..n)
        <5>1. \A x \in T : x \in 1..n
          BY <3>2
        <5> QED BY <5>1
      <4>2. h[T] = g[T] /\ h[T \ {Max(T)}] = g[T \ {Max(T)}]
        BY <2>2, <4>1
      <4>3. g[T] = IF T = {} THEN StatsBase ELSE StatsStep(g[T \ {Max(T)}], bs[Max(T)])
        BY <2>2, <4>1
      <4>4. hh[T] = IF T = {} THEN StatsBase ELSE StatsStep(h[T \ {Max(T)}], bs[Max(T)])
        OBVIOUS
      <4> HIDE DEF h, hh
      <4> QED BY <4>2, <4>3, <4>4
    <3> QED BY <3>1, <3>2
  <2>4. h = hh
    <3>1. /\ h = [T \in SUBSET (1..(n + 1)) |-> h[T]]
          /\ hh = [T \in SUBSET (1..(n + 1)) |-> hh[T]]
      OBVIOUS
    <3> HIDE DEF h, hh
    <3> QED BY <2>3, <3>1
  <2>5. IsStats(bs, h, n + 1)
    BY <2>4 DEF IsStats
  <2> QED BY <2>5
<1> HIDE DEF S
<1>3. \A n \in Nat : n \in S
  BY <1>1, <1>2, NatInductive
<1> QED BY <1>3 DEF S

LEMMA StatsInSteps ==
  ASSUME NEW bs \in Seq(Block)
  PROVE  \E r : /\ r[0] = StatsBase /\ r[Len(bs)] = Stats(bs)
                /\ \A k \in 1..Len(bs) : r[k] = StatsStep(r[k - 1], bs[k])
<1> DEFINE L == Len(bs)
           g == CHOOSE g : IsStats(bs, g, L)
           r == [k \in 0..L |-> g[1..k]]
<1>1. L \in Nat
  BY LenProperties
<1>2. IsStats(bs, g, L)
  BY <1>1, StatsExists
<1>3. Stats(bs) = g[1..L]
  BY StatsFold
<1> HIDE DEF g, L
<1>4. r[0] = StatsBase
  <2>1. 1..0 = {} /\ {} \in SUBSET (1..L) /\ 0 \in 0..L
    BY <1>1
  <2> QED BY <1>2, <2>1 DEF IsStats
<1>5. ASSUME NEW k \in 1..L PROVE r[k] = StatsStep(r[k - 1], bs[k])
  <2>1. 1..k \in SUBSET (1..L) /\ 1..k # {} /\ k - 1 \in Nat
    BY <1>1
  <2>2. Max(1..k) = k
    <3>1. k \in Nat /\ 1..k \subseteq 1..k /\ k \in 1..k
      BY <1>1
    <3> QED BY <3>1, MaxOfInterval
  <2>3. (1..k) \ {k} = 1..(k - 1)
    OBVIOUS
  <2>4. g[1..k] = StatsStep(g[1..(k - 1)], bs[k])
    BY <1>2, <2>1, <2>2, <2>3 DEF IsStats
  <2>5. k \in 0..L /\ k - 1 \in 0..L
    BY <1>1
  <2> QED BY <2>4, <2>5
<1>6. r[L] = Stats(bs)
  BY <1>1, <1>3
<1> QED BY <1>4, <1>5, <1>6 DEF L
=============================================================================
