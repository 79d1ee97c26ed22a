------------------------------- MODULE VFSProofs -------------------------------
(***************************************************************************)
(* The file table over any heap, any number of slots and any contents.     *)
(*                                                                         *)
(* Every call of vfs.c takes a block away from a slot (`Detached') or      *)
(* gives one to it (`Attached'), so two lemmas about these carry all of    *)
(* them.  They are stated for states s = [files, blocks, mem], so that the *)
(* commands of the shell can use them too.                                 *)
(***************************************************************************)
EXTENDS VFSRefinement, HeapBlocksProofs, FiniteSetTheorems

File == [name : Names \cup {NoName}, size : 0..MAX_FILE_SIZE,
         data : 0..(HEAP_START + HEAP_SIZE), in_use : BOOLEAN]

Owners(fs) == {i \in Slots : fs[i].data # NULL}

(* The table and the heap agree: each content in memory has one slot and   *)
(* one block, and the block is long enough for it and its zero.            *)
StateOK(s) ==
  /\ s = [files |-> s.files, blocks |-> s.blocks, mem |-> s.mem]
  /\ s.files \in [Slots -> File]
  /\ ListOK(s.blocks) /\ Coalesced(s.blocks)
  /\ s.mem \in [DOMAIN s.mem -> Contents]
  /\ DOMAIN s.mem = {PtrOf(b) : b \in UsedBlocks(s.blocks)}
  /\ DOMAIN s.mem = {s.files[i].data : i \in Owners(s.files)}
  /\ \A i, j \in Owners(s.files) : s.files[i].data = s.files[j].data => i = j
  /\ \A i \in Owners(s.files) :
       s.files[i].in_use /\ s.files[i].size = ContentSize[s.mem[s.files[i].data]]
  /\ \A b \in UsedBlocks(s.blocks) : ContentSize[s.mem[PtrOf(b)]] + 1 <= b.size
  /\ \A i \in Slots : s.files[i].in_use => s.files[i].name \in Names

(* From s to t nothing is to be seen in slots other than i.                *)
OthersKeep(s, t, i) ==
  \A j \in Slots \ {i} :
    LET p == s.files[j].data
    IN  /\ t.files[j] = s.files[j]
        /\ (p \in DOMAIN t.mem) = (p \in DOMAIN s.mem)
        /\ p \in DOMAIN t.mem => t.mem[p] = s.mem[p]

LEMMA SizesTyped ==
  /\ MAX_FILES \in Nat /\ MAX_FILES > 0 /\ MAX_FILE_SIZE \in Nat /\ MAX_FILE_SIZE + 4 < WORD
  /\ \A c \in Contents : ContentSize[c] \in Nat
  /\ WORD \in Nat /\ NULL \in 0..(HEAP_START + HEAP_SIZE)
<1>1. ContentSize \in [Contents -> Nat]
  BY VFSParameters
<1> QED BY <1>1, VFSParameters, HeapConstants DEF NULL

(* No block's pointer is NULL, and pointers stay inside the heap.          *)
LEMMA PointersTyped ==
  ASSUME NEW bs, ListOK(bs), NEW i \in 1..Len(bs)
  PROVE  PtrOf(bs[i]) \in 1..(HEAP_START + HEAP_SIZE)
<1>1. bs[i].addr \in Nat /\ bs[i].size \in Nat
  BY ElementsTyped DEF ListOK
<1>2. HEAP_START <= bs[i].addr /\ EndOf(bs[i]) <= HEAP_START + HEAP_SIZE
  BY WithinHeap
<1> QED BY <1>1, <1>2, ConstantSizes DEF PtrOf, EndOf

LEMMA UsedPointers ==
  ASSUME NEW bs, ListOK(bs), NEW b \in UsedBlocks(bs)
  PROVE  /\ PtrOf(b) \in 1..(HEAP_START + HEAP_SIZE)
         /\ \A c \in UsedBlocks(bs) : PtrOf(c) = PtrOf(b) => c = b
<1>1. PICK i \in 1..Len(bs) : b = bs[i]
  BY UsedBlocksTyped
<1>2. ASSUME NEW c \in UsedBlocks(bs), PtrOf(c) = PtrOf(b) PROVE c = b
  <2>1. PICK j \in 1..Len(bs) : c = bs[j]
    BY UsedBlocksTyped
  <2> QED BY <1>1, <1>2, <2>1, OneBlockPerPointer
<1> QED BY <1>1, <1>2, PointersTyped

-----------------------------------------------------------------------------
(* kfree of a slot's data.                                                 *)
UsedBut(bs, p) == {b \in UsedBlocks(bs) : PtrOf(b) # p}
Without(m, p) == [q \in DOMAIN m \ {p} |-> m[q]]

LEMMA Released ==
  ASSUME NEW s, StateOK(s), NEW i \in Slots
  PROVE  LET p == s.files[i].data
             r == Release(s, p)
         IN  /\ r = [files |-> s.files, blocks |-> r.blocks, mem |-> r.mem]
             /\ r.files = s.files
             /\ ListOK(r.blocks) /\ Coalesced(r.blocks)
             /\ UsedBlocks(r.blocks) = UsedBut(s.blocks, p)
             /\ r.mem = Without(s.mem, p)
<1> DEFINE p == s.files[i].data
           r == Release(s, p)
<1>1. /\ s = [files |-> s.files, blocks |-> s.blocks, mem |-> s.mem]
      /\ ListOK(s.blocks) /\ Coalesced(s.blocks)
      /\ s.mem = [q \in DOMAIN s.mem |-> s.mem[q]]
      /\ DOMAIN s.mem = {PtrOf(b) : b \in UsedBlocks(s.blocks)}
  BY DEF StateOK
<1>2. CASE p = NULL
  <2>1. r = s
    BY <1>2 DEF Release
  <2>2. \A b \in UsedBlocks(s.blocks) : PtrOf(b) # p
    BY <1>1, <1>2, UsedPointers DEF NULL
  <2>3. p \notin DOMAIN s.mem
    BY <1>1, <2>2
  <2>4. DOMAIN s.mem \ {p} = DOMAIN s.mem
    BY <2>3
  <2>5. UsedBlocks(s.blocks) = UsedBut(s.blocks, p)
    BY <2>2 DEF UsedBut
  <2>6. s.mem = Without(s.mem, p)
    BY <1>1, <2>4 DEF Without
  <2> HIDE DEF p, r
  <2>7. r = [files |-> s.files, blocks |-> r.blocks, mem |-> r.mem] /\ r.files = s.files
    BY <1>1, <2>1
  <2> QED BY <1>1, <2>1, <2>5, <2>6, <2>7 DEF p, r
<1>3. CASE p # NULL
  <2> DEFINE k == CHOOSE j \in DOMAIN s.blocks : PtrOf(s.blocks[j]) = p
  <2>1. i \in Owners(s.files)
    BY <1>3 DEF Owners
  <2>2. PICK b \in UsedBlocks(s.blocks) : PtrOf(b) = p
    BY <2>1 DEF StateOK
  <2>3. PICK j \in 1..Len(s.blocks) : b = s.blocks[j]
    BY <1>1, UsedBlocksTyped
  <2>4. DOMAIN s.blocks = 1..Len(s.blocks)
    BY <1>1, LenProperties DEF ListOK
  <2>5. k \in 1..Len(s.blocks) /\ PtrOf(s.blocks[k]) = p
    BY <2>2, <2>3, <2>4
  <2>6. k = j
    BY <1>1, <2>2, <2>3, <2>5, OneBlockPerPointer
  <2>7. s.blocks[k] = b /\ ~b.is_free
    BY <1>1, <2>3, <2>6, UsedBlocksTyped
  <2>8. r = [s EXCEPT !.blocks = Freed(s.blocks, k),
                      !.mem = Without(s.mem, p)]
    BY <1>3 DEF Release, Without
  <2> HIDE DEF k, p, r
  <2>9. /\ r.files = s.files /\ r.blocks = Freed(s.blocks, k)
        /\ r.mem = Without(s.mem, p)
        /\ r = [files |-> s.files, blocks |-> r.blocks, mem |-> r.mem]
    BY <1>1, <2>8
  <2>10. /\ ListOK(r.blocks) /\ Coalesced(r.blocks)
         /\ UsedBlocks(r.blocks) = UsedBlocks(s.blocks) \ {b}
    BY <1>1, <2>5, <2>7, <2>9, FreedFacts
  <2>11. \A c \in UsedBlocks(s.blocks) : PtrOf(c) = p <=> c = b
    BY <1>1, <2>2, UsedPointers
  <2>12. UsedBlocks(r.blocks) = UsedBut(s.blocks, p)
    BY <2>10, <2>11 DEF UsedBut
  <2> QED BY <2>9, <2>10, <2>12 DEF p, r
<1> QED BY <1>2, <1>3

(* Slot i gives its block back and then holds f, which has none.           *)
Detached(s, i, f) ==
  [files  |-> [s.files EXCEPT ![i] = f],
   blocks |-> Release(s, s.files[i].data).blocks,
   mem    |-> Release(s, s.files[i].data).mem]

LEMMA DetachedOK ==
  ASSUME NEW s, StateOK(s), NEW i \in Slots, NEW f \in File,
         f.data = NULL, f.in_use => f.name \in Names
  PROVE  StateOK(Detached(s, i, f)) /\ OthersKeep(s, Detached(s, i, f), i)
<1> DEFINE p == s.files[i].data
           r == Release(s, p)
           t == Detached(s, i, f)
<1>1. /\ ListOK(r.blocks) /\ Coalesced(r.blocks)
      /\ UsedBlocks(r.blocks) = UsedBut(s.blocks, p) /\ r.mem = Without(s.mem, p)
  BY Released
<1>2. t.files = [s.files EXCEPT ![i] = f] /\ t.blocks = r.blocks /\ t.mem = r.mem
      /\ t = [files |-> t.files, blocks |-> t.blocks, mem |-> t.mem]
  BY DEF Detached
<1>3. s.files \in [Slots -> File] /\ t.files \in [Slots -> File]
  BY <1>2 DEF StateOK
<1> HIDE DEF p, r, t
<1>4. t.files[i] = f /\ \A j \in Slots \ {i} : t.files[j] = s.files[j]
  BY <1>2, <1>3
<1>5. Owners(t.files) = Owners(s.files) \ {i}
  BY <1>4 DEF Owners
<1>6. DOMAIN t.mem = DOMAIN s.mem \ {p} /\ \A q \in DOMAIN t.mem : t.mem[q] = s.mem[q]
  BY <1>1, <1>2 DEF Without
<1>7. DOMAIN t.mem = {PtrOf(b) : b \in UsedBlocks(t.blocks)}
  BY <1>1, <1>2, <1>6 DEF StateOK, UsedBut
<1>8. \A j \in Owners(t.files) : s.files[j].data # p /\ j \in Owners(s.files) /\ j \in Slots \ {i}
  <2> SUFFICES ASSUME NEW j \in Owners(t.files) PROVE s.files[j].data # p
    BY <1>5 DEF Owners
  <2>1. j \in Owners(s.files) /\ j # i
    BY <1>5
  <2>2. CASE i \in Owners(s.files)
    BY <2>1, <2>2 DEF StateOK, p
  <2>3. CASE i \notin Owners(s.files)
    BY <2>1, <2>3 DEF Owners, p
  <2> QED BY <2>2, <2>3
<1>9. DOMAIN t.mem = {t.files[j].data : j \in Owners(t.files)}
  <2>1. ASSUME NEW q \in DOMAIN t.mem PROVE \E j \in Owners(t.files) : q = t.files[j].data
    <3>1. PICK j \in Owners(s.files) : q = s.files[j].data
      BY <1>6 DEF StateOK
    <3>2. j # i /\ j \in Slots
      BY <1>6, <3>1 DEF p, Owners
    <3> QED BY <1>4, <1>5, <3>1, <3>2
  <2>2. ASSUME NEW j \in Owners(t.files) PROVE t.files[j].data \in DOMAIN t.mem
    <3>1. j \in Owners(s.files) /\ j \in Slots \ {i} /\ s.files[j].data # p
      BY <1>8
    <3>2. s.files[j].data \in DOMAIN s.mem
      BY <3>1 DEF StateOK
    <3> QED BY <1>4, <1>6, <3>1, <3>2
  <2> QED BY <2>1, <2>2
<1>10. \A j \in Owners(t.files) :
         t.files[j].in_use /\ t.files[j].size = ContentSize[t.mem[t.files[j].data]]
  <2> SUFFICES ASSUME NEW j \in Owners(t.files)
               PROVE  t.files[j].in_use /\ t.files[j].size = ContentSize[t.mem[t.files[j].data]]
    OBVIOUS
  <2>1. j \in Owners(s.files) /\ t.files[j] = s.files[j] /\ t.files[j].data \in DOMAIN t.mem
    BY <1>4, <1>8, <1>9
  <2> QED BY <1>6, <2>1 DEF StateOK
<1>11. \A j, k \in Owners(t.files) : t.files[j].data = t.files[k].data => j = k
  BY <1>4, <1>8 DEF StateOK
<1>12. \A b \in UsedBlocks(t.blocks) : ContentSize[t.mem[PtrOf(b)]] + 1 <= b.size
  <2> SUFFICES ASSUME NEW b \in UsedBlocks(t.blocks)
               PROVE  ContentSize[t.mem[PtrOf(b)]] + 1 <= b.size
    OBVIOUS
  <2>1. b \in UsedBlocks(s.blocks) /\ PtrOf(b) \in DOMAIN t.mem
    BY <1>1, <1>2, <1>7 DEF UsedBut
  <2> QED BY <1>6, <2>1 DEF StateOK
<1>13. t.mem \in [DOMAIN t.mem -> Contents]
  <2>1. \A q \in DOMAIN t.mem : s.mem[q] \in Contents
    BY <1>6 DEF StateOK
  <2> QED BY <1>1, <1>2, <1>6, <2>1 DEF Without
<1>14. \A j \in Slots : t.files[j].in_use => t.files[j].name \in Names
  BY <1>4 DEF StateOK
<1>15. StateOK(t)
  <2>1. ListOK(t.blocks) /\ Coalesced(t.blocks)
    BY <1>1, <1>2
  <2> QED BY <1>2, <1>3, <1>7, <1>9, <1>10, <1>11, <1>12, <1>13, <1>14, <2>1 DEF StateOK
<1>16. OthersKeep(s, t, i)
  <2> SUFFICES ASSUME NEW j \in Slots \ {i}
               PROVE  /\ t.files[j] = s.files[j]
                      /\ (s.files[j].data \in DOMAIN t.mem) = (s.files[j].data \in DOMAIN s.mem)
                      /\ s.files[j].data \in DOMAIN t.mem =>
                           t.mem[s.files[j].data] = s.mem[s.files[j].data]
    BY DEF OthersKeep
  <2>1. s.files[j].data \in DOMAIN s.mem => s.files[j].data # NULL
    <3>1. \A b \in UsedBlocks(s.blocks) : PtrOf(b) # NULL
      BY UsedPointers DEF StateOK, NULL
    <3> QED BY <3>1 DEF StateOK
  <2>2. s.files[j].data \in DOMAIN s.mem => s.files[j].data \in DOMAIN t.mem
    <3> SUFFICES ASSUME s.files[j].data \in DOMAIN s.mem PROVE s.files[j].data # p
      BY <1>6
    <3>1. j \in Owners(t.files)
      BY <1>4, <2>1 DEF Owners
    <3> QED BY <1>8, <3>1
  <2>3. (s.files[j].data \in DOMAIN t.mem) = (s.files[j].data \in DOMAIN s.mem)
    BY <1>6, <2>2
  <2> QED BY <1>4, <1>6, <2>3
<1> QED BY <1>15, <1>16 DEF t

-----------------------------------------------------------------------------
(* Slot i, in use and without data, gets block k for content c.            *)
Attached(s, i, c, k) ==
  [files  |-> [s.files EXCEPT ![i].data = PtrOf(s.blocks[k]), ![i].size = ContentSize[c]],
   blocks |-> Taken(s.blocks, k, BytesFor(c)),
   mem    |-> [q \in DOMAIN s.mem \cup {PtrOf(s.blocks[k])} |->
                 IF q = PtrOf(s.blocks[k]) THEN c ELSE s.mem[q]]]

LEMMA BytesForFacts ==
  ASSUME NEW c \in Contents, ~TooLarge(c)
  PROVE  /\ BytesFor(c) \in Nat /\ BytesFor(c) % 4 = 0 /\ ContentSize[c] + 1 <= BytesFor(c)
         /\ ContentSize[c] \in 0..MAX_FILE_SIZE
<1>1. ContentSize[c] \in Nat /\ ContentSize[c] <= MAX_FILE_SIZE
  BY SizesTyped DEF TooLarge
<1>2. ContentSize[c] + 1 \in Nat /\ (ContentSize[c] + 1) + 3 < WORD
  BY <1>1, SizesTyped
<1> QED BY <1>1, <1>2, SizesTyped, AlignUpFacts DEF BytesFor

LEMMA AttachedOK ==
  ASSUME NEW s, StateOK(s), NEW i \in Slots, s.files[i].in_use, s.files[i].data = NULL,
         NEW c \in Contents, ~TooLarge(c),
         NEW k \in 1..Len(s.blocks), Fits(s.blocks[k], BytesFor(c))
  PROVE  StateOK(Attached(s, i, c, k)) /\ OthersKeep(s, Attached(s, i, c, k), i)
<1> DEFINE need == BytesFor(c)
           ptr == PtrOf(s.blocks[k])
           g == GrantOf(s.blocks, k, need)
           t == Attached(s, i, c, k)
<1>1. /\ need \in Nat /\ need % 4 = 0 /\ ContentSize[c] + 1 <= need
      /\ ContentSize[c] \in 0..MAX_FILE_SIZE
  BY BytesForFacts
<1>2. /\ s.files \in [Slots -> File] /\ ListOK(s.blocks) /\ Coalesced(s.blocks)
      /\ s.blocks \in Seq(Block) /\ DOMAIN s.mem = {PtrOf(b) : b \in UsedBlocks(s.blocks)}
  BY DEF StateOK, ListOK
<1>3. /\ ListOK(t.blocks) /\ Coalesced(t.blocks)
      /\ UsedBlocks(t.blocks) = UsedBlocks(s.blocks) \cup {g}
  BY <1>1, <1>2, TakenFacts DEF Attached
<1>4. PtrOf(g) = ptr /\ g.size \in Nat /\ g.size >= need
  <2>1. s.blocks[k].size \in Nat /\ s.blocks[k].size >= need
    BY <1>2, ElementsTyped DEF Fits
  <2> QED BY <1>1, <2>1 DEF GrantOf, PtrOf
<1>5. ptr \in 1..(HEAP_START + HEAP_SIZE) /\ ptr # NULL
  BY <1>2, PointersTyped DEF NULL
<1>6. ptr \notin DOMAIN s.mem
  <2> SUFFICES ASSUME NEW b \in UsedBlocks(s.blocks), PtrOf(b) = ptr PROVE FALSE
    BY <1>2
  <2>1. PICK j \in 1..Len(s.blocks) : b = s.blocks[j]
    BY <1>2, UsedBlocksTyped
  <2>2. ~b.is_free
    BY <1>2, UsedBlocksTyped
  <2>3. j = k
    BY <1>2, <2>1, OneBlockPerPointer
  <2> QED BY <2>1, <2>2, <2>3 DEF Fits
<1>7. /\ DOMAIN t.mem = DOMAIN s.mem \cup {ptr} /\ t.mem[ptr] = c
      /\ \A q \in DOMAIN s.mem : t.mem[q] = s.mem[q]
      /\ t.mem \in [DOMAIN t.mem -> Contents]
  BY <1>6 DEF Attached, StateOK
<1>8. /\ t = [files |-> t.files, blocks |-> t.blocks, mem |-> t.mem]
      /\ t.files = [s.files EXCEPT ![i] = [name |-> s.files[i].name, size |-> ContentSize[c],
                                          data |-> ptr, in_use |-> TRUE]]
  <2>1. s.files[i] = [name |-> s.files[i].name, size |-> s.files[i].size,
                      data |-> s.files[i].data, in_use |-> TRUE]
    BY <1>2 DEF File
  <2>2. t.files = [s.files EXCEPT ![i].data = ptr, ![i].size = ContentSize[c]]
    BY DEF Attached
  <2>3. t = [files |-> t.files, blocks |-> t.blocks, mem |-> t.mem]
    BY DEF Attached
  <2> HIDE DEF t, ptr
  <2> QED BY <1>2, <2>1, <2>2, <2>3
<1> DEFINE f == [name |-> s.files[i].name, size |-> ContentSize[c], data |-> ptr, in_use |-> TRUE]
<1>9. f \in File /\ f.name \in Names
  BY <1>1, <1>2, <1>5 DEF File, StateOK
<1> HIDE DEF need, ptr, g, t
<1>10. /\ t.files \in [Slots -> File] /\ t.files[i] = f
       /\ \A j \in Slots \ {i} : t.files[j] = s.files[j]
  BY <1>2, <1>8, <1>9
<1>11. f.data = ptr /\ f.size = ContentSize[c] /\ f.in_use
  OBVIOUS
<1> HIDE DEF f
<1>12. Owners(t.files) = Owners(s.files) \cup {i} /\ i \notin Owners(s.files)
  BY <1>5, <1>10, <1>11 DEF Owners
<1>13. \A j \in Owners(s.files) : /\ j \in Slots \ {i} /\ t.files[j] = s.files[j]
                                 /\ s.files[j].data \in DOMAIN s.mem /\ s.files[j].data # ptr
  <2> SUFFICES ASSUME NEW j \in Owners(s.files)
               PROVE  /\ j \in Slots \ {i} /\ t.files[j] = s.files[j]
                      /\ s.files[j].data \in DOMAIN s.mem /\ s.files[j].data # ptr
    OBVIOUS
  <2>1. j \in Slots \ {i}
    BY <1>12 DEF Owners
  <2>2. s.files[j].data \in DOMAIN s.mem
    BY DEF StateOK
  <2> QED BY <1>6, <1>10, <2>1, <2>2
<1>14. DOMAIN t.mem = {PtrOf(b) : b \in UsedBlocks(t.blocks)}
  BY <1>2, <1>3, <1>4, <1>7
<1>15. DOMAIN t.mem = {t.files[j].data : j \in Owners(t.files)}
  <2>1. DOMAIN s.mem = {s.files[j].data : j \in Owners(s.files)}
    BY DEF StateOK
  <2>2. {t.files[j].data : j \in Owners(s.files)} = {s.files[j].data : j \in Owners(s.files)}
    BY <1>13
  <2>3. {t.files[j].data : j \in Owners(t.files)}
          = {t.files[j].data : j \in Owners(s.files)} \cup {ptr}
    BY <1>10, <1>11, <1>12
  <2> QED BY <1>7, <2>1, <2>2, <2>3
<1>16. \A j, h \in Owners(t.files) : t.files[j].data = t.files[h].data => j = h
  <2> SUFFICES ASSUME NEW j \in Owners(t.files), NEW h \in Owners(t.files),
                      t.files[j].data = t.files[h].data
               PROVE  j = h
    OBVIOUS
  <2>1. CASE j \in Owners(s.files) /\ h \in Owners(s.files)
    BY <1>13, <2>1 DEF StateOK
  <2>2. CASE j = i \/ h = i
    BY <1>10, <1>11, <1>12, <1>13, <2>2
  <2> QED BY <1>12, <2>1, <2>2
<1>17. \A j \in Owners(t.files) :
         t.files[j].in_use /\ t.files[j].size = ContentSize[t.mem[t.files[j].data]]
  <2> SUFFICES ASSUME NEW j \in Owners(t.files)
               PROVE  t.files[j].in_use /\ t.files[j].size = ContentSize[t.mem[t.files[j].data]]
    OBVIOUS
  <2>1. CASE j \in Owners(s.files)
    BY <1>7, <1>13, <2>1 DEF StateOK
  <2>2. CASE j = i
    BY <1>7, <1>10, <1>11, <2>2
  <2> QED BY <1>12, <2>1, <2>2
<1>18. \A b \in UsedBlocks(t.blocks) : ContentSize[t.mem[PtrOf(b)]] + 1 <= b.size
  <2>1. ASSUME NEW b \in UsedBlocks(s.blocks) PROVE ContentSize[t.mem[PtrOf(b)]] + 1 <= b.size
    <3>1. PtrOf(b) \in DOMAIN s.mem
      BY <1>2
    <3> QED BY <1>7, <3>1 DEF StateOK
  <2>2. ContentSize[t.mem[PtrOf(g)]] + 1 <= g.size
    BY <1>1, <1>4, <1>7
  <2> QED BY <1>3, <2>1, <2>2
<1>19. \A j \in Slots : t.files[j].in_use => t.files[j].name \in Names
  BY <1>9, <1>10 DEF StateOK
<1>20. StateOK(t)
  BY <1>3, <1>7, <1>8, <1>10, <1>14, <1>15, <1>16, <1>17, <1>18, <1>19 DEF StateOK
<1>21. OthersKeep(s, t, i)
  <2> SUFFICES ASSUME NEW j \in Slots \ {i}
               PROVE  /\ t.files[j] = s.files[j]
                      /\ (s.files[j].data \in DOMAIN t.mem) = (s.files[j].data \in DOMAIN s.mem)
                      /\ s.files[j].data \in DOMAIN t.mem =>
                           t.mem[s.files[j].data] = s.mem[s.files[j].data]
    BY DEF OthersKeep
  <2>1. s.files[j].data # ptr
    <3>1. CASE j \in Owners(s.files)
      BY <1>13, <3>1
    <3>2. CASE j \notin Owners(s.files)
      BY <1>5, <3>2 DEF Owners
    <3> QED BY <3>1, <3>2
  <2>2. (s.files[j].data \in DOMAIN t.mem) = (s.files[j].data \in DOMAIN s.mem)
    BY <1>7, <2>1
  <2> QED BY <1>7, <1>10, <2>2
<1> QED BY <1>20, <1>21 DEF t

-----------------------------------------------------------------------------
(* The functions of vfs.c, one by one.                                     *)

(* Assignments to fields of slot i, one after another.                     *)
DataSet(fs, i, p) == [fs EXCEPT ![i].data = p]
DataSizeSet(fs, i, p, q) == [fs EXCEPT ![i].data = p, ![i].size = q]
ThreeSet(fs, i, u, p, q) == [fs EXCEPT ![i].in_use = u, ![i].data = p, ![i].size = q]
StateThreeSet(r, i, u, p, q) ==
  [r EXCEPT !.files[i].in_use = u, !.files[i].data = p, !.files[i].size = q]

LEMMA FileFields ==
  ASSUME NEW g \in File
  PROVE  g = [name |-> g.name, size |-> g.size, data |-> g.data, in_use |-> g.in_use]
BY DEF File

LEMMA FileDataSet ==
  ASSUME NEW g \in File, NEW p
  PROVE  [g EXCEPT !.data = p] =
           [name |-> g.name, size |-> g.size, data |-> p, in_use |-> g.in_use]
BY DEF File

LEMMA FileDataSizeSet ==
  ASSUME NEW g \in File, NEW p, NEW q
  PROVE  [g EXCEPT !.data = p, !.size = q] =
           [name |-> g.name, size |-> q, data |-> p, in_use |-> g.in_use]
<1> DEFINE h == [g EXCEPT !.data = p]
<1>1. h = [name |-> g.name, size |-> g.size, data |-> p, in_use |-> g.in_use]
  BY DEF File
<1>2. [g EXCEPT !.data = p, !.size = q] = [h EXCEPT !.size = q]
  OBVIOUS
<1> HIDE DEF h
<1>3. [h EXCEPT !.size = q] = [name |-> g.name, size |-> q, data |-> p, in_use |-> g.in_use]
  BY <1>1
<1> QED BY <1>2, <1>3

LEMMA FileThreeSet ==
  ASSUME NEW g \in File, NEW u, NEW p, NEW q
  PROVE  [g EXCEPT !.in_use = u, !.data = p, !.size = q] =
           [name |-> g.name, size |-> q, data |-> p, in_use |-> u]
<1> DEFINE h == [g EXCEPT !.in_use = u]
           k == [h EXCEPT !.data = p]
<1>1. h = [name |-> g.name, size |-> g.size, data |-> g.data, in_use |-> u]
  BY DEF File
<1>2. [g EXCEPT !.in_use = u, !.data = p, !.size = q] = [k EXCEPT !.size = q]
  OBVIOUS
<1> HIDE DEF h
<1>3. k = [name |-> g.name, size |-> g.size, data |-> p, in_use |-> u]
  BY <1>1
<1> HIDE DEF k
<1>4. [k EXCEPT !.size = q] = [name |-> g.name, size |-> q, data |-> p, in_use |-> u]
  BY <1>3
<1> QED BY <1>2, <1>4

LEMMA TableDataSet ==
  ASSUME NEW fs \in [Slots -> File], NEW i \in Slots, NEW p
  PROVE  DataSet(fs, i, p) =
           [fs EXCEPT ![i] = [name |-> fs[i].name, size |-> fs[i].size,
                              data |-> p, in_use |-> fs[i].in_use]]
<1>1. [fs EXCEPT ![i].data = p] = [fs EXCEPT ![i] = [fs[i] EXCEPT !.data = p]]
  OBVIOUS
<1>2. fs[i] \in File
  OBVIOUS
<1>3. [fs[i] EXCEPT !.data = p] =
        [name |-> fs[i].name, size |-> fs[i].size, data |-> p, in_use |-> fs[i].in_use]
  BY <1>2, FileDataSet
<1> QED BY <1>1, <1>3 DEF DataSet

LEMMA TableDataSizeSet ==
  ASSUME NEW fs \in [Slots -> File], NEW i \in Slots, NEW p, NEW q,
         NEW n, NEW z, NEW d, NEW u, fs[i] = [name |-> n, size |-> z, data |-> d, in_use |-> u]
  PROVE  DataSizeSet(fs, i, p, q) =
           [fs EXCEPT ![i] = [name |-> n, size |-> q, data |-> p, in_use |-> u]]
<1>1. [fs EXCEPT ![i].data = p, ![i].size = q] =
        [fs EXCEPT ![i] = [fs[i] EXCEPT !.data = p, !.size = q]]
  OBVIOUS
<1>2. fs[i] \in File
  OBVIOUS
<1>3. [fs[i] EXCEPT !.data = p, !.size = q] =
        [name |-> fs[i].name, size |-> q, data |-> p, in_use |-> fs[i].in_use]
  BY <1>2, FileDataSizeSet
<1>4. [fs[i] EXCEPT !.data = p, !.size = q] = [name |-> n, size |-> q, data |-> p, in_use |-> u]
  BY <1>3
<1> QED BY <1>1, <1>4 DEF DataSizeSet

LEMMA TableThreeSet ==
  ASSUME NEW fs \in [Slots -> File], NEW i \in Slots, NEW u, NEW p, NEW q
  PROVE  ThreeSet(fs, i, u, p, q) =
           [fs EXCEPT ![i] = [name |-> fs[i].name, size |-> q, data |-> p, in_use |-> u]]
<1>1. [fs EXCEPT ![i].in_use = u, ![i].data = p, ![i].size = q] =
        [fs EXCEPT ![i] = [fs[i] EXCEPT !.in_use = u, !.data = p, !.size = q]]
  OBVIOUS
<1>2. fs[i] \in File
  OBVIOUS
<1>3. [fs[i] EXCEPT !.in_use = u, !.data = p, !.size = q] =
        [name |-> fs[i].name, size |-> q, data |-> p, in_use |-> u]
  BY <1>2, FileThreeSet
<1> QED BY <1>1, <1>3 DEF ThreeSet

LEMMA StateDataSet ==
  ASSUME NEW fs, NEW bs, NEW m, NEW r, r = [files |-> fs, blocks |-> bs, mem |-> m], NEW i, NEW p
  PROVE  [r EXCEPT !.files[i].data = p] =
           [files |-> DataSet(fs, i, p), blocks |-> bs, mem |-> m]
BY DEF DataSet

LEMMA StateThreeSetAs ==
  ASSUME NEW fs, NEW bs, NEW m, NEW r, r = [files |-> fs, blocks |-> bs, mem |-> m],
         NEW i, NEW u, NEW p, NEW q
  PROVE  StateThreeSet(r, i, u, p, q) =
           [files |-> ThreeSet(fs, i, u, p, q), blocks |-> bs, mem |-> m]
<1> DEFINE f1 == [fs EXCEPT ![i].in_use = u]
           f2 == [f1 EXCEPT ![i].data = p]
           f3 == [f2 EXCEPT ![i].size = q]
           r1 == [r EXCEPT !.files[i].in_use = u]
           r2 == [r1 EXCEPT !.files[i].data = p]
           r3 == [r2 EXCEPT !.files[i].size = q]
<1>1. r1 = [files |-> f1, blocks |-> bs, mem |-> m]
  OBVIOUS
<1> HIDE DEF f1, r1
<1>2. r2 = [files |-> f2, blocks |-> bs, mem |-> m]
  BY <1>1
<1> HIDE DEF f2, r2
<1>3. r3 = [files |-> f3, blocks |-> bs, mem |-> m]
  BY <1>2
<1> HIDE DEF f3, r3
<1>4. StateThreeSet(r, i, u, p, q) = r3
  BY DEF r1, r2, r3, StateThreeSet
<1>5. ThreeSet(fs, i, u, p, q) = f3
  BY DEF f1, f2, f3, ThreeSet
<1> QED BY <1>3, <1>4, <1>5

(* Min of a set of slots is a member below all others.                     *)
LEMMA FirstSlot ==
  ASSUME NEW T, T \subseteq Slots, T # {}
  PROVE  Min(T) \in T /\ \A j \in T : Min(T) <= j
<1>1. T \subseteq Nat
  BY DEF Slots
<1>2. \E m \in T : \A k \in T : m <= k
  BY <1>1, LeastNumber
<1> QED BY <1>2 DEF Min

LEMMA OpenFound ==
  ASSUME NEW fs, NEW n
  PROVE  /\ OpenIn(fs, n) # 0 => OpenIn(fs, n) \in Matches(fs, n)
         /\ OpenIn(fs, n) = 0 <=> Matches(fs, n) = {}
<1>1. Matches(fs, n) \subseteq Slots /\ 0 \notin Slots
  BY DEF Matches, Slots
<1>2. Matches(fs, n) # {} => Min(Matches(fs, n)) \in Matches(fs, n)
  BY <1>1, FirstSlot
<1> QED BY <1>1, <1>2 DEF OpenIn

LEMMA FreeFound ==
  ASSUME NEW fs, FreeSlots(fs) # {}
  PROVE  Min(FreeSlots(fs)) \in Slots /\ ~fs[Min(FreeSlots(fs))].in_use
<1>1. FreeSlots(fs) \subseteq Slots
  BY DEF FreeSlots
<1>2. Min(FreeSlots(fs)) \in FreeSlots(fs)
  BY <1>1, FirstSlot
<1> QED BY <1>2 DEF FreeSlots

(* vfs_create: the slot it takes has no data to lose.                      *)
LEMMA CreatedOK ==
  ASSUME NEW s, StateOK(s), NEW n \in Names, CanCreate(s.files, n)
  PROVE  LET t == Created(s, n)
             i == Min(FreeSlots(s.files))
         IN  /\ StateOK(t) /\ i \in Slots /\ ~s.files[i].in_use /\ OthersKeep(s, t, i)
             /\ t.files[i] = [name |-> Stored[n], size |-> 0, data |-> NULL, in_use |-> TRUE]
             /\ t.files[i].in_use
<1> DEFINE i == Min(FreeSlots(s.files))
           f == [name |-> Stored[n], size |-> 0, data |-> NULL, in_use |-> TRUE]
           t == Created(s, n)
<1>1. i \in Slots /\ ~s.files[i].in_use
  BY FreeFound DEF CanCreate
<1> HIDE DEF i
<1>2. s.files[i].data = NULL
  BY <1>1 DEF StateOK, Owners
<1>3. Stored[n] \in Names
  BY VFSParameters
<1>4. f \in File /\ f.data = NULL /\ f.name \in Names
  BY <1>3, SizesTyped DEF File
<1>a. f.in_use
  OBVIOUS
<1> HIDE DEF f
<1>5. s = [files |-> s.files, blocks |-> s.blocks, mem |-> s.mem] /\ s.files \in [Slots -> File]
  BY DEF StateOK
<1>6. t = [s EXCEPT !.files[i] = f]
  BY DEF Created, i, f
<1>7. t = Detached(s, i, f)
  BY <1>2, <1>5, <1>6 DEF Detached, Release
<1>8. StateOK(Detached(s, i, f)) /\ OthersKeep(s, Detached(s, i, f), i)
  BY <1>1, <1>4, DetachedOK
<1>9. t.files[i] = f
  BY <1>1, <1>5, <1>7 DEF Detached
<1> HIDE DEF t
<1>10. t.files[i].in_use
  BY <1>a, <1>9
<1> QED BY <1>1, <1>7, <1>8, <1>9, <1>10 DEF i, f, t

(* vfs_delete.                                                             *)
LEMMA DeletedOK ==
  ASSUME NEW s, StateOK(s), NEW i \in Slots
  PROVE  LET t == Deleted(s, i)
         IN  /\ StateOK(t) /\ OthersKeep(s, t, i)
             /\ t.files[i] = [name |-> s.files[i].name, size |-> 0, data |-> NULL, in_use |-> FALSE]
             /\ ~t.files[i].in_use
<1> DEFINE r == Release(s, s.files[i].data)
           f == [name |-> s.files[i].name, size |-> 0, data |-> NULL, in_use |-> FALSE]
           t == Deleted(s, i)
<1>1. r = [files |-> s.files, blocks |-> r.blocks, mem |-> r.mem]
  BY Released
<1>2. s.files \in [Slots -> File] /\ s.files[i] \in File
  BY DEF StateOK
<1>3. f \in File /\ f.data = NULL /\ ~f.in_use
  BY <1>2, SizesTyped DEF File
<1> DEFINE u == FALSE
<1>4. t = StateThreeSet(r, i, u, NULL, 0)
  BY DEF Deleted, StateThreeSet
<1>5. f = [name |-> s.files[i].name, size |-> 0, data |-> NULL, in_use |-> u]
  OBVIOUS
<1> HIDE DEF r, t, f, u
<1>6. ThreeSet(s.files, i, u, NULL, 0) = [s.files EXCEPT ![i] = f]
  BY <1>2, <1>5, TableThreeSet
<1>a. StateThreeSet(r, i, u, NULL, 0) =
        [files |-> ThreeSet(s.files, i, u, NULL, 0), blocks |-> r.blocks, mem |-> r.mem]
  BY <1>1, StateThreeSetAs
<1>7. t = [files |-> [s.files EXCEPT ![i] = f], blocks |-> r.blocks, mem |-> r.mem]
  BY <1>4, <1>6, <1>a
<1>8. t = Detached(s, i, f)
  BY <1>7 DEF Detached, r
<1> HIDE DEF f
<1>9. StateOK(Detached(s, i, f)) /\ OthersKeep(s, Detached(s, i, f), i)
  BY <1>3, DetachedOK
<1>10. t.files[i] = f
  BY <1>2, <1>7
<1>11. ~t.files[i].in_use
  BY <1>10 DEF f
<1> QED BY <1>8, <1>9, <1>10, <1>11 DEF t, f

(* OthersKeep composes.                                                    *)
LEMMA OthersKeepTwice ==
  ASSUME NEW s, NEW t, NEW u, NEW i, OthersKeep(s, t, i), OthersKeep(t, u, i)
  PROVE  OthersKeep(s, u, i)
BY DEF OthersKeep

(* vfs_write: an oversized write changes nothing; a refused one leaves the  *)
(* file without data; any other leaves it with the new content.            *)
LEMMA WrittenOK ==
  ASSUME NEW s, StateOK(s), NEW i \in Slots, s.files[i].in_use, NEW c \in Contents
  PROVE  LET t == Written(s, i, c)
         IN  /\ StateOK(t) /\ OthersKeep(s, t, i)
             /\ t.files[i].name = s.files[i].name /\ t.files[i].in_use
             /\ \/ TooLarge(c) /\ t = s
                \/ t.files[i].data = NULL
                \/ /\ t.files[i].data \in DOMAIN t.mem
                   /\ t.mem[t.files[i].data] = c /\ t.files[i].size = ContentSize[c]
<1> DEFINE r == Release(s, s.files[i].data)
           need == BytesFor(c)
           k == CHOOSE j \in DOMAIN r.blocks : IsFirstFit(r.blocks, j, need)
           ptr == PtrOf(r.blocks[k])
           t == Written(s, i, c)
           f == [name |-> s.files[i].name, size |-> s.files[i].size, data |-> NULL, in_use |-> TRUE]
           d == Detached(s, i, f)
<1>1. /\ r = [files |-> s.files, blocks |-> r.blocks, mem |-> r.mem]
      /\ r.files = s.files
  BY Released
<1>2. s.files \in [Slots -> File] /\ s.files[i] \in File /\ s.files[i].name \in Names
  BY DEF StateOK
<1>3. f \in File /\ f.data = NULL /\ f.name \in Names
  BY <1>2, SizesTyped DEF File
<1>4. s.files[i] = [name |-> s.files[i].name, size |-> s.files[i].size,
                    data |-> s.files[i].data, in_use |-> TRUE]
  BY <1>2 DEF File
<1>5. /\ d = [files |-> d.files, blocks |-> r.blocks, mem |-> r.mem]
      /\ d.blocks = r.blocks /\ d.mem = r.mem
      /\ d.files = [s.files EXCEPT ![i] = f] /\ d.files[i] = f
  BY <1>2 DEF Detached
<1>6. StateOK(d) /\ OthersKeep(s, d, i)
  <2> HIDE DEF f
  <2> QED BY <1>3, DetachedOK
<1>7. CASE TooLarge(c)
  <2>1. t = s
    BY <1>7 DEF Written
  <2>2. OthersKeep(s, s, i)
    BY DEF OthersKeep
  <2> HIDE DEF t
  <2> QED BY <1>7, <2>1, <2>2 DEF t
<1>8. CASE ~TooLarge(c) /\ ~CanGrant(r.blocks, need)
  <2>1. t = [r EXCEPT !.files[i].data = NULL]
    BY <1>8 DEF Written
  <2>2. t = [files |-> [s.files EXCEPT ![i] = f], blocks |-> r.blocks, mem |-> r.mem]
    <3>1. DataSet(s.files, i, NULL) = [s.files EXCEPT ![i] = f]
      <4>1. f = [name |-> s.files[i].name, size |-> s.files[i].size,
                 data |-> NULL, in_use |-> s.files[i].in_use]
        BY <1>4
      <4> HIDE DEF f
      <4> QED BY <1>2, <4>1, TableDataSet
    <3> HIDE DEF t, r, f
    <3>2. [r EXCEPT !.files[i].data = NULL] =
            [files |-> DataSet(s.files, i, NULL), blocks |-> r.blocks, mem |-> r.mem]
      BY <1>1, StateDataSet
    <3> QED BY <2>1, <3>1, <3>2
  <2>3. t = d
    BY <2>2 DEF Detached
  <2>4. f.name = s.files[i].name /\ f.in_use /\ f.data = NULL
    OBVIOUS
  <2> HIDE DEF t, d, f
  <2> QED BY <1>5, <1>6, <2>3, <2>4 DEF t
<1>9. CASE ~TooLarge(c) /\ CanGrant(r.blocks, need)
  <2>1. t = [files  |-> [s.files EXCEPT ![i].data = ptr, ![i].size = ContentSize[c]],
             blocks |-> Taken(r.blocks, k, need),
             mem    |-> [q \in DOMAIN r.mem \cup {ptr} |-> IF q = ptr THEN c ELSE r.mem[q]]]
    BY <1>9 DEF Written
  <2>2. ListOK(r.blocks) /\ need \in Nat
    BY <1>5, <1>6, <1>9, BytesForFacts DEF StateOK
  <2>3. k \in DOMAIN r.blocks /\ Fits(r.blocks[k], need)
    <3>1. PICK m \in DOMAIN r.blocks : Fits(r.blocks[m], need)
      BY <1>9 DEF CanGrant
    <3> HIDE DEF need, r
    <3>2. \E j \in DOMAIN r.blocks : IsFirstFit(r.blocks, j, need)
      BY <2>2, <3>1, FirstFitExists
    <3> QED BY <3>2 DEF IsFirstFit
  <2> HIDE DEF k
  <2>4. k \in 1..Len(d.blocks) /\ Fits(d.blocks[k], BytesFor(c))
    <3>1. DOMAIN r.blocks = 1..Len(r.blocks)
      BY <2>2, LenProperties DEF ListOK
    <3> QED BY <1>5, <2>3, <3>1
  <2>5. [s.files EXCEPT ![i].data = ptr, ![i].size = ContentSize[c]]
          = [d.files EXCEPT ![i].data = ptr, ![i].size = ContentSize[c]]
    <3> DEFINE g == [name |-> s.files[i].name, size |-> ContentSize[c],
                     data |-> ptr, in_use |-> TRUE]
    <3>1. d.files \in [Slots -> File]
      BY <1>6 DEF StateOK
    <3> HIDE DEF ptr, d
    <3> DEFINE w == TRUE
    <3>2. /\ s.files[i] = [name |-> s.files[i].name, size |-> s.files[i].size,
                           data |-> s.files[i].data, in_use |-> w]
          /\ d.files[i] = [name |-> s.files[i].name, size |-> s.files[i].size,
                           data |-> NULL, in_use |-> w]
          /\ g = [name |-> s.files[i].name, size |-> ContentSize[c], data |-> ptr, in_use |-> w]
      BY <1>4, <1>5
    <3> HIDE DEF g, f, w
    <3>4. DataSizeSet(s.files, i, ptr, ContentSize[c]) = [s.files EXCEPT ![i] = g]
      BY <1>2, <3>2, TableDataSizeSet
    <3>5. DataSizeSet(d.files, i, ptr, ContentSize[c]) = [d.files EXCEPT ![i] = g]
      BY <3>1, <3>2, TableDataSizeSet
    <3>6. [d.files EXCEPT ![i] = g] = [s.files EXCEPT ![i] = g]
      BY <1>2, <1>5
    <3> QED BY <3>4, <3>5, <3>6 DEF DataSizeSet
  <2>6. t = Attached(d, i, c, k)
    BY <1>5, <2>1, <2>5 DEF Attached
  <2>7. d.files[i].in_use /\ d.files[i].data = NULL /\ d.files[i].name = s.files[i].name
    BY <1>5
  <2> HIDE DEF d, t, f, r
  <2>8. StateOK(t) /\ OthersKeep(d, t, i)
    BY <1>6, <1>9, <2>4, <2>6, <2>7, AttachedOK
  <2>9. OthersKeep(s, t, i)
    BY <1>6, <2>8, OthersKeepTwice
  <2>10. /\ t.files[i].name = s.files[i].name /\ t.files[i].in_use
         /\ t.files[i].data = ptr /\ t.files[i].size = ContentSize[c]
    <3>1. t.files = [s.files EXCEPT ![i].data = ptr, ![i].size = ContentSize[c]]
      BY <2>1
    <3> HIDE DEF ptr
    <3> QED BY <1>2, <1>4, <3>1
  <2>11. ptr \in DOMAIN t.mem /\ t.mem[ptr] = c
    BY <2>1
  <2> HIDE DEF ptr
  <2> QED BY <2>8, <2>9, <2>10, <2>11 DEF t
<1> QED BY <1>7, <1>8, <1>9

-----------------------------------------------------------------------------
(* Names.  While all names are stored whole, no two files in use share one *)
(* and opening a file's name finds its slot.                               *)
InUse(fs) == {i \in Slots : fs[i].in_use}

Unique(fs) == \A i, j \in InUse(fs) : fs[i].name = fs[j].name => i = j

LEMMA OpenUnique ==
  ASSUME NEW fs, Unique(fs), NEW i \in InUse(fs)
  PROVE  OpenIn(fs, fs[i].name) = i
<1>1. i \in Matches(fs, fs[i].name)
  BY DEF InUse, Matches
<1>2. OpenIn(fs, fs[i].name) \in Matches(fs, fs[i].name)
  BY <1>1, OpenFound
<1> QED BY <1>1, <1>2 DEF Unique, InUse, Matches

LEMMA CreatedUnique ==
  ASSUME NEW s, StateOK(s), Unique(s.files), NEW n \in Names, Stored[n] = n,
         CanCreate(s.files, n)
  PROVE  Unique(Created(s, n).files)
<1> DEFINE t == Created(s, n)
           i == Min(FreeSlots(s.files))
<1>a. /\ OthersKeep(s, t, i)
      /\ t.files[i] = [name |-> Stored[n], size |-> 0, data |-> NULL, in_use |-> TRUE]
  BY CreatedOK
<1> HIDE DEF t, i
<1>1. OthersKeep(s, t, i) /\ t.files[i].name = n
  BY <1>a
<1>2. \A j \in InUse(s.files) : s.files[j].name # n
  BY DEF CanCreate, Matches, InUse
<1>3. \A j \in InUse(t.files) \ {i} : t.files[j] = s.files[j] /\ j \in InUse(s.files)
  BY <1>1 DEF OthersKeep, InUse
<1>4. \A j \in InUse(t.files) \ {i} : t.files[j].name # n
  BY <1>2, <1>3
<1>5. \A j, k \in InUse(t.files) \ {i} : t.files[j].name = t.files[k].name => j = k
  BY <1>3 DEF Unique
<1>6. Unique(t.files)
  BY <1>1, <1>4, <1>5 DEF Unique
<1> QED BY <1>6 DEF t

(* A call that gives no slot a new name keeps names apart.                 *)
LEMMA KeptUnique ==
  ASSUME NEW s, NEW t, NEW i, OthersKeep(s, t, i), Unique(s.files),
         t.files[i].in_use => s.files[i].in_use /\ t.files[i].name = s.files[i].name
  PROVE  Unique(t.files)
<1>1. \A j \in InUse(t.files) : j \in InUse(s.files) /\ t.files[j].name = s.files[j].name
  BY DEF OthersKeep, InUse
<1> QED BY <1>1 DEF Unique

LEMMA WrittenUnique ==
  ASSUME NEW s, StateOK(s), Unique(s.files), NEW i \in Slots, s.files[i].in_use,
         NEW c \in Contents
  PROVE  Unique(Written(s, i, c).files)
<1>1. OthersKeep(s, Written(s, i, c), i) /\ Written(s, i, c).files[i].name = s.files[i].name
  BY WrittenOK
<1> QED BY <1>1, KeptUnique

LEMMA DeletedUnique ==
  ASSUME NEW s, StateOK(s), Unique(s.files), NEW i \in Slots
  PROVE  Unique(Deleted(s, i).files)
<1>1. OthersKeep(s, Deleted(s, i), i) /\ ~Deleted(s, i).files[i].in_use
  BY DeletedOK
<1> QED BY <1>1, KeptUnique

-----------------------------------------------------------------------------
(* The map from names to contents that a state stands for; a file without  *)
(* data maps to `none'.                                                    *)
NamesIn(fs) == {fs[i].name : i \in InUse(fs)}

ContentOf(s, i, none) ==
  IF s.files[i].data \in DOMAIN s.mem THEN s.mem[s.files[i].data] ELSE none

MapOf(s, none) == [n \in NamesIn(s.files) |-> ContentOf(s, OpenIn(s.files, n), none)]

LEMMA MapAt ==
  ASSUME NEW s, NEW none, Unique(s.files), NEW i \in InUse(s.files)
  PROVE  /\ s.files[i].name \in DOMAIN MapOf(s, none)
         /\ MapOf(s, none)[s.files[i].name] = ContentOf(s, i, none)
<1>1. OpenIn(s.files, s.files[i].name) = i
  BY OpenUnique
<1> QED BY <1>1 DEF MapOf, NamesIn

(* The map with one name set, and with one name gone.                      *)
Put(m, n, v) == [k \in DOMAIN m \cup {n} |-> IF k = n THEN v ELSE m[k]]
Drop(m, n) == [k \in DOMAIN m \ {n} |-> m[k]]

LEMMA MapKeeps ==
  ASSUME NEW s, NEW t, NEW none, NEW i \in Slots, OthersKeep(s, t, i),
         Unique(s.files), Unique(t.files), NEW j \in InUse(s.files), j # i
  PROVE  /\ j \in InUse(t.files) /\ t.files[j].name = s.files[j].name
         /\ MapOf(t, none)[s.files[j].name] = MapOf(s, none)[s.files[j].name]
<1>1. t.files[j] = s.files[j] /\ j \in InUse(t.files)
  BY DEF OthersKeep, InUse
<1>2. ContentOf(t, j, none) = ContentOf(s, j, none)
  BY DEF OthersKeep, InUse, ContentOf
<1> QED BY <1>1, <1>2, MapAt

LEMMA MapPut ==
  ASSUME NEW s, NEW t, NEW none, NEW i \in Slots, OthersKeep(s, t, i),
         Unique(s.files), Unique(t.files), t.files[i].in_use,
         s.files[i].in_use => t.files[i].name = s.files[i].name
  PROVE  MapOf(t, none) = Put(MapOf(s, none), t.files[i].name, ContentOf(t, i, none))
<1> DEFINE n == t.files[i].name
           m == Put(MapOf(s, none), n, ContentOf(t, i, none))
<1>1. i \in InUse(t.files) /\ n \in DOMAIN MapOf(t, none) /\ MapOf(t, none)[n] = ContentOf(t, i, none)
  BY MapAt DEF InUse
<1>2. \A j \in InUse(t.files) : j # i => j \in InUse(s.files) /\ s.files[j].name = t.files[j].name
  BY DEF OthersKeep, InUse
<1>3. \A j \in InUse(s.files) : j # i => j \in InUse(t.files) /\ s.files[j].name = t.files[j].name
  BY DEF OthersKeep, InUse
<1>4. DOMAIN MapOf(t, none) = DOMAIN MapOf(s, none) \cup {n}
  <2>1. \A k \in DOMAIN MapOf(t, none) : k = n \/ k \in DOMAIN MapOf(s, none)
    BY <1>2 DEF MapOf, NamesIn
  <2>2. \A k \in DOMAIN MapOf(s, none) : k \in DOMAIN MapOf(t, none)
    BY <1>1, <1>3 DEF MapOf, NamesIn, InUse
  <2> QED BY <1>1, <2>1, <2>2
<1>5. ASSUME NEW k \in DOMAIN MapOf(t, none) PROVE MapOf(t, none)[k] = m[k]
  <2>1. CASE k = n
    BY <1>1, <1>4, <2>1 DEF Put
  <2>2. CASE k # n
    <3>1. PICK j \in InUse(t.files) : k = t.files[j].name
      BY DEF MapOf, NamesIn
    <3>2. j \in InUse(s.files) /\ s.files[j].name = k /\ j # i
      BY <1>2, <2>2, <3>1
    <3>3. MapOf(t, none)[k] = MapOf(s, none)[k]
      BY <3>2, MapKeeps
    <3> QED BY <1>4, <2>2, <3>3 DEF Put
  <2> QED BY <2>1, <2>2
<1>6. DOMAIN m = DOMAIN MapOf(t, none) /\ m = [k \in DOMAIN m |-> m[k]]
  BY <1>4 DEF Put
<1>7. MapOf(t, none) = [k \in DOMAIN MapOf(t, none) |-> MapOf(t, none)[k]]
  BY DEF MapOf
<1> HIDE DEF m
<1>8. MapOf(t, none) = m
  BY <1>5, <1>6, <1>7
<1> QED BY <1>8 DEF m

LEMMA MapDrop ==
  ASSUME NEW s, NEW t, NEW none, NEW i \in InUse(s.files), OthersKeep(s, t, i),
         Unique(s.files), Unique(t.files), ~t.files[i].in_use
  PROVE  MapOf(t, none) = Drop(MapOf(s, none), s.files[i].name)
<1> DEFINE n == s.files[i].name
           m == Drop(MapOf(s, none), n)
<1>1. i \in Slots
  BY DEF InUse
<1>2. \A j \in InUse(t.files) : j # i /\ j \in InUse(s.files) /\ s.files[j].name = t.files[j].name
  BY DEF OthersKeep, InUse
<1>3. \A j \in InUse(s.files) : j # i => j \in InUse(t.files) /\ s.files[j].name = t.files[j].name
  BY DEF OthersKeep, InUse
<1>4. \A j \in InUse(s.files) : j # i => s.files[j].name # n
  BY DEF Unique
<1>5. DOMAIN MapOf(t, none) = DOMAIN MapOf(s, none) \ {n}
  <2>1. \A k \in DOMAIN MapOf(t, none) : k # n /\ k \in DOMAIN MapOf(s, none)
    BY <1>2, <1>4 DEF MapOf, NamesIn
  <2>2. \A k \in DOMAIN MapOf(s, none) : k # n => k \in DOMAIN MapOf(t, none)
    BY <1>3 DEF MapOf, NamesIn
  <2> QED BY <2>1, <2>2
<1>6. ASSUME NEW k \in DOMAIN MapOf(t, none) PROVE MapOf(t, none)[k] = m[k]
  <2>1. PICK j \in InUse(t.files) : k = t.files[j].name
    BY DEF MapOf, NamesIn
  <2>2. j \in InUse(s.files) /\ s.files[j].name = k /\ j # i
    BY <1>2, <2>1
  <2>3. MapOf(t, none)[k] = MapOf(s, none)[k]
    BY <1>1, <2>2, MapKeeps
  <2> QED BY <1>5, <2>3 DEF Drop
<1>7. DOMAIN m = DOMAIN MapOf(t, none) /\ m = [k \in DOMAIN m |-> m[k]]
  BY <1>5 DEF Drop
<1>8. MapOf(t, none) = [k \in DOMAIN MapOf(t, none) |-> MapOf(t, none)[k]]
  BY DEF MapOf
<1> HIDE DEF m
<1>9. MapOf(t, none) = m
  BY <1>6, <1>7, <1>8
<1> QED BY <1>9 DEF m

-----------------------------------------------------------------------------
(* vfs_init: the default files, one after another.                         *)
BootBase ==
  [files |-> [i \in Slots |-> FreeSlot], blocks |-> InitialBlocks, mem |-> [p \in {} |-> NULL]]

BootStep(s, f) ==
  LET t == Created(s, f[1])
  IN  IF CanCreate(s.files, f[1])
      THEN Written(t, Min(FreeSlots(s.files)), f[2]) ELSE t

(* g maps each set of positions to the state when only those are made.     *)
IsBoot(g, n) ==
  g = [T \in SUBSET (1..n) |->
         IF T = {} THEN BootBase ELSE BootStep(g[T \ {Max(T)}], DefaultFiles[Max(T)])]

LEMMA BootedFold ==
  Booted = (CHOOSE g : IsBoot(g, Len(DefaultFiles)))[1..Len(DefaultFiles)]
<1>1. DOMAIN DefaultFiles = 1..Len(DefaultFiles)
  BY VFSParameters
<1> QED BY <1>1, Zenon DEF Booted, FoldLeft, MapThenFoldSet, BootStep, BootBase, IsBoot

LEMMA BootExists ==
  \A n \in Nat : \E g : IsBoot(g, n)
<1> DEFINE S == {n \in Nat : \E g : IsBoot(g, n)}
<1>1. 0 \in S
  <2> DEFINE g == [T \in SUBSET (1..0) |-> BootBase]
  <2>1. \A T \in SUBSET (1..0) : T = {}
    OBVIOUS
  <2>2. g = [T \in SUBSET (1..0) |->
               IF T = {} THEN BootBase ELSE BootStep(g[T \ {Max(T)}], DefaultFiles[Max(T)])]
    BY <2>1
  <2> QED BY <2>2 DEF IsBoot
<1>2. ASSUME NEW n \in Nat, n \in S PROVE n + 1 \in S
  <2>1. PICK g : IsBoot(g, n)
    BY <1>2
  <2> DEFINE h == [T \in SUBSET (1..(n + 1)) |->
                     IF n + 1 \in T THEN BootStep(g[T \ {n + 1}], DefaultFiles[n + 1]) ELSE g[T]]
             hh == [T \in SUBSET (1..(n + 1)) |->
                      IF T = {} THEN BootBase
                      ELSE BootStep(h[T \ {Max(T)}], DefaultFiles[Max(T)])]
  <2>2. \A T \in SUBSET (1..n) :
          /\ h[T] = g[T]
          /\ g[T] = IF T = {} THEN BootBase ELSE BootStep(g[T \ {Max(T)}], DefaultFiles[Max(T)])
    <3> SUFFICES ASSUME NEW T \in SUBSET (1..n)
                 PROVE  /\ h[T] = g[T]
                        /\ g[T] = IF T = {} THEN BootBase
                                  ELSE BootStep(g[T \ {Max(T)}], DefaultFiles[Max(T)])
      OBVIOUS
    <3>1. n + 1 \notin T /\ T \in SUBSET (1..(n + 1))
      OBVIOUS
    <3> QED BY <2>1, <3>1 DEF IsBoot
  <2>3. \A T \in SUBSET (1..(n + 1)) : h[T] = hh[T]
    <3> SUFFICES ASSUME NEW T \in SUBSET (1..(n + 1)) PROVE h[T] = hh[T]
      OBVIOUS
    <3>1. CASE n + 1 \in T
      <4>a. Max(T) = n + 1
        <5>1. n + 1 \in Nat /\ T \subseteq 1..(n + 1)
          OBVIOUS
        <5> QED BY <3>1, <5>1, MaxOfInterval
      <4>1. Max(T) = n + 1 /\ T # {} /\ T \ {n + 1} \in SUBSET (1..n)
        <5>1. \A x \in T \ {n + 1} : x \in 1..n
          OBVIOUS
        <5> QED BY <3>1, <4>a, <5>1
      <4>2. h[T \ {n + 1}] = g[T \ {n + 1}]
        BY <2>2, <4>1
      <4>3. h[T] = BootStep(g[T \ {n + 1}], DefaultFiles[n + 1])
        BY <3>1
      <4>4. hh[T] = BootStep(h[T \ {n + 1}], DefaultFiles[n + 1])
        BY <4>1
      <4> HIDE DEF h, hh
      <4> QED BY <4>2, <4>3, <4>4
    <3>2. CASE n + 1 \notin T
      <4>1. T \in SUBSET (1..n) /\ T \ {Max(T)} \in SUBSET (1..n)
        <5>1. \A x \in T : x \in 1..n
          BY <3>2
        <5> QED BY <5>1
      <4>2. h[T] = g[T] /\ h[T \ {Max(T)}] = g[T \ {Max(T)}]
        BY <2>2, <4>1
      <4>3. g[T] = IF T = {} THEN BootBase ELSE BootStep(g[T \ {Max(T)}], DefaultFiles[Max(T)])
        BY <2>2, <4>1
      <4>4. hh[T] = IF T = {} THEN BootBase ELSE BootStep(h[T \ {Max(T)}], DefaultFiles[Max(T)])
        OBVIOUS
      <4> HIDE DEF h, hh
      <4> QED BY <4>2, <4>3, <4>4
    <3> QED BY <3>1, <3>2
  <2>4. h = hh
    <3>1. /\ h = [T \in SUBSET (1..(n + 1)) |-> h[T]]
          /\ hh = [T \in SUBSET (1..(n + 1)) |-> hh[T]]
      OBVIOUS
    <3> HIDE DEF h, hh
    <3> QED BY <2>3, <3>1
  <2>5. IsBoot(h, n + 1)
    BY <2>4 DEF IsBoot
  <2> QED BY <2>5
<1> HIDE DEF S
<1>3. \A n \in Nat : n \in S
  BY <1>1, <1>2, NatInductive
<1> QED BY <1>3 DEF S

(* Booted is the last of a row of states, each made from the one before.   *)
LEMMA BootedInSteps ==
  \E b : /\ b[0] = BootBase /\ b[Len(DefaultFiles)] = Booted
         /\ \A k \in 1..Len(DefaultFiles) : b[k] = BootStep(b[k - 1], DefaultFiles[k])
<1> DEFINE L == Len(DefaultFiles)
           g == CHOOSE g : IsBoot(g, L)
           b == [k \in 0..L |-> g[1..k]]
<1>1. L \in Nat
  BY VFSParameters, LenProperties
<1>2. IsBoot(g, L)
  BY <1>1, BootExists
<1>3. Booted = g[1..L]
  BY BootedFold
<1> HIDE DEF g, L
<1>4. b[0] = BootBase
  <2>1. 1..0 = {} /\ {} \in SUBSET (1..L) /\ 0 \in 0..L
    BY <1>1
  <2> QED BY <1>2, <2>1 DEF IsBoot
<1>5. ASSUME NEW k \in 1..L PROVE b[k] = BootStep(b[k - 1], DefaultFiles[k])
  <2>1. 1..k \in SUBSET (1..L) /\ 1..k # {} /\ k - 1 \in Nat /\ (k - 1) + 1 = k
    BY <1>1
  <2>2. Max(1..k) = k
    <3>1. k \in Nat /\ 1..k \subseteq 1..k /\ k \in 1..k
      BY <1>1
    <3> QED BY <3>1, MaxOfInterval
  <2>3. (1..k) \ {k} = 1..(k - 1)
    OBVIOUS
  <2>4. g[1..k] = BootStep(g[1..(k - 1)], DefaultFiles[k])
    BY <1>2, <2>1, <2>2, <2>3 DEF IsBoot
  <2>5. k \in 0..L /\ k - 1 \in 0..L
    BY <1>1
  <2> QED BY <2>4, <2>5
<1>6. b[L] = Booted
  BY <1>1, <1>3
<1> QED BY <1>4, <1>5, <1>6 DEF L

LEMMA BootBaseOK == StateOK(BootBase)
<1> DEFINE s == BootBase
           m == [p \in {} |-> NULL]
<1>1. s = [files |-> s.files, blocks |-> s.blocks, mem |-> s.mem]
  BY DEF BootBase
<1>2. s.files = [i \in Slots |-> FreeSlot] /\ s.blocks = InitialBlocks /\ s.mem = m
  BY DEF BootBase
<1>3. FreeSlot \in File /\ FreeSlot.data = NULL /\ ~FreeSlot.in_use
  BY SizesTyped DEF FreeSlot, File
<1>4. \A i \in Slots : s.files[i] = FreeSlot
  BY <1>2
<1>5. Owners(s.files) = {}
  BY <1>3, <1>4 DEF Owners
<1>6. DOMAIN m = {} /\ m \in [DOMAIN m -> Contents]
  OBVIOUS
<1>7. ListOK(s.blocks) /\ Coalesced(s.blocks) /\ UsedBlocks(s.blocks) = {}
  BY <1>2, InitialFacts
<1> HIDE DEF s, m
<1>8. s.files \in [Slots -> File]
  BY <1>2, <1>3
<1>9. \A i \in Slots : s.files[i].in_use => s.files[i].name \in Names
  BY <1>3, <1>4
<1> QED BY <1>1, <1>2, <1>5, <1>6, <1>7, <1>8, <1>9 DEF StateOK, s

LEMMA BootStepOK ==
  ASSUME NEW s, StateOK(s), NEW f \in Names \X Contents
  PROVE  /\ StateOK(BootStep(s, f))
         /\ ShortNames /\ Unique(s.files) => Unique(BootStep(s, f).files)
<1>1. f[1] \in Names /\ f[2] \in Contents
  OBVIOUS
<1> DEFINE t == Created(s, f[1])
           i == Min(FreeSlots(s.files))
<1>2. CASE CanCreate(s.files, f[1])
  <2>1. StateOK(t) /\ i \in Slots /\ t.files[i].in_use
    BY <1>1, <1>2, CreatedOK
  <2>2. BootStep(s, f) = Written(t, i, f[2])
    BY <1>2 DEF BootStep
  <2> HIDE DEF t, i
  <2>3. StateOK(Written(t, i, f[2]))
    BY <1>1, <2>1, WrittenOK
  <2>4. ShortNames /\ Unique(s.files) => Unique(t.files)
    BY <1>1, <1>2, CreatedUnique DEF ShortNames, t
  <2>5. Unique(t.files) => Unique(Written(t, i, f[2]).files)
    BY <1>1, <2>1, WrittenUnique
  <2> QED BY <2>2, <2>3, <2>4, <2>5
<1>3. CASE ~CanCreate(s.files, f[1])
  BY <1>3 DEF BootStep, Created
<1> QED BY <1>2, <1>3

LEMMA BootedOK == StateOK(Booted) /\ (ShortNames => Unique(Booted.files))
<1> DEFINE L == Len(DefaultFiles)
<1>1. L \in Nat /\ \A k \in 1..L : DefaultFiles[k] \in Names \X Contents
  BY VFSParameters, LenProperties, ElementOfSeq
<1>2. PICK b : /\ b[0] = BootBase /\ b[L] = Booted
               /\ \A k \in 1..L : b[k] = BootStep(b[k - 1], DefaultFiles[k])
  BY BootedInSteps
<1> DEFINE Good(s) == StateOK(s) /\ (ShortNames => Unique(s.files))
           S == {k \in Nat : k <= L => Good(b[k])}
<1>3. 0 \in S
  <2>1. Unique(BootBase.files)
    BY DEF BootBase, FreeSlot, Unique, InUse
  <2> QED BY <1>2, <2>1, BootBaseOK
<1>4. ASSUME NEW k \in Nat, k \in S PROVE k + 1 \in S
  <2> SUFFICES ASSUME k + 1 <= L PROVE Good(b[k + 1])
    OBVIOUS
  <2>1. Good(b[k])
    BY <1>1, <1>4
  <2>2. k + 1 \in 1..L /\ (k + 1) - 1 = k
    BY <1>1
  <2> HIDE DEF L
  <2>3. b[k + 1] = BootStep(b[k], DefaultFiles[k + 1])
    BY <1>2, <2>2
  <2> QED BY <1>1, <2>1, <2>2, <2>3, BootStepOK
<1> HIDE DEF S, L
<1>5. L \in S
  BY <1>1, <1>3, <1>4, NatInductive
<1> QED BY <1>1, <1>2, <1>5 DEF S

-----------------------------------------------------------------------------
(* The invariant and the theorems.                                         *)

(* vfs.c keeps the table and the heap in agreement.                        *)
VFSInv == StateOK(State)

LEMMA StateFields ==
  State.files = files /\ State.blocks = blocks /\ State.mem = mem
BY DEF State

(* What each call does, for any other slots than its own.                  *)
LEMMA VFSStep ==
  ASSUME VFSInv, Next
  PROVE  /\ StateOK(State')
         /\ \E i \in Slots : OthersKeep(State, State', i)
<1>1. ASSUME NEW t, Become(t), StateOK(t) PROVE State' = t
  BY <1>1 DEF Become, State, StateOK
<1>2. ASSUME NEW n \in Names, VfsCreate(n)
      PROVE  StateOK(State') /\ \E i \in Slots : OthersKeep(State, State', i)
  <2>1. CanCreate(State.files, n) /\ Become(Created(State, n))
    BY <1>2, StateFields DEF VfsCreate
  <2>2. StateOK(Created(State, n)) /\ \E i \in Slots : OthersKeep(State, Created(State, n), i)
    BY <2>1, CreatedOK DEF VFSInv
  <2> QED BY <1>1, <2>1, <2>2
<1>3. ASSUME NEW n \in Names, VfsDelete(n)
      PROVE  StateOK(State') /\ \E i \in Slots : OthersKeep(State, State', i)
  <2> DEFINE i == OpenIn(files, n)
  <2>1. i \in Slots /\ Become(Deleted(State, i))
    BY <1>3, OpenFound DEF VfsDelete, Matches
  <2> HIDE DEF i
  <2>2. StateOK(Deleted(State, i)) /\ OthersKeep(State, Deleted(State, i), i)
    BY <2>1, DeletedOK DEF VFSInv
  <2> QED BY <1>1, <2>1, <2>2
<1>4. ASSUME NEW i \in Slots, NEW c \in Contents, VfsWrite(i, c)
      PROVE  StateOK(State') /\ \E j \in Slots : OthersKeep(State, State', j)
  <2>1. State.files[i].in_use /\ Become(Written(State, i, c))
    BY <1>4, StateFields DEF VfsWrite
  <2>2. StateOK(Written(State, i, c)) /\ OthersKeep(State, Written(State, i, c), i)
    BY <2>1, WrittenOK DEF VFSInv
  <2> QED BY <1>1, <2>1, <2>2
<1> QED BY <1>2, <1>3, <1>4 DEF Next

LEMMA VFSInitInv == Init => VFSInv
<1> SUFFICES ASSUME Init PROVE VFSInv
  OBVIOUS
<1>1. State = [files |-> Booted.files, blocks |-> Booted.blocks, mem |-> Booted.mem]
  BY DEF Init, State
<1>2. State = Booted
  BY <1>1, BootedOK DEF StateOK
<1> QED BY <1>2, BootedOK DEF VFSInv

LEMMA VFSNextInv == VFSInv /\ [Next]_vars => VFSInv'
<1>1. VFSInv /\ Next => VFSInv'
  BY VFSStep DEF VFSInv
<1>2. VFSInv /\ UNCHANGED vars => VFSInv'
  <2> SUFFICES ASSUME VFSInv, UNCHANGED vars PROVE VFSInv'
    OBVIOUS
  <2>1. State' = State
    BY DEF vars, State
  <2> QED BY <2>1 DEF VFSInv
<1> QED BY <1>1, <1>2

(* The inductive invariant: after any calls of vfs_create, vfs_write and   *)
(* vfs_delete, each content in memory has one slot and one block of the    *)
(* well-formed, coalesced list that is long enough for it.                 *)
THEOREM VFSInvariant == Spec => []VFSInv
<1> QED BY VFSInitInv, VFSNextInv, PTL DEF Spec

LEMMA VFSInvTyped == VFSInv => TypeOK
<1> SUFFICES ASSUME VFSInv PROVE TypeOK
  OBVIOUS
<1>1. files \in [Slots -> File] /\ blocks \in Seq(Block) /\ mem \in [DOMAIN mem -> Contents]
  BY StateFields DEF VFSInv, StateOK, ListOK
<1> QED BY <1>1 DEF TypeOK, File

(* Names, sizes and pointers stay in their ranges, for every table, heap   *)
(* and set of contents.                                                    *)
THEOREM VFSTypeOK == Spec => []TypeOK
<1> QED BY VFSInvariant, VFSInvTyped, PTL

LEMMA VFSInvOwners == VFSInv => OneOwnerPerBlock
<1> SUFFICES ASSUME VFSInv PROVE OneOwnerPerBlock
  OBVIOUS
<1>1. WithData = Owners(files)
  BY DEF WithData, Owners
<1>2. /\ \A i \in WithData : files[i].in_use
      /\ \A i, j \in WithData : files[i].data = files[j].data => i = j
  BY <1>1, StateFields DEF VFSInv, StateOK
<1>3. {files[i].data : i \in WithData} = {PtrOf(b) : b \in UsedBlocks(blocks)}
  <2>1. DOMAIN mem = {PtrOf(b) : b \in UsedBlocks(blocks)}
    BY StateFields DEF VFSInv, StateOK
  <2>2. DOMAIN mem = {files[i].data : i \in Owners(files)}
    BY StateFields DEF VFSInv, StateOK
  <2> QED BY <1>1, <2>1, <2>2
<1> QED BY <1>2, <1>3 DEF OneOwnerPerBlock

(* Neither vfs_write's free-then-allocate nor vfs_delete leaks a block,    *)
(* shares one, or leaves a pointer to a freed one.                         *)
THEOREM VFSOneOwner == Spec => []OneOwnerPerBlock
<1> QED BY VFSInvariant, VFSInvOwners, PTL

LEMMA VFSInvContent == VFSInv => ContentInBlock
<1> SUFFICES ASSUME VFSInv, NEW i \in WithData
             PROVE  /\ files[i].data \in DOMAIN mem
                    /\ files[i].size = ContentSize[mem[files[i].data]]
                    /\ \A k \in DOMAIN blocks :
                         PtrOf(blocks[k]) = files[i].data => files[i].size + 1 <= blocks[k].size
  BY DEF ContentInBlock
<1>1. i \in Owners(files)
  BY DEF WithData, Owners
<1>2. /\ files[i].data \in DOMAIN mem /\ files[i].size = ContentSize[mem[files[i].data]]
      /\ ListOK(blocks) /\ DOMAIN mem = {PtrOf(b) : b \in UsedBlocks(blocks)}
      /\ \A b \in UsedBlocks(blocks) : ContentSize[mem[PtrOf(b)]] + 1 <= b.size
  BY <1>1, StateFields DEF VFSInv, StateOK
<1>3. ASSUME NEW k \in DOMAIN blocks, PtrOf(blocks[k]) = files[i].data
      PROVE  files[i].size + 1 <= blocks[k].size
  <2>1. PICK b \in UsedBlocks(blocks) : files[i].data = PtrOf(b)
    BY <1>2
  <2>2. PICK j \in 1..Len(blocks) : b = blocks[j]
    BY <1>2, <2>1, UsedBlocksTyped
  <2>3. k \in 1..Len(blocks)
    BY <1>2, LenProperties DEF ListOK
  <2>4. k = j
    BY <1>2, <1>3, <2>1, <2>2, <2>3, OneBlockPerPointer
  <2> QED BY <1>2, <2>1, <2>2, <2>4
<1> QED BY <1>2, <1>3

(* vfs_read copies out the content written last, and content and zero lie  *)
(* inside the file's own block.                                            *)
THEOREM VFSContent == Spec => []ContentInBlock
<1> QED BY VFSInvariant, VFSInvContent, PTL

(* A call of vfs.c changes the name or the readable content of one slot at *)
(* most: the blocks it splits, merges and grants are no other file's.      *)
THEOREM VFSOneFileAtATime == Spec => OneFileAtATime
<1> DEFINE View(i) == <<files[i].name, files[i].in_use, ReadOf(i)>>
           OneAtMost ==
             \A i, j \in Slots :
               /\ <<files[i].name, files[i].in_use, ReadOf(i)>>' # <<files[i].name, files[i].in_use, ReadOf(i)>>
               /\ <<files[j].name, files[j].in_use, ReadOf(j)>>' # <<files[j].name, files[j].in_use, ReadOf(j)>>
               => i = j
<1>1. ASSUME VFSInv, [Next]_vars, NEW i \in Slots, NEW j \in Slots, i # j
      PROVE  View(i)' = View(i) \/ View(j)' = View(j)
  <2>1. CASE UNCHANGED vars
    BY <2>1 DEF vars, ReadOf
  <2>2. CASE Next
    <3>1. PICK k \in Slots : OthersKeep(State, State', k)
      BY <1>1, <2>2, VFSStep
    <3>2. State'.files = files' /\ State'.mem = mem'
      BY DEF State
    <3>3. ASSUME NEW h \in Slots \ {k} PROVE View(h)' = View(h)
      <4>1. /\ files'[h] = files[h]
            /\ (files[h].data \in DOMAIN mem') = (files[h].data \in DOMAIN mem)
            /\ files[h].data \in DOMAIN mem' => mem'[files[h].data] = mem[files[h].data]
        BY <3>1, <3>2, <3>3, StateFields DEF OthersKeep
      <4>2. ReadOf(h)' = ReadOf(h)
        BY <4>1 DEF ReadOf
      <4> QED BY <4>1, <4>2
    <3> QED BY <1>1, <3>3
  <2> QED BY <1>1, <2>1, <2>2
<1>2. VFSInv /\ [Next]_vars => [OneAtMost]_vars
  BY <1>1
<1> QED BY <1>2, VFSInvariant, PTL DEF Spec, OneFileAtATime

-----------------------------------------------------------------------------
(* The refinement of FileStore.                                            *)
LEMMA FileMapIsMapOf == FileMap = MapOf(State, NoContent)
BY StateFields DEF FileMap, MapOf, NamesIn, InUse, ContentOf

(* A table with a free slot holds fewer than MAX_FILES names.              *)
LEMMA RoomLeft ==
  ASSUME NEW fs, FreeSlots(fs) # {}
  PROVE  Cardinality(NamesIn(fs)) < MAX_FILES
<1>1. IsFiniteSet(Slots) /\ Cardinality(Slots) = MAX_FILES
  BY SizesTyped, FS_Interval DEF Slots
<1>2. InUse(fs) \subseteq Slots /\ InUse(fs) # Slots
  BY DEF InUse, FreeSlots
<1>3. /\ IsFiniteSet(InUse(fs)) /\ Cardinality(InUse(fs)) < MAX_FILES
      /\ Cardinality(InUse(fs)) \in Nat
  BY <1>1, <1>2, FS_Subset, FS_CardinalityType
<1> DEFINE f == [i \in InUse(fs) |-> fs[i].name]
<1>4. f \in Surjection(InUse(fs), NamesIn(fs))
  BY DEF NamesIn, Surjection
<1>5. Cardinality(NamesIn(fs)) <= Cardinality(InUse(fs)) /\ IsFiniteSet(NamesIn(fs))
  BY <1>3, <1>4, FS_Surjection
<1>6. Cardinality(NamesIn(fs)) \in Nat /\ MAX_FILES \in Nat
  BY <1>5, FS_CardinalityType, SizesTyped
<1> QED BY <1>3, <1>5, <1>6

-----------------------------------------------------------------------------
(* Names stay apart, and each call is one operation of the map.            *)
RefinementInv == VFSInv /\ Unique(files)

LEMMA StateAfter ==
  ASSUME NEW t, Become(t), StateOK(t)
  PROVE  State' = t /\ files' = t.files /\ FileMap' = MapOf(t, NoContent)
<1>1. State' = t /\ files' = t.files
  BY DEF Become, State, StateOK
<1>2. FileMap' = MapOf(State', NoContent)
  <2>1. State'.files = files' /\ State'.mem = mem'
    BY DEF State
  <2> QED BY <2>1 DEF FileMap, MapOf, NamesIn, InUse, ContentOf
<1> QED BY <1>1, <1>2

LEMMA CreateRefines ==
  ASSUME ShortNames, RefinementInv, NEW n \in Names, VfsCreate(n)
  PROVE  Unique(files') /\ Store!Create(n)
<1> DEFINE t == Created(State, n)
           i == Min(FreeSlots(State.files))
<1>1. CanCreate(State.files, n) /\ Become(t) /\ StateOK(State) /\ Unique(State.files)
  BY StateFields DEF VfsCreate, RefinementInv, VFSInv
<1>2. /\ StateOK(t) /\ i \in Slots /\ ~State.files[i].in_use /\ OthersKeep(State, t, i)
      /\ t.files[i] = [name |-> Stored[n], size |-> 0, data |-> NULL, in_use |-> TRUE]
      /\ t.files[i].in_use
  BY <1>1, CreatedOK
<1>3. Unique(t.files)
  BY <1>1, CreatedUnique DEF ShortNames
<1> HIDE DEF t, i
<1>4. files' = t.files /\ FileMap' = MapOf(t, NoContent)
  BY <1>1, <1>2, StateAfter
<1>5. t.files[i].name = n /\ t.files[i].data = NULL
  BY <1>2 DEF ShortNames
<1>6. ContentOf(t, i, NoContent) = NoContent
  <2>1. \A b \in UsedBlocks(t.blocks) : PtrOf(b) # NULL
    BY <1>2, UsedPointers DEF StateOK, NULL
  <2>2. NULL \notin DOMAIN t.mem
    BY <1>2, <2>1 DEF StateOK
  <2> QED BY <1>5, <2>2 DEF ContentOf
<1>7. FileMap' = Put(FileMap, n, NoContent)
  BY <1>1, <1>2, <1>3, <1>4, <1>5, <1>6, MapPut, FileMapIsMapOf
<1>8. n \notin DOMAIN FileMap
  BY <1>1, FileMapIsMapOf DEF MapOf, NamesIn, InUse, CanCreate, Matches
<1>9. Cardinality(DOMAIN FileMap) < MAX_FILES
  <2>1. DOMAIN FileMap = NamesIn(State.files)
    BY FileMapIsMapOf DEF MapOf
  <2> QED BY <1>1, <2>1, RoomLeft DEF CanCreate
<1>10. Store!Cardinality(DOMAIN FileMap) < MAX_FILES
  <2>1. Store!Cardinality(DOMAIN FileMap) = Cardinality(DOMAIN FileMap)
    BY Zenon DEF Store!Cardinality, Cardinality, Store!IsFiniteSet, IsFiniteSet
  <2> QED BY <1>9, <2>1
<1> QED BY <1>3, <1>4, <1>7, <1>8, <1>10 DEF Store!Create, Store!Set, Put

LEMMA DeleteRefines ==
  ASSUME RefinementInv, NEW n \in Names, VfsDelete(n)
  PROVE  Unique(files') /\ Store!Delete(n)
<1> DEFINE i == OpenIn(State.files, n)
           t == Deleted(State, i)
<1>1. Become(t) /\ i # 0 /\ StateOK(State) /\ Unique(State.files)
  BY StateFields DEF VfsDelete, RefinementInv, VFSInv
<1>2. i \in InUse(State.files) /\ State.files[i].name = n /\ i \in Slots
  BY <1>1, OpenFound DEF Matches, InUse
<1> HIDE DEF i
<1>3. StateOK(t) /\ OthersKeep(State, t, i) /\ ~t.files[i].in_use /\ Unique(t.files)
  BY <1>1, <1>2, DeletedOK, DeletedUnique
<1> HIDE DEF t
<1>4. files' = t.files /\ FileMap' = MapOf(t, NoContent)
  BY <1>1, <1>3, StateAfter
<1>5. FileMap' = Drop(FileMap, n)
  BY <1>1, <1>2, <1>3, <1>4, MapDrop, FileMapIsMapOf
<1>6. n \in DOMAIN FileMap
  BY <1>1, <1>2, MapAt, FileMapIsMapOf
<1> QED BY <1>3, <1>4, <1>5, <1>6 DEF Store!Delete, Drop

LEMMA WriteRefines ==
  ASSUME RefinementInv, NEW i \in Slots, NEW c \in Contents, VfsWrite(i, c)
  PROVE  /\ Unique(files')
         /\ \/ FileMap' = FileMap
            \/ \E n \in Names : Store!Write(n, c) \/ Store!WriteFails(n)
<1> DEFINE t == Written(State, i, c)
           n == State.files[i].name
<1>1. Become(t) /\ State.files[i].in_use /\ StateOK(State) /\ Unique(State.files)
  BY StateFields DEF VfsWrite, RefinementInv, VFSInv
<1>2. /\ StateOK(t) /\ OthersKeep(State, t, i)
      /\ t.files[i].name = n /\ t.files[i].in_use
      /\ \/ TooLarge(c) /\ t = State
         \/ t.files[i].data = NULL
         \/ /\ t.files[i].data \in DOMAIN t.mem
            /\ t.mem[t.files[i].data] = c /\ t.files[i].size = ContentSize[c]
  BY <1>1, WrittenOK
<1>3. Unique(t.files)
  BY <1>1, WrittenUnique
<1>4. n \in Names /\ i \in InUse(State.files)
  BY <1>1 DEF StateOK, InUse
<1> HIDE DEF t, n
<1>5. files' = t.files /\ FileMap' = MapOf(t, NoContent)
  BY <1>1, <1>2, StateAfter
<1>6. n \in DOMAIN FileMap
  BY <1>1, <1>4, MapAt, FileMapIsMapOf DEF n
<1>7. FileMap' = Put(FileMap, n, ContentOf(t, i, NoContent))
  BY <1>1, <1>2, <1>3, <1>5, MapPut, FileMapIsMapOf DEF n
<1>8. CASE t = State
  BY <1>3, <1>5, <1>8, FileMapIsMapOf
<1>9. CASE t.files[i].data = NULL
  <2>1. \A b \in UsedBlocks(t.blocks) : PtrOf(b) # NULL
    BY <1>2, UsedPointers DEF StateOK, NULL
  <2>2. NULL \notin DOMAIN t.mem
    BY <1>2, <2>1 DEF StateOK
  <2>3. ContentOf(t, i, NoContent) = NoContent
    BY <1>9, <2>2 DEF ContentOf
  <2>4. Store!WriteFails(n)
    BY <1>6, <1>7, <2>3 DEF Store!WriteFails, Store!Set, Put
  <2> QED BY <1>3, <1>4, <1>5, <2>4
<1>10. CASE t.files[i].data \in DOMAIN t.mem /\ t.mem[t.files[i].data] = c
  <2>1. ContentOf(t, i, NoContent) = c
    BY <1>10 DEF ContentOf
  <2>2. Store!Write(n, c)
    BY <1>6, <1>7, <2>1 DEF Store!Write, Store!Set, Put
  <2> QED BY <1>3, <1>4, <1>5, <2>2
<1> QED BY <1>2, <1>8, <1>9, <1>10

LEMMA NamesApartAtFirst ==
  ASSUME ShortNames, Init
  PROVE  RefinementInv
<1> QED BY VFSInitInv, BootedOK DEF Init, ShortNames, RefinementInv

LEMMA RefinementInitial ==
  ASSUME ShortNames, DefaultsWritten
  PROVE  Init => RefinementInv /\ Store!Init
<1> SUFFICES ASSUME Init PROVE RefinementInv /\ Store!Init
  OBVIOUS
<1>1. VFSInv
  BY NamesApartAtFirst DEF RefinementInv
<1>2. Unique(files)
  BY NamesApartAtFirst DEF RefinementInv
<1>3. StateOK(State) /\ Unique(State.files)
  BY <1>1, <1>2, StateFields DEF VFSInv
<1>4. \A n \in DOMAIN MapOf(State, NoContent) : n \in Names
  BY <1>3 DEF MapOf, NamesIn, InUse, StateOK
<1> QED
  <2>1. DOMAIN FileMap \subseteq Names
    BY <1>4, FileMapIsMapOf
  <2>2. ASSUME NEW n \in DOMAIN FileMap PROVE FileMap[n] \in Contents
    <3>1. PICK i \in InUse(State.files) : n = State.files[i].name
      BY FileMapIsMapOf DEF MapOf, NamesIn
    <3>2. FileMap[n] = ContentOf(State, i, NoContent)
      BY <1>3, <3>1, MapAt, FileMapIsMapOf
    <3>3. i \in Owners(State.files)
      BY <3>1, StateFields DEF Init, InUse, Owners, DefaultsWritten
    <3>4. State.files[i].data \in DOMAIN State.mem
      BY <1>3, <3>3 DEF StateOK
    <3> QED BY <1>3, <3>2, <3>4 DEF StateOK, ContentOf
  <2> QED BY <1>1, <1>2, <2>1, <2>2 DEF RefinementInv, Store!Init

LEMMA RefinementNext ==
  ASSUME ShortNames
  PROVE  RefinementInv /\ [Next]_vars => RefinementInv' /\ [Store!Next]_FileMap
<1> SUFFICES ASSUME RefinementInv, [Next]_vars
             PROVE  RefinementInv' /\ (Store!Next \/ FileMap' = FileMap)
  OBVIOUS
<1>1. VFSInv'
  BY VFSNextInv DEF RefinementInv
<1>2. Unique(files') /\ (Store!Next \/ FileMap' = FileMap)
  <2>1. ASSUME NEW n \in Names, VfsCreate(n) PROVE Unique(files') /\ Store!Next
    BY <2>1, CreateRefines DEF Store!Next
  <2>2. ASSUME NEW n \in Names, VfsDelete(n) PROVE Unique(files') /\ Store!Next
    BY <2>2, DeleteRefines DEF Store!Next
  <2>3. ASSUME NEW i \in Slots, NEW c \in Contents, VfsWrite(i, c)
        PROVE  Unique(files') /\ (Store!Next \/ FileMap' = FileMap)
    BY <2>3, WriteRefines DEF Store!Next
  <2>4. ASSUME UNCHANGED vars PROVE Unique(files') /\ FileMap' = FileMap
    <3>1. files' = files /\ mem' = mem
      BY <2>4 DEF vars
    <3>2. FileMap' = FileMap
      BY <3>1 DEF FileMap
    <3> QED BY <3>1, <3>2 DEF RefinementInv
  <2> QED BY <2>1, <2>2, <2>3, <2>4 DEF Next
<1> QED BY <1>1, <1>2 DEF RefinementInv

(* With names that fit, vfs.c is a bounded map from names to contents:     *)
(* each call is one operation of the map, whatever the heap below splits,  *)
(* merges or refuses.                                                      *)
THEOREM VFSImplementsFileStore ==
  ASSUME ShortNames, DefaultsWritten
  PROVE  Spec => ImplementsFileStore
<1> QED BY RefinementInitial, RefinementNext, PTL
        DEF Spec, ImplementsFileStore, Store!Spec

(* vfs_create's look for an existing file works when names fit.            *)
THEOREM VFSUniqueNames ==
  ASSUME ShortNames
  PROVE  Spec => []UniqueNames
<1>1. RefinementInv => UniqueNames
  BY DEF RefinementInv, Unique, InUse, UniqueNames
<1>2. Init => RefinementInv
  BY NamesApartAtFirst
<1> QED BY <1>1, <1>2, RefinementNext, PTL DEF Spec
=============================================================================
