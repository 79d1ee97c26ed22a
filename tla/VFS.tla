---------------------------------- MODULE VFS ----------------------------------
(***************************************************************************)
(* kernel/vfs.c on top of the block list of kernel/heap.c: a table of      *)
(* MAX_FILES slots whose contents live in blocks of the heap.              *)
(*                                                                         *)
(* Names are values; Stored[n] is what str_copy leaves of n (its first 31  *)
(* characters).  A content is a value c of ContentSize[c] bytes.  `mem'    *)
(* says which content was last copied behind each allocated pointer.       *)
(***************************************************************************)
EXTENDS HeapBlocks, FiniteSets

CONSTANTS
  MAX_FILES, MAX_FILE_SIZE,
  Names, Stored,           \* Stored \in [Names -> Names]
  Contents, ContentSize,   \* ContentSize \in [Contents -> Nat]
  NoName,                  \* the name field of a slot never used
  DefaultFiles             \* what vfs_init makes: a sequence of <<name, content>>

ASSUME VFSParameters ==
  /\ MAX_FILES \in Nat \ {0} /\ MAX_FILE_SIZE \in Nat /\ MAX_FILE_SIZE + 4 < WORD
  /\ NoName \notin Names
  /\ Stored \in [Names -> Names] /\ \A n \in Names : Stored[Stored[n]] = Stored[n]
  /\ ContentSize \in [Contents -> Nat]
  /\ DefaultFiles \in Seq(Names \X Contents)

VARIABLES files, blocks, mem

vars == <<files, blocks, mem>>

Slots == 1..MAX_FILES
FreeSlot == [name |-> NoName, size |-> 0, data |-> NULL, in_use |-> FALSE]

-----------------------------------------------------------------------------
(* The functions of vfs.c on a state s = [files, blocks, mem].             *)

Matches(fs, n) == {i \in Slots : fs[i].in_use /\ fs[i].name = n}

(* vfs_open: the first slot in use whose name equals n, 0 for none.        *)
OpenIn(fs, n) == IF Matches(fs, n) = {} THEN 0 ELSE Min(Matches(fs, n))

FreeSlots(fs) == {i \in Slots : ~fs[i].in_use}

CanCreate(fs, n) == Matches(fs, n) = {} /\ FreeSlots(fs) # {}

(* vfs_create: the full name is compared, its first 31 characters kept.    *)
Created(s, n) ==
  IF CanCreate(s.files, n)
  THEN [s EXCEPT !.files[Min(FreeSlots(s.files))] =
          [name |-> Stored[n], size |-> 0, data |-> NULL, in_use |-> TRUE]]
  ELSE s

(* Seeded fault: the old data is not freed.                                *)
ReleaseNothing(s, p) == s

(* kfree of a file's data, when there is any.                              *)
Release(s, p) ==
  IF p = NULL THEN s
  ELSE [s EXCEPT
          !.blocks = Freed(@, CHOOSE k \in DOMAIN @ : PtrOf(@[k]) = p),
          !.mem = [q \in DOMAIN @ \ {p} |-> @[q]]]

CanGrant(bs, need) == \E k \in DOMAIN bs : Fits(bs[k], need)

TooLarge(c) == ContentSize[c] > MAX_FILE_SIZE

(* Seeded fault: no room for the terminating zero.                         *)
BytesWithoutZero(c) == AlignUp(ContentSize[c])

BytesFor(c) == AlignUp(ContentSize[c] + 1)

(* vfs_write: the old block is freed before the new one is asked for; when *)
(* kmalloc refuses, data stays NULL and size keeps its old value.          *)
Written(s, i, c) ==
  LET freed == Release(s, s.files[i].data)
      need  == BytesFor(c)
      k     == CHOOSE j \in DOMAIN freed.blocks : IsFirstFit(freed.blocks, j, need)
      ptr   == PtrOf(freed.blocks[k])
  IN  IF TooLarge(c) THEN s
      ELSE IF ~CanGrant(freed.blocks, need)
      THEN [freed EXCEPT !.files[i].data = NULL]
      ELSE [files  |-> [s.files EXCEPT ![i].data = ptr, ![i].size = ContentSize[c]],
            blocks |-> Taken(freed.blocks, k, need),
            mem    |-> [q \in DOMAIN freed.mem \cup {ptr} |->
                          IF q = ptr THEN c ELSE freed.mem[q]]]

(* vfs_delete of the file in slot i.                                       *)
Deleted(s, i) ==
  [Release(s, s.files[i].data) EXCEPT
     !.files[i].in_use = FALSE, !.files[i].data = NULL, !.files[i].size = 0]

(* vfs_init: empty every slot, then create and write the default files.    *)
Booted ==
  FoldLeft(LAMBDA s, f :
             LET t == Created(s, f[1])
             IN  IF CanCreate(s.files, f[1])
                 THEN Written(t, Min(FreeSlots(s.files)), f[2]) ELSE t,
           [files |-> [i \in Slots |-> FreeSlot], blocks |-> InitialBlocks,
            mem |-> [p \in {} |-> NULL]],
           DefaultFiles)

-----------------------------------------------------------------------------
State == [files |-> files, blocks |-> blocks, mem |-> mem]

Become(s) == files' = s.files /\ blocks' = s.blocks /\ mem' = s.mem

Init == files = Booted.files /\ blocks = Booted.blocks /\ mem = Booted.mem

VfsCreate(n) == CanCreate(files, n) /\ Become(Created(State, n))

(* A file pointer comes from vfs_open or vfs_create just before the call.  *)
VfsWrite(i, c) == files[i].in_use /\ Become(Written(State, i, c))

VfsDelete(n) ==
  /\ OpenIn(files, n) # 0
  /\ Become(Deleted(State, OpenIn(files, n)))

Next ==
  \/ \E n \in Names : VfsCreate(n) \/ VfsDelete(n)
  \/ \E i \in Slots, c \in Contents : VfsWrite(i, c)

Spec == Init /\ [][Next]_vars

-----------------------------------------------------------------------------
TypeOK ==
  /\ files \in [Slots -> [name : Names \cup {NoName}, size : 0..MAX_FILE_SIZE,
                          data : 0..(HEAP_START + HEAP_SIZE), in_use : BOOLEAN]]
  /\ blocks \in Seq(Block)
  /\ mem \in [DOMAIN mem -> Contents]

WithData == {i \in Slots : files[i].data # NULL}

(* Each allocated block is the data of exactly one file in use: the        *)
(* free-then-allocate of vfs_write (vfs.c:94-99) and the two resets of     *)
(* vfs_delete neither leak a block nor leave a pointer to a freed one.     *)
OneOwnerPerBlock ==
  /\ \A i \in WithData : files[i].in_use
  /\ \A i, j \in WithData : i # j => files[i].data # files[j].data
  /\ {files[i].data : i \in WithData} = {PtrOf(b) : b \in UsedBlocks(blocks)}

(* vfs_read copies file->size bytes: exactly the content written last,     *)
(* which lies with its terminating zero (vfs.c:105) inside the file's own  *)
(* block.                                                                  *)
ContentInBlock ==
  \A i \in WithData :
    /\ files[i].data \in DOMAIN mem /\ files[i].size = ContentSize[mem[files[i].data]]
    /\ \A k \in DOMAIN blocks :
         PtrOf(blocks[k]) = files[i].data => files[i].size + 1 <= blocks[k].size

(* What vfs_read gives for slot i: nothing when the data is gone, which a  *)
(* pointer to a freed block would count as until the block is granted anew. *)
(* The zero behind the bytes, and the limit of MAX_FILE_SIZE - 1 bytes     *)
(* that the callers give (kernel.c:194, 646), are left out: no file that   *)
(* the kernel writes is longer (kernel.c:809, 843).                        *)
ReadOf(i) ==
  IF files[i].data \in DOMAIN mem THEN <<mem[files[i].data], files[i].size>> ELSE <<>>

(* A call changes the name or the readable content of one slot at most,    *)
(* although all contents share one heap that it splits and merges.         *)
OneFileAtATime ==
  [][\A i, j \in Slots :
       /\ <<files[i].name, files[i].in_use, ReadOf(i)>>' # <<files[i].name, files[i].in_use, ReadOf(i)>>
       /\ <<files[j].name, files[j].in_use, ReadOf(j)>>' # <<files[j].name, files[j].in_use, ReadOf(j)>>
       => i = j]_vars

(* vfs.c:59 "Check if file already exists": no two files have one name.    *)
UniqueNames ==
  \A i, j \in Slots :
    files[i].in_use /\ files[j].in_use /\ files[i].name = files[j].name => i = j
=============================================================================
