----------------------------- MODULE VFSRefinement -----------------------------
(***************************************************************************)
(* The file table over the block list implements a map from names to       *)
(* contents, for callers whose names all fit into 31 characters.           *)
(***************************************************************************)
EXTENDS VFS

CONSTANT NoContent

ShortNames == \A n \in Names : Stored[n] = n

ASSUME NoContentParameter == NoContent \notin Contents

(* The files of vfs_init are small enough for the heap, so that each of    *)
(* them starts with its content.                                           *)
DefaultsWritten ==
  \A i \in Slots : Booted.files[i].in_use => Booted.files[i].data # NULL

FileMap ==
  [n \in {files[i].name : i \in {j \in Slots : files[j].in_use}} |->
     LET i == OpenIn(files, n)
     IN  IF files[i].data \in DOMAIN mem THEN mem[files[i].data] ELSE NoContent]

Store == INSTANCE FileStore WITH store <- FileMap, MaxFiles <- MAX_FILES

(* Every call behaves as the map's operation of that name, whatever is     *)
(* split, merged or refused in the heap below (vfs.c:58-137).              *)
ImplementsFileStore == Store!Spec
=============================================================================
