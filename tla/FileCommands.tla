----------------------------- MODULE FileCommands -----------------------------
(***************************************************************************)
(* What the commands of kernel/kernel.c do with a file by name, as         *)
(* functions on the file table's state.  Shell.tla uses them for the       *)
(* commands and the editor's keys, CommandLine.tla for whole lines.        *)
(***************************************************************************)
EXTENDS VFS

(* The slot a file is opened in, else the one vfs_create gives it.         *)
SlotFor(fs, n) ==
  IF OpenIn(fs, n) # 0 THEN OpenIn(fs, n)
  ELSE IF FreeSlots(fs) # {} THEN Min(FreeSlots(fs)) ELSE 0

(* Seeded fault: :w writes only into a file it has just created.           *)
SavedIfNew(s, n, text) ==
  IF CanCreate(s.files, n)
  THEN Written(Created(s, n), Min(FreeSlots(s.files)), text) ELSE s

(* :w and :wq -- open or create, then write the whole buffer.              *)
Saved(s, n, text) ==
  LET i == SlotFor(s.files, n)
  IN  IF i = 0 THEN s ELSE Written(Created(s, n), i, text)

(* wget writes only into a file it has just created.                       *)
Downloaded(s, n, text) ==
  IF CanCreate(s.files, n)
  THEN Written(Created(s, n), Min(FreeSlots(s.files)), text) ELSE s

(* rm: vfs_delete of the first file of that name, if there is one.         *)
Removed(s, n) ==
  IF OpenIn(s.files, n) = 0 THEN s ELSE Deleted(s, OpenIn(s.files, n))
=============================================================================
