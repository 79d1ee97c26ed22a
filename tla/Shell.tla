--------------------------------- MODULE Shell ---------------------------------
(***************************************************************************)
(* The commands of kernel/kernel.c that change files, over the file table  *)
(* of VFS.tla: touch, rm, wget and the editor with its two key modes.  A   *)
(* step is one command line or, inside the editor, one key.                *)
(*                                                                         *)
(* Texts are sequences of "c" (any printable character but the colon) and  *)
(* "nl"; editor commands are sequences of "q" and "w", which also spell    *)
(* unknown ones.  What the commands draw is left out, except for what the  *)
(* user acts on: that a file was made or saved, and the line number.       *)
(***************************************************************************)
EXTENDS FileCommands

CONSTANTS
  Downloads,     \* what net_http_get may answer
  CMD_MAX        \* the 30 characters of an editor command

Chars == {"c", "nl"}
CmdChars == {"q", "w"}
Newlines(text) == Cardinality({k \in DOMAIN text : text[k] = "nl"})

ASSUME ShellParameters ==
  /\ Contents \subseteq Seq(Chars) /\ <<>> \in Contents
  /\ \A t \in Contents \ {<<>>} : Front(t) \in Contents
  /\ \A t \in Contents : ContentSize[t] = Len(t)
  /\ Downloads \subseteq Contents /\ \A d \in Downloads : d # <<>> /\ Len(d) < MAX_FILE_SIZE
  /\ CMD_MAX \in Nat \ {0} /\ MAX_FILE_SIZE > 0

(* The default files of vfs_init have different names, fit the table and   *)
(* leave edit_buffer its last byte (vfs.c:42-53).                          *)
ASSUME ShellDefaults ==
  /\ Len(DefaultFiles) <= MAX_FILES
  /\ \A j, k \in DOMAIN DefaultFiles :
       Stored[DefaultFiles[j][1]] = Stored[DefaultFiles[k][1]] => j = k
  /\ \A k \in DOMAIN DefaultFiles : Len(DefaultFiles[k][2]) < MAX_FILE_SIZE

(* A heap with room for MAX_FILES - 1 blocks as kmalloc may grant them to  *)
(* files, each with a header and a rest too small to cut off, and for as   *)
(* many gaps and one more, each as long as the largest request.  64 files  *)
(* of 4096 bytes need less than 530,000 of the kernel's 1,048,576.         *)
ASSUME RoomForFiles ==
  LET largest == AlignUp(MAX_FILE_SIZE + 1)
  IN  HEAP_SIZE >= (MAX_FILES - 1) * (2 * HDR + largest + SPLIT_SLACK)
                     + MAX_FILES * (HDR + largest)

VARIABLES
  mode,          \* "shell", "edit" or "command": who gets the next key
  filename, edit_buffer, current_line, cmd_buf,
  saved          \* name -> the text last written to that file by name

editor == <<filename, edit_buffer, current_line, cmd_buf>>
shellVars == <<vars, mode, editor, saved>>

-----------------------------------------------------------------------------
(* What file n reads as.  Bytes of a block never written are arbitrary.    *)
(* The read stops at MAX_FILE_SIZE - 1 bytes (kernel.c:646); no text that  *)
(* is saved is longer.                                                     *)
TextsOf(s, n) ==
  LET f == s.files[OpenIn(s.files, n)]
  IN  IF OpenIn(s.files, n) = 0 THEN {<<>>}
      ELSE IF f.data = NULL THEN [1..f.size -> Chars]
      ELSE {s.mem[f.data]}

Noted(n, text) ==
  [m \in DOMAIN saved \cup {n} |-> IF m = n THEN text ELSE saved[m]]

ShellInit ==
  /\ Init
  /\ mode = "shell"
  /\ filename = NoName /\ edit_buffer = <<>> /\ current_line = 1 /\ cmd_buf = <<>>
  /\ saved = [n \in {DefaultFiles[k][1] : k \in DOMAIN DefaultFiles} |->
                LET k == CHOOSE j \in DOMAIN DefaultFiles : DefaultFiles[j][1] = n
                IN  DefaultFiles[k][2]]

-----------------------------------------------------------------------------
(* Command lines.                                                          *)
Touch(n) ==
  /\ mode = "shell"
  /\ Become(Created(State, n))
  /\ saved' = (IF CanCreate(files, n) THEN Noted(n, <<>>) ELSE saved)
  /\ UNCHANGED <<mode, editor>>

Rm(n) ==
  /\ mode = "shell"
  /\ Become(Removed(State, n))
  /\ saved' = [m \in DOMAIN saved \ {n} |-> saved[m]]
  /\ UNCHANGED <<mode, editor>>

Wget(n, text) ==
  /\ mode = "shell"
  /\ Become(Downloaded(State, n, text))
  /\ saved' = (IF CanCreate(files, n) THEN Noted(n, text) ELSE saved)
  /\ UNCHANGED <<mode, editor>>

Edit(n) ==
  /\ mode = "shell" /\ mode' = "edit"
  /\ filename' = n
  /\ edit_buffer' \in TextsOf(State, n)
  /\ current_line' = 1 + Newlines(edit_buffer')
  /\ cmd_buf' = <<>>
  /\ UNCHANGED <<vars, saved>>

-----------------------------------------------------------------------------
(* Seeded fault: the last byte of edit_buffer is filled as well.           *)
InsertOneMore(ch) ==
  /\ mode = "edit" /\ Len(edit_buffer) < MAX_FILE_SIZE
  /\ Append(edit_buffer, ch) \in Contents
  /\ edit_buffer' = Append(edit_buffer, ch)
  /\ current_line' = current_line + (IF ch = "nl" THEN 1 ELSE 0)
  /\ UNCHANGED <<vars, mode, filename, cmd_buf, saved>>

(* Keys in the text.  Contents bounds the texts that are typed.            *)
Insert(ch) ==
  /\ mode = "edit" /\ Len(edit_buffer) < MAX_FILE_SIZE - 1
  /\ Append(edit_buffer, ch) \in Contents
  /\ edit_buffer' = Append(edit_buffer, ch)
  /\ current_line' = current_line + (IF ch = "nl" THEN 1 ELSE 0)
  /\ UNCHANGED <<vars, mode, filename, cmd_buf, saved>>

(* Seeded fault: deleting a newline does not step back a line.             *)
BackspaceInLine ==
  /\ mode = "edit" /\ edit_buffer # <<>>
  /\ edit_buffer' = Front(edit_buffer)
  /\ UNCHANGED <<vars, mode, filename, current_line, cmd_buf, saved>>

Backspace ==
  /\ mode = "edit" /\ edit_buffer # <<>>
  /\ edit_buffer' = Front(edit_buffer)
  /\ current_line' = current_line - (IF Last(edit_buffer) = "nl" THEN 1 ELSE 0)
  /\ UNCHANGED <<vars, mode, filename, cmd_buf, saved>>

Colon ==
  /\ mode = "edit" /\ mode' = "command" /\ cmd_buf' = <<>>
  /\ UNCHANGED <<vars, filename, edit_buffer, current_line, saved>>

(* Keys in an editor command.  The editor's variables are locals of the    *)
(* command: when it ends they are gone.                                    *)
CmdInsert(ch) ==
  /\ mode = "command" /\ Len(cmd_buf) < CMD_MAX
  /\ cmd_buf' = Append(cmd_buf, ch)
  /\ UNCHANGED <<vars, mode, filename, edit_buffer, current_line, saved>>

CmdBackspace ==
  /\ mode = "command" /\ cmd_buf # <<>>
  /\ cmd_buf' = Front(cmd_buf)
  /\ UNCHANGED <<vars, mode, filename, edit_buffer, current_line, saved>>

CmdEnter ==
  /\ mode = "command"
  /\ mode' = (IF cmd_buf \in {<<"q">>, <<"w", "q">>} THEN "shell" ELSE "edit")
  /\ IF cmd_buf \in {<<"w">>, <<"w", "q">>}
     THEN /\ Become(Saved(State, filename, edit_buffer))
          /\ saved' = (IF SlotFor(files, filename) # 0
                       THEN Noted(filename, edit_buffer) ELSE saved)
     ELSE UNCHANGED <<vars, saved>>
  /\ cmd_buf' = <<>>
  /\ IF mode' = "shell"
     THEN filename' = NoName /\ edit_buffer' = <<>> /\ current_line' = 1
     ELSE UNCHANGED <<filename, edit_buffer, current_line>>

ShellNext ==
  \/ \E n \in Names : Touch(n) \/ Rm(n) \/ Edit(n)
  \/ \E n \in Names, d \in Downloads : Wget(n, d)
  \/ \E ch \in Chars : Insert(ch)
  \/ \E ch \in CmdChars : CmdInsert(ch)
  \/ Backspace \/ Colon \/ CmdBackspace \/ CmdEnter

ShellSpec == ShellInit /\ [][ShellNext]_shellVars

-----------------------------------------------------------------------------
ShellTypeOK ==
  /\ TypeOK
  /\ mode \in {"shell", "edit", "command"} /\ filename \in Names \cup {NoName}
  /\ edit_buffer \in Seq(Chars) /\ current_line \in Nat
  /\ cmd_buf \in Seq(CmdChars) /\ Len(cmd_buf) <= CMD_MAX
  /\ DOMAIN saved \subseteq Names /\ \A n \in DOMAIN saved : saved[n] \in Contents

(* edit_buffer[edit_pos] = '\0' stays inside its MAX_FILE_SIZE bytes: the  *)
(* editor reloads sizes other writers left, and vfs_write itself would     *)
(* accept one byte more (kernel.c:647, 725 and vfs.c:91).  The characters  *)
(* of a command stay inside cmd_buf (kernel.c:754).                        *)
EditFits ==
  mode # "shell" => Len(edit_buffer) < MAX_FILE_SIZE /\ Len(cmd_buf) <= CMD_MAX

(* The status line's number is the line of the cursor, also after newlines *)
(* were deleted and files reloaded (kernel.c:663 and 773).                 *)
LineNumberExact == mode # "shell" => current_line = 1 + Newlines(edit_buffer)

(* Every file reads as the text last written to it by name, through any    *)
(* history of saves, deletes and reused slots and blocks.  A download whose *)
(* name is taken is reported as saved but writes nothing (kernel.c:603-620); *)
(* it is not counted.                                                      *)
SavedIsReadable ==
  /\ DOMAIN saved = {files[i].name : i \in {j \in Slots : files[j].in_use}}
  /\ \A n \in DOMAIN saved : TextsOf(State, n) = {saved[n]}

(* kmalloc never refuses the file system: with at most MAX_FILES contents  *)
(* in it, no fragmentation of this heap leaves a write without room        *)
(* (vfs.c:98-99), so the free-before-allocate of vfs_write loses nothing.  *)
WritesNeverFail ==
  \A i \in Slots, t \in Contents :
    files[i].in_use /\ Len(t) < MAX_FILE_SIZE =>
      Written(State, i, t).files[i].data # NULL
=============================================================================
