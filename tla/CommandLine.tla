------------------------------ MODULE CommandLine ------------------------------
(***************************************************************************)
(* The command line of kernel/kernel.c: typing, backspace, Tab completion  *)
(* of command and file names, Enter and the new prompt, over the file      *)
(* table of VFS.tla.  Characters are one-letter strings and names are      *)
(* sequences of them, because completion compares them one by one.         *)
(*                                                                         *)
(* `row' is the part of the screen behind the prompt, in character cells:  *)
(* cell 0 is at x = 156, where the prompt ends.  A completion draws from   *)
(* x = 164, which is cell 1.  Output is counted in rows of 20 pixels.      *)
(***************************************************************************)
EXTENDS FileCommands

CONSTANTS
  LINE_MAX,      \* typing stops at this length; command_buffer has one byte more
  HEIGHT, COLS,  \* the framebuffer's height in pixels, its cells behind the prompt
  HINT,          \* the length of "type here..."
  Chars,         \* the printable characters
  ContentRows,   \* how many lines `cat' makes of a content
  Lines          \* bound: what is typed key by key

space == " "

ASSUME LineParameters ==
  /\ LINE_MAX \in Nat /\ LINE_MAX >= 8 /\ HEIGHT \in Nat /\ HEIGHT >= 150 /\ COLS \in Nat \ {0}
  /\ HINT \in Nat /\ ContentRows \in [Contents -> Nat]
  /\ Names \subseteq Seq(Chars) /\ Lines \subseteq Seq(Chars) /\ space \in Chars
  /\ \A l \in Lines : l = <<>> \/ Front(l) \in Lines

help == <<"h", "e", "l", "p">>
clear == <<"c", "l", "e", "a", "r">>
ls == <<"l", "s">>
cat == <<"c", "a", "t">>
uname == <<"u", "n", "a", "m", "e">>
echo == <<"e", "c", "h", "o">>
uptime == <<"u", "p", "t", "i", "m", "e">>
free == <<"f", "r", "e", "e">>
touch == <<"t", "o", "u", "c", "h">>
rm == <<"r", "m">>
top == <<"t", "o", "p">>
edit == <<"e", "d", "i", "t">>
ping == <<"p", "i", "n", "g">>
ifconfig == <<"i", "f", "c", "o", "n", "f", "i", "g">>
wget == <<"w", "g", "e", "t">>
index_html == <<"i", "n", "d", "e", "x", ".", "h", "t", "m", "l">>

commands == <<help, clear, ls, cat, uname, uptime, echo, free, touch, rm, top,
              edit, ping, ifconfig, wget>>

ASSUME CommandsPrintable == \A k \in DOMAIN commands : commands[k] \in Seq(Chars)

VARIABLES
  line,                \* command_buffer up to cmd_pos
  cursor,              \* the cell cursor_x stands at
  row, placeholder_visible, line_y,
  ready                \* the commands whose net_initialized is set

lineVars == <<line, cursor, row, placeholder_visible>>
commandVars == <<vars, lineVars, line_y, ready>>

-----------------------------------------------------------------------------
(* The row of the prompt.  fb_putpixel drops what is outside the screen.   *)
Cells == 0..(COLS - 1)
Draw(r, at, text) ==
  [i \in Cells |-> IF i - at + 1 \in DOMAIN text THEN text[i - at + 1] ELSE r[i]]
Erase(r, at, n) == [i \in Cells |-> IF i \in at..(at + n - 1) THEN space ELSE r[i]]

FreshRow == Draw([i \in Cells |-> space], 0, [k \in 1..HINT |-> "hint"])

NewPrompt ==
  /\ line' = <<>> /\ cursor' = 0 /\ row' = FreshRow /\ placeholder_visible' = TRUE

LineInit ==
  /\ Init
  /\ line = <<>> /\ cursor = 0 /\ row = FreshRow /\ placeholder_visible = TRUE
  /\ line_y = 110 /\ ready = {}

(* Past its buffer, a line overwrites what the stack holds behind it.      *)
InBuffer == Len(line) <= LINE_MAX + 1

-----------------------------------------------------------------------------
(* Seeded fault: the last byte of command_buffer is typed into as well.    *)
TypeOneMore(c) ==
  /\ Len(line) <= LINE_MAX /\ Append(line, c) \in Lines
  /\ row' = Draw(IF placeholder_visible THEN Erase(row, 1, HINT) ELSE row, cursor, <<c>>)
  /\ placeholder_visible' = FALSE
  /\ line' = Append(line, c) /\ cursor' = cursor + 1
  /\ UNCHANGED <<vars, line_y, ready>>

Type(c) ==
  /\ Len(line) < LINE_MAX /\ Append(line, c) \in Lines
  /\ row' = Draw(IF placeholder_visible THEN Erase(row, 1, HINT) ELSE row, cursor, <<c>>)
  /\ placeholder_visible' = FALSE
  /\ line' = Append(line, c) /\ cursor' = cursor + 1
  /\ UNCHANGED <<vars, line_y, ready>>

Backspace ==
  /\ line # <<>> /\ InBuffer
  /\ line' = Front(line) /\ cursor' = cursor - 1
  /\ row' = Erase(row, cursor', 1)
  /\ UNCHANGED <<vars, placeholder_visible, line_y, ready>>

-----------------------------------------------------------------------------
(* Tab.                                                                    *)
Spaces(l) == {i \in DOMAIN l : l[i] = space}
LastSpace(l) == IF Spaces(l) = {} THEN 0 ELSE Max(Spaces(l))

(* The word Tab completes: after the last space, or the whole line.        *)
Partial(l) == SubSeq(l, LastSpace(l) + 1, Len(l))

(* vfs_get_file(0), vfs_get_file(1), ...: the files in use in slot order;  *)
(* the k-th is the one with k - 1 in front of it.                          *)
UsedSlots(fs) == {i \in Slots : fs[i].in_use}
UsedUpTo(fs, i) == Cardinality({j \in UsedSlots(fs) : j <= i})

FilesInOrder(fs) ==
  [k \in 1..Cardinality(UsedSlots(fs)) |->
     fs[CHOOSE i \in UsedSlots(fs) : UsedUpTo(fs, i) = k].name]

Candidates(l) == IF Spaces(l) = {} THEN commands ELSE FilesInOrder(files)

(* Seeded fault: any name that begins with the same letter matches.        *)
MatchesFirstLetter(l) ==
  {k \in DOMAIN Candidates(l) : IsPrefix(SubSeq(Partial(l), 1, 1), Candidates(l)[k])}

Matching(l) == {k \in DOMAIN Candidates(l) : IsPrefix(Partial(l), Candidates(l)[k])}

Completed(l) ==
  IF Matching(l) = {} THEN l
  ELSE SubSeq(l, 1, LastSpace(l)) \o Candidates(l)[Min(Matching(l))]

(* Seeded fault: the new text is drawn where the cursor is.                *)
TabAppends ==
  /\ line # <<>> /\ Len(line) <= LINE_MAX
  /\ line' = Completed(line)
  /\ IF Matching(line) = {} THEN UNCHANGED <<cursor, row>>
     ELSE /\ row' = Draw(row, cursor, Partial(line'))
          /\ cursor' = cursor + Len(Partial(line'))
  /\ UNCHANGED <<vars, placeholder_visible, line_y, ready>>

(* The partial word is erased before the cursor, the whole line is drawn   *)
(* anew from cell 1.  Nothing bounds the copy of the name.                 *)
Tab ==
  /\ line # <<>> /\ Len(line) <= LINE_MAX
  /\ line' = Completed(line)
  /\ IF Matching(line) = {} THEN UNCHANGED <<cursor, row>>
     ELSE /\ row' = Draw(Erase(row, cursor - Len(Partial(line)), Len(Partial(line))), 1, line')
          /\ cursor' = 1 + Len(line')
  /\ UNCHANGED <<vars, placeholder_visible, line_y, ready>>

-----------------------------------------------------------------------------
(* Enter.  A command draws `rows' rows below the line; then the prompt.    *)
Takes(word) == Len(line) > Len(word) + 1 /\ IsPrefix(Append(word, space), line)

(* Seeded fault: the bottom margin is forgotten.                           *)
PromptAnywhere(y) == y

PromptAt(y) == IF y > HEIGHT - 40 THEN 20 ELSE y

Prompt(lastRow) == NewPrompt /\ line_y' = PromptAt(lastRow + 20)

Shows(rows) ==
  /\ Prompt(line_y + 20 + 20 * rows)
  /\ UNCHANGED <<vars, ready>>

EmptyLine == line = <<>> /\ Shows(0)
Help      == line = help /\ Shows(16)
Clear     == line \in {clear, top} /\ Prompt(20) /\ UNCHANGED <<vars, ready>>
Ls        == line = ls /\ Shows(IF FilesInOrder(files) = <<>> THEN 1 ELSE Len(FilesInOrder(files)))
Inform    == (line \in {uname, uptime} \/ Takes(echo)) /\ Shows(1)
Free      == line = free /\ Shows(3)

(* What stands behind the command's name and one space.  Names bounds the  *)
(* arguments that are tried.                                               *)
Argument(word, n) == Takes(word) /\ n = SubSeq(line, Len(word) + 2, Len(line))

(* cat stops in front of the row that would reach the bottom margin, but   *)
(* has moved on to it by then.                                             *)
CatRows(c) ==
  LET fit == Max({0, (HEIGHT - 60 - line_y - 20) \div 20})
  IN  IF ContentRows[c] > fit THEN fit + 1 ELSE ContentRows[c]

Cat(n) ==
  LET f == files[OpenIn(files, n)]
  IN  /\ Argument(cat, n)
      /\ Shows(IF OpenIn(files, n) = 0 THEN 1
               ELSE IF f.data = NULL \/ f.size = 0 THEN 0 ELSE CatRows(mem[f.data]))

Touch(n) ==
  /\ Argument(touch, n)
  /\ Become(Created(State, n))
  /\ Prompt(line_y + 40) /\ UNCHANGED ready

Rm(n) ==
  /\ Argument(rm, n)
  /\ Become(Removed(State, n))
  /\ Prompt(line_y + 40) /\ UNCHANGED ready

(* The editor session of Shell.tla as one step: it saves some text or none. *)
Edit(n) ==
  /\ Argument(edit, n)
  /\ \/ UNCHANGED vars
     \/ \E c \in Contents : Become(Saved(State, n, c))
  /\ Prompt(20) /\ UNCHANGED ready

(* Two more rows while this command's own flag is not set.                 *)
ShowsWithNet(word, rows) ==
  IF word \in ready
  THEN Prompt(line_y + 20 + 20 * rows) /\ UNCHANGED ready
  ELSE /\ Prompt(line_y + 60 + 20 * rows)
       /\ ready' \in {ready, ready \cup {word}}

Ping     == Takes(ping) /\ ShowsWithNet(ping, 3) /\ UNCHANGED vars
Ifconfig == line = ifconfig /\ ShowsWithNet(ifconfig, 4) /\ UNCHANGED vars

(* wget keeps what stands between the last "/" and a "?" or "#", and 63    *)
(* characters of it.                                                       *)
LastSlash(url) == LET at == {i \in DOMAIN url : url[i] = "/"} IN IF at = {} THEN 0 ELSE Max(at)

FileOf(url) ==
  LET tail == IF LastSlash(url) = 0 THEN <<>> ELSE SubSeq(url, LastSlash(url) + 1, Len(url))
      stop == {i \in DOMAIN tail : tail[i] \in {"?", "#"}} \cup {Len(tail) + 1}
  IN  IF LastSlash(url) = 0 \/ Min(stop) = 1 THEN index_html ELSE SubSeq(tail, 1, Min({Min(stop) - 1, 63}))

Wget(url) ==
  /\ Argument(wget, url) /\ FileOf(url) \in Names
  /\ \E c \in Contents : Become(Downloaded(State, FileOf(url), c))
  /\ ShowsWithNet(wget, 4)

Known ==
  \/ line \in {<<>>, help, clear, ls, uname, uptime, free, top, ifconfig}
  \/ \E w \in {cat, echo, touch, rm, ping, edit, wget} : Takes(w)

Unknown == ~Known /\ Shows(1)

Enter ==
  /\ Len(line) <= LINE_MAX
  /\ \/ EmptyLine \/ Help \/ Clear \/ Ls \/ Inform \/ Free \/ Ping \/ Ifconfig \/ Unknown
     \/ \E n \in Names : Cat(n) \/ Touch(n) \/ Rm(n) \/ Edit(n) \/ Wget(n)

LineNext ==
  \/ \E l \in Lines \ {<<>>} : Front(l) = line /\ Type(Last(l))
  \/ Backspace \/ Tab \/ Enter

LineSpec == LineInit /\ [][LineNext]_commandVars

-----------------------------------------------------------------------------
LineTypeOK ==
  /\ TypeOK
  /\ line \in Seq(Chars) /\ cursor \in Nat /\ row \in [Cells -> Chars \cup {"hint"}]
  /\ placeholder_visible \in BOOLEAN
  /\ line_y \in 20..(HEIGHT - 40) /\ ready \subseteq {ping, ifconfig, wget}

(* What the user sees is what Enter will run: on a row inside the screen   *)
(* the whole line stands right before the cursor, with nothing behind it,  *)
(* after any mix of typing, deleting and completing, although completion   *)
(* erases at one column and draws at another (kernel.c:973, 982, 1038).    *)
(* Only the cell in front of a completed line may keep an old letter.      *)
TextAtCursor ==
  LET first == cursor - Len(line)
  IN  InBuffer =>
        /\ line_y + 16 <= HEIGHT
        /\ first \in {0, 1}
        /\ IF placeholder_visible THEN line = <<>> /\ row = FreshRow
           ELSE \A i \in Cells : i >= first =>
                  row[i] = (IF i < cursor THEN line[i - first + 1] ELSE space)

(* A file's name may contain spaces; completion looks at the last word.    *)
NoSpaces == \A n \in Names : Spaces(n) = {}

(* Behind names without spaces, a completed line begins with what was      *)
(* typed, its last word is a command or names a file that vfs_open will    *)
(* find, and a second Tab changes nothing, whichever files the slots hold  *)
(* (kernel.c:954-990, 997-1029).                                           *)
CompletionSound ==
  [][Tab =>
       /\ IsPrefix(line, line') /\ Completed(line') = line'
       /\ line' # line => \/ OpenIn(files, Partial(line')) # 0
                          \/ line' \in {commands[k] : k \in DOMAIN commands}]_commandVars

(* The line outgrows command_buffer (kernel.c:94) in one way only: by the  *)
(* name of a file, with spaces or without, completed behind a space.       *)
(* Typing, deleting and the commands' own names keep it inside.            *)
OverrunOnlyByFileName ==
  Len(line) > LINE_MAX =>
    \E k \in Spaces(line) : OpenIn(files, SubSeq(line, k + 1, Len(line))) # 0
=============================================================================
