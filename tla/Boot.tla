---------------------------------- MODULE Boot ----------------------------------
(***************************************************************************)
(* kernel_main from the loader's tags to the command line, or to the       *)
(* message that there is no framebuffer: multiboot2.c, the choice in       *)
(* kernel.c:71-78, and vga.c while the keyboard handler echoes every key   *)
(* through the same vga_putchar.                                           *)
(*                                                                         *)
(* The kernel is built without optimisation, so vga_row and vga_column are *)
(* loaded and stored by every expression that names them.  Each access of  *)
(* the main program is a step; the handler, which runs with interrupts     *)
(* off, is one step between any two.  Of the main program's characters     *)
(* only plain ones and newlines occur.                                     *)
(***************************************************************************)
EXTENDS VgaText

CONSTANTS
  Loaders,       \* what a loader may pass: sequences of tags with their places
  Message,       \* "NiceTop OS - No framebuffer\n"
  Keys, MaxKeys  \* the characters that are typed, and a bound on their number

(* A loader places each tag at the next multiple of eight and an end tag   *)
(* behind the others.                                                      *)
Placed(passed) ==
  /\ passed # <<>> /\ passed[1].at = 8
  /\ \A k \in DOMAIN passed :
       /\ passed[k].size \in Nat \ {0} /\ passed[k].width \in Nat
       /\ passed[k].type = "end" <=> k = Len(passed)
  /\ \A k \in 2..Len(passed) :
       LET end == passed[k - 1].at + passed[k - 1].size
       IN  passed[k].at \in end..(end + 7) /\ passed[k].at % 8 = 0

ASSUME BootParameters ==
  /\ \A passed \in Loaders : Len(passed) \in Nat /\ DOMAIN passed = 1..Len(passed) /\ Placed(passed)
  /\ Len(Message) \in Nat /\ \A k \in 1..Len(Message) : Message[k] \notin {"cr", "bs", "tab"}
  /\ MaxKeys \in Nat

(* Everything a cell can hold.                                             *)
Glyphs == Keys \cup {Message[k] : k \in 1..Len(Message)} \cup {space, "old"}

Screens ==
  [buf : [CellsShown -> Glyphs], row : Nat, col : Nat,
   port : {"lo", "hi"}, lo : 0..(BYTE - 1), hi : 0..(BYTE - 1)]

VARIABLES
  tags, magic, at,      \* the loader's tags; the walker's offset among them
  width,                \* fb_info.width
  screen,
  access, char, index,  \* the main program: next access, character, loop index,
  reg, pos,             \* and registers
  sheet,                \* what was put on the screen since it was last cleared
  keys,                 \* how many keys were typed
  met                   \* the places in a call where the handler came in

tagVars == <<tags, magic, at, width>>
mainVars == <<access, char, index, reg, pos>>
bootVars == <<tagVars, screen, mainVars, sheet, keys, met>>

-----------------------------------------------------------------------------
RoundUp(n) == ((n + 7) \div 8) * 8
TagsAt(off) == {k \in DOMAIN tags : tags[k].at = off}
TagAt(off) == tags[CHOOSE k \in TagsAt(off) : TRUE]

(* A loader that is not multiboot2 leaves no tags that are looked at.      *)
BootInit ==
  /\ magic \in BOOLEAN /\ tags \in (IF magic THEN Loaders ELSE {<<>>})
  /\ at = 8 /\ width = 0
  /\ screen \in PoweredOn
  /\ access = "parse" /\ char = 1 /\ index = 0 /\ reg = 0 /\ pos = 0
  /\ sheet = EmptySheet /\ keys = 0 /\ met = {}

Jump(from, to) == access = from /\ access' = to

(* kernel.c:73: no tag set a width.                                        *)
ParsedTo == IF width = 0 THEN "clear" ELSE "cli"

BadMagic ==
  /\ ~magic /\ Jump("parse", ParsedTo)
  /\ UNCHANGED <<tagVars, screen, char, index, reg, pos, sheet, keys, met>>

(* Seeded fault: the next tag is looked for right behind this one.         *)
StepUnaligned(t) == at + t.size

Step(t) == at + RoundUp(t.size)

WalkTag ==
  /\ access = "parse" /\ magic /\ TagsAt(at) # {}
  /\ LET t == TagAt(at)
     IN  /\ t.type # "end"
         /\ width' = (IF t.type = "framebuffer" THEN t.width ELSE width)
         /\ at' = Step(t)
  /\ UNCHANGED <<tags, magic, screen, mainVars, sheet, keys, met>>

Parsed ==
  /\ magic /\ TagsAt(at) # {} /\ TagAt(at).type = "end" /\ Jump("parse", ParsedTo)
  /\ UNCHANGED <<tagVars, screen, char, index, reg, pos, sheet, keys, met>>

-----------------------------------------------------------------------------
(* vga_clear, then vga_write of the message.                               *)
ClearCell ==
  /\ Jump("clear", IF index + 1 \in CellsShown THEN "clear" ELSE "clear_row")
  /\ screen' = [screen EXCEPT !.buf[index] = space]
  /\ index' = (IF index + 1 \in CellsShown THEN index + 1 ELSE 0)
  /\ UNCHANGED <<tagVars, char, reg, pos, sheet, keys, met>>

ClearRow ==
  /\ Jump("clear_row", "clear_col")
  /\ screen' = [screen EXCEPT !.row = 0]
  /\ UNCHANGED <<tagVars, char, index, reg, pos, sheet, keys, met>>

ClearCol ==
  /\ Jump("clear_col", "cur_row")
  /\ screen' = [screen EXCEPT !.col = 0]
  /\ sheet' = EmptySheet /\ char' = 0
  /\ UNCHANGED <<tagVars, index, reg, pos, keys, met>>

(* One access each.  After "cur_4" the next character begins.              *)
Fetch ==
  /\ Jump("fetch", IF char > Len(Message) THEN "halt"
                   ELSE IF Message[char] = "nl" THEN "nl_col" ELSE "index_row")
  /\ UNCHANGED <<tagVars, screen, char, index, reg, pos, sheet, keys, met>>

LoadRow(from, to) ==
  /\ Jump(from, to) /\ reg' = screen.row
  /\ UNCHANGED <<tagVars, screen, char, index, pos, sheet, keys, met>>
AddColumn(from, to) ==
  /\ Jump(from, to) /\ pos' = reg * VGA_WIDTH + screen.col
  /\ UNCHANGED <<tagVars, screen, char, index, reg, sheet, keys, met>>

IndexRow == LoadRow("index_row", "index_col")
IndexCol == AddColumn("index_col", "store")

StoreChar ==
  /\ Jump("store", "col_load")
  /\ screen' = [screen EXCEPT !.buf = Stored(@, pos, Message[char])]
  /\ sheet' = Write(sheet, Message[char])
  /\ UNCHANGED <<tagVars, char, index, reg, pos, keys, met>>

ColLoad ==
  /\ Jump("col_load", "col_store") /\ reg' = screen.col
  /\ UNCHANGED <<tagVars, screen, char, index, pos, sheet, keys, met>>
ColStore ==
  /\ Jump("col_store", "col_test") /\ screen' = [screen EXCEPT !.col = reg + 1]
  /\ UNCHANGED <<tagVars, char, index, reg, pos, sheet, keys, met>>
ColTest ==
  /\ Jump("col_test", IF screen.col = VGA_WIDTH THEN "wrap_col" ELSE "cur_row")
  /\ UNCHANGED <<tagVars, screen, char, index, reg, pos, sheet, keys, met>>
WrapCol ==
  /\ Jump("wrap_col", "row_load") /\ screen' = [screen EXCEPT !.col = 0]
  /\ UNCHANGED <<tagVars, char, index, reg, pos, sheet, keys, met>>

NewlineCol ==
  /\ Jump("nl_col", "row_load") /\ screen' = [screen EXCEPT !.col = 0]
  /\ sheet' = Write(sheet, "nl")
  /\ UNCHANGED <<tagVars, char, index, reg, pos, keys, met>>

RowLoad == LoadRow("row_load", "row_store")
RowStore ==
  /\ Jump("row_store", "row_test") /\ screen' = [screen EXCEPT !.row = reg + 1]
  /\ UNCHANGED <<tagVars, char, index, reg, pos, sheet, keys, met>>
RowTest ==
  /\ Jump("row_test", IF screen.row = VGA_HEIGHT THEN "scroll" ELSE "cur_row")
  /\ UNCHANGED <<tagVars, screen, char, index, reg, pos, sheet, keys, met>>

ScrollCell ==
  /\ Jump("scroll", IF index + 1 \in CellsShown THEN "scroll" ELSE "scroll_row")
  /\ screen' = [screen EXCEPT !.buf = ScrolledCell(@, index)]
  /\ index' = (IF index + 1 \in CellsShown THEN index + 1 ELSE 0)
  /\ UNCHANGED <<tagVars, char, reg, pos, sheet, keys, met>>
ScrollRow ==
  /\ Jump("scroll_row", "cur_row") /\ screen' = [screen EXCEPT !.row = VGA_HEIGHT - 1]
  /\ UNCHANGED <<tagVars, char, index, reg, pos, sheet, keys, met>>

CursorRow == LoadRow("cur_row", "cur_col")
CursorCol == AddColumn("cur_col", "cur_1")

(* The four outb of update_cursor: index, byte, index, byte.  A byte goes  *)
(* where the index register points at that moment.                         *)
Out(from, to, s) ==
  /\ Jump(from, to) /\ screen' = s
  /\ UNCHANGED <<tagVars, index, reg, pos, sheet, keys, met>>
DataTo(byte) == IF screen.port = "lo" THEN [screen EXCEPT !.lo = byte]
                ELSE [screen EXCEPT !.hi = byte]
Cursor1 == Out("cur_1", "cur_2", [screen EXCEPT !.port = "lo"]) /\ UNCHANGED char
Cursor2 == Out("cur_2", "cur_3", DataTo(Low(pos))) /\ UNCHANGED char
Cursor3 == Out("cur_3", "cur_4", [screen EXCEPT !.port = "hi"]) /\ UNCHANGED char
Cursor4 == Out("cur_4", "fetch", DataTo(High(pos))) /\ char' = char + 1

-----------------------------------------------------------------------------
(* Between calls of the driver.  The first accesses of vga_clear and of    *)
(* vga_putchar have taken nothing from the driver's state yet.             *)
AtRest == access \in {"parse", "cli", "halt", "fetch"}
Untouched == AtRest \/ access \in {"index_row", "nl_col"} \/ (access = "clear" /\ index = 0)

(* Where in a call the main program stands: between the two loads of       *)
(* "++vga_row == VGA_HEIGHT", those of the column, in update_cursor, or    *)
(* somewhere else.                                                         *)
Window ==
  CASE access \in {"row_test", "col_test"} -> access
    [] access \in {"cur_col", "cur_1", "cur_2", "cur_3", "cur_4"} -> "update_cursor"
    [] OTHER -> "elsewhere"

(* keyboard_handler's echo of a key.                                       *)
Echo(c) ==
  /\ keys < MaxKeys /\ keys' = keys + 1
  /\ screen' = Putchar(screen, c)
  /\ sheet' = Write(sheet, c)
  /\ met' = (IF Untouched THEN met ELSE met \cup {Window})
  /\ UNCHANGED <<tagVars, mainVars>>

MainStep ==
  \/ BadMagic \/ WalkTag \/ Parsed
  \/ ClearCell \/ ClearRow \/ ClearCol \/ Fetch
  \/ IndexRow \/ IndexCol \/ StoreChar \/ ColLoad \/ ColStore \/ ColTest \/ WrapCol
  \/ NewlineCol \/ RowLoad \/ RowStore \/ RowTest \/ ScrollCell \/ ScrollRow
  \/ CursorRow \/ CursorCol \/ Cursor1 \/ Cursor2 \/ Cursor3 \/ Cursor4

BootNext == MainStep \/ \E c \in Keys : Echo(c)

BootSpec == BootInit /\ [][BootNext]_bootVars

-----------------------------------------------------------------------------
Accesses ==
  {"parse", "cli", "halt", "clear", "clear_row", "clear_col", "fetch", "index_row", "index_col",
   "store", "col_load", "col_store", "col_test", "wrap_col", "nl_col", "row_load", "row_store",
   "row_test", "scroll", "scroll_row", "cur_row", "cur_col", "cur_1", "cur_2", "cur_3", "cur_4"}

BootTypeOK ==
  /\ magic \in BOOLEAN /\ tags \in Loaders \cup {<<>>} /\ at \in Nat /\ width \in Nat
  /\ screen \in Screens
  /\ access \in Accesses /\ char \in Nat /\ index \in CellsShown /\ reg \in Nat /\ pos \in Nat
  /\ keys \in 0..MaxKeys /\ met \subseteq {"row_test", "col_test", "update_cursor", "elsewhere"}

Paper == IF access \in {"parse", "cli"} THEN "old" ELSE space

(* Unless a key came in the middle of a call, the screen shows the last    *)
(* rows of what was written, however wraps, tabs, deletions and scrolls    *)
(* mix (vga.c:52-117).                                                     *)
ScreenShowsText ==
  AtRest /\ met = {} => screen.buf = LastRows(sheet, Paper)

(* Between calls, whether update_cursor ever ran: for an echoed key, or at *)
(* the end of vga_clear, which lies behind "parse" and never before "cli". *)
CursorSent == keys > 0 \/ access \notin {"parse", "cli"}

(* The driver's position can leave the screen, for good in the case of the *)
(* row, only when the handler comes between an increment and its test      *)
(* (vga.c:71, 99, 110, 112).  From the first update_cursor on, and not     *)
(* before it, since vga_init leaves the controller alone (vga.c:30-34),    *)
(* the blinking cursor is where the next character goes unless the handler *)
(* comes inside update_cursor (vga.c:13-20).                               *)
CursorTrue ==
  AtRest =>
    /\ screen.row >= VGA_HEIGHT => "row_test" \in met
    /\ screen.col >= VGA_WIDTH => "col_test" \in met
    /\ LET here == screen.row * VGA_WIDTH + screen.col
       IN  CursorSent /\ (screen.lo # Low(here) \/ screen.hi # High(here)) =>
             "update_cursor" \in met

(* Every framebuffer that a loader announces has some width.               *)
WidthsGiven ==
  \A passed \in Loaders : \A k \in DOMAIN passed :
    passed[k].type = "framebuffer" => passed[k].width > 0

(* The walk over the loader's tags lands on every tag, whatever their      *)
(* sizes, so the framebuffer is used exactly when one was announced        *)
(* (multiboot2.c:16-84, kernel.c:72-78).                                   *)
EveryTagSeen ==
  /\ access = "parse" /\ magic => TagsAt(at) # {}
  /\ access # "parse" =>
       (access = "cli" <=> magic /\ \E k \in DOMAIN tags : tags[k].type = "framebuffer")
=============================================================================
